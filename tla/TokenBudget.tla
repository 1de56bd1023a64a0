----------------------------- MODULE TokenBudget -----------------------------
(***************************************************************************)
(* How many tokens a session holds and may still take: the context an      *)
(* engine is loaded with, the budget a request is admitted by and the      *)
(* metrics a turn reports (lib/src/native_backend.dart), with the counts   *)
(* that native/litert_lm_model_bridge.cc makes with the model's own        *)
(* processor.                                                              *)
(*                                                                         *)
(* One engine and one session: sessions share no tokens.  A list of        *)
(* messages is its number of tokens (0: no message), so the model assumes, *)
(* as the code does ("exact"), that rendering a history again costs what   *)
(* it cost the first time.  The worker makes every call between two turns; *)
(* the runtime decodes on its own.  The handles and threads of NativeWorker*)
(* are left out.                                                           *)
(***************************************************************************)
EXTENDS Integers, Sequences

CONSTANTS
    Artifact,       \* what files declare: [maximum : Nat, dynamic : BOOLEAN]
    DefaultContext, \* 4096
    Requested,      \* values of maxNumTokens that are given
    Unset,          \* maxNumTokens is null
    MessageTokens,  \* tokens of one or more messages
    OutputTokens,   \* values of GenerationParams.maxTokens
    Reserve,        \* values of outputReserve in budget queries
    Bos,            \* tokens the first input of a context carries in addition
    CountLimit      \* the largest count the model bridge answers (INT_MAX)

ASSUME BudgetAssumption ==
    /\ Artifact \subseteq [maximum : Nat, dynamic : BOOLEAN]
    /\ DefaultContext \in Nat \ {0}
    /\ Requested \subseteq Int
    /\ MessageTokens \subseteq Nat \ {0}
    /\ OutputTokens \subseteq Nat \ {0}
    /\ Reserve \subseteq Nat
    /\ Bos \in Nat
    /\ CountLimit \in Nat

VARIABLES
    prefillOnInit, \* whether the runtime prefills a preface when it opens one
    context,       \* effectiveContextTokens; 0 before an engine is loaded
    conversation,  \* the session: a conversation, or raw
    maxTokens,     \* its params.maxTokens; 0 before it is created
    history,       \* tokens of its committed messages
    handle,        \* its native handle
    turn,          \* the generation that is running, or Idle
    \* The handle's benchmark, and the session's place in it.
    prefills, decodes, prefillTurns, decodeTurns,
    reported       \* tokens that metrics reported since the handle was opened

benchmark == <<prefills, decodes, prefillTurns, decodeTurns, reported>>
session   == <<conversation, maxTokens>>
vars == <<prefillOnInit, context, session, history, handle, turn, benchmark>>

Failed == -1

Idle == [running |-> FALSE, question |-> 0, produced |-> 0, promised |-> 0]

-----------------------------------------------------------------------------
(* The runtime: external.  kv is what its cache holds.                     *)

Opened(preface) ==
    [open |-> TRUE, preface |-> preface, said |-> 0, heard |-> FALSE,
     kv |-> IF prefillOnInit /\ preface > 0 THEN Bos + preface ELSE 0]

Closed == [open |-> FALSE, preface |-> 0, said |-> 0, heard |-> FALSE, kv |-> 0]

\* The runtime refuses to open what does not fit.
Opens(h) == h.kv <= context

\* What a message costs when it is sent: the first one carries the rest of its
\* context along.
Cost(h, tokens) ==
    tokens + (IF h.heard \/ prefillOnInit THEN 0 ELSE h.preface)
           + (IF h.kv = 0 THEN Bos ELSE 0)

-----------------------------------------------------------------------------
(* The counts of the model bridge, and _budget.                            *)

CountPrepared(tokens, first) ==
    LET total == tokens + (IF first THEN Bos ELSE 0)
    IN  IF total > CountLimit THEN Failed ELSE total

\* Mutant: a preface that is not prefilled is not counted.
CountMessageOnly(h, tokens) == CountPrepared(tokens, h.kv = 0)

CountConversation(h, tokens) ==
    LET unsent == IF ~h.heard /\ ~prefillOnInit THEN h.preface ELSE 0
    IN  CountPrepared(tokens + unsent, h.kv = 0)

Input(h, tokens) ==
    IF tokens = 0 THEN 0
    ELSE IF conversation THEN CountConversation(h, tokens)
    ELSE CountPrepared(tokens, h.kv = 0)

\* The session's handle, opened again if it is not.
Ready == IF handle.open THEN handle ELSE Opened(history)

IsBatch(prefix) == conversation /\ prefix > 0

\* Mutant: the messages before the last one are not counted.
BudgetedLast(prefix, last) ==
    [on |-> Ready, tokens |-> IF IsBatch(prefix) THEN last ELSE prefix + last]

\* What _budget counts against what: a batch is counted on a temporary handle
\* that holds the committed history and all messages but the last.
Budgeted(prefix, last) ==
    IF IsBatch(prefix)
    THEN [on |-> Opened(history + prefix), tokens |-> last]
    ELSE [on |-> Ready, tokens |-> prefix + last]

\* requiredTokens, or Failed when the count or the temporary handle fails.
Required(prefix, last, reserve) ==
    LET b     == Budgeted(prefix, last)
        input == Input(b.on, b.tokens)
    IN  IF ~Opens(b.on) \/ input = Failed THEN Failed
        ELSE b.on.kv + input + reserve

-----------------------------------------------------------------------------

Init ==
    /\ prefillOnInit \in BOOLEAN
    /\ context = 0
    /\ conversation = FALSE
    /\ maxTokens = 0
    /\ history = 0
    /\ handle = Closed
    /\ turn = Idle
    /\ prefills = <<>> /\ decodes = <<>>
    /\ prefillTurns = 0 /\ decodeTurns = 0
    /\ reported = 0

RequestedContext(artifact, requested) ==
    IF requested # Unset THEN requested
    ELSE IF artifact.dynamic /\ artifact.maximum >= DefaultContext
    THEN DefaultContext ELSE artifact.maximum

Accepts(artifact, tokens) ==
    /\ 0 < tokens /\ tokens <= artifact.maximum
    /\ artifact.dynamic \/ tokens = artifact.maximum

\* `actual` is the context the native engine says it has.
_loadEngine(artifact, requested, actual) ==
    /\ context = 0
    /\ Accepts(artifact, RequestedContext(artifact, requested))
    /\ 0 < actual /\ actual <= artifact.maximum
    /\ context' = actual
    /\ UNCHANGED <<prefillOnInit, session, history, handle, turn, benchmark>>

_openSession(h) ==
    /\ handle' = h
    /\ prefills' = <<>> /\ decodes' = <<>> /\ reported' = 0
    /\ prefillTurns' = 0 /\ decodeTurns' = 0

MakeReady ==
    IF handle.open THEN UNCHANGED <<handle, benchmark>>
    ELSE _openSession(Opened(history))

\* A conversation starts with the messages it is configured with.
_createSession(chat, output, messages) ==
    /\ context > 0
    /\ maxTokens = 0
    /\ chat \/ messages = 0
    /\ conversation' = chat
    /\ maxTokens' = output
    /\ history' = messages
    /\ Opens(Opened(messages))
    /\ _openSession(Opened(messages))
    /\ UNCHANGED <<prefillOnInit, context, turn>>

Between == maxTokens > 0 /\ ~turn.running

\* A budget query, whether or not the count fails.
budget(prefix) ==
    /\ Between
    /\ IF IsBatch(prefix) THEN UNCHANGED <<handle, benchmark>> ELSE MakeReady
    /\ UNCHANGED <<prefillOnInit, context, session, history, turn>>

\* ContextFull, or the count failed.
GenerateRefused(prefix, last) ==
    /\ Between
    /\ LET required == Required(prefix, last, maxTokens)
       IN  required = Failed \/ required > context
    /\ MakeReady
    /\ UNCHANGED <<prefillOnInit, context, session, history, turn>>

\* The batch is admitted and its rebuilt handle cannot be opened after all.
RebuildFails(prefix, last) ==
    /\ Between
    /\ IsBatch(prefix)
    /\ Required(prefix, last, maxTokens) \in 0 .. context
    /\ _openSession(Closed)
    /\ UNCHANGED <<prefillOnInit, context, session, history, turn>>

\* The message goes to the runtime, which prefills it in one or two chunks.
Sent(h, tokens, promised) ==
    /\ handle' = [h EXCEPT !.kv = @ + Cost(h, tokens)]
    /\ turn' = [running |-> TRUE, question |-> tokens, produced |-> 0,
                promised |-> promised]

Prefilled(before, cost) ==
    \E chunk \in 1 .. cost :
        prefills' = before \o (IF chunk = cost THEN <<cost>>
                               ELSE <<chunk, cost - chunk>>)

_generate(prefix, last) ==
    LET required == Required(prefix, last, maxTokens)
        fresh    == IsBatch(prefix) \/ ~handle.open
        on       == IF IsBatch(prefix) THEN Opened(history + prefix) ELSE Ready
        tokens   == IF IsBatch(prefix) THEN last ELSE prefix + last
    IN  /\ Between
        /\ required # Failed /\ required <= context
        /\ Sent(on, tokens, required)
        /\ Prefilled(IF fresh THEN <<>> ELSE prefills, Cost(on, tokens))
        /\ IF fresh
           THEN decodes' = <<>> /\ reported' = 0 /\ prefillTurns' = 0
                /\ decodeTurns' = 0
           ELSE UNCHANGED <<decodes, reported, prefillTurns, decodeTurns>>
        /\ UNCHANGED <<prefillOnInit, context, session, history>>

\* The runtime: one more token, within params.maxTokens.
Decode ==
    /\ turn.running
    /\ turn.produced < maxTokens
    /\ handle' = [handle EXCEPT !.kv = @ + 1]
    /\ turn' = [turn EXCEPT !.produced = @ + 1]
    /\ UNCHANGED <<prefillOnInit, context, session, history, benchmark>>

\* The tokens of all turns after the first few.
SumFrom(turns, first) ==
    LET sum[i \in first .. Len(turns)] ==
            IF i = first THEN 0 ELSE sum[i - 1] + turns[i]
    IN  sum[Len(turns)]

\* Mutant: every turn reports the whole benchmark.
MetricsAgain(decoded) ==
    /\ reported' = reported + SumFrom(prefills, 0) + SumFrom(decoded, 0)
    /\ prefillTurns' = Len(prefills)
    /\ decodeTurns' = Len(decoded)

\* _metrics sums the chunks of the benchmark that no turn has reported yet.
_metrics(decoded) ==
    /\ reported' = reported + SumFrom(prefills, prefillTurns)
                            + SumFrom(decoded, decodeTurns)
    /\ prefillTurns' = Len(prefills)
    /\ decodeTurns' = Len(decoded)

\* The turn is complete: _finish reads the native history and the metrics.
Complete ==
    LET said == handle.said + turn.question + turn.produced IN
    /\ turn.running
    /\ handle' = [handle EXCEPT !.said = said, !.heard = TRUE]
    /\ history' = IF conversation THEN handle.preface + said ELSE history
    /\ decodes' = IF turn.produced > 0 THEN Append(decodes, turn.produced)
                  ELSE decodes
    /\ _metrics(decodes')
    /\ turn' = Idle
    /\ UNCHANGED <<prefillOnInit, context, session, prefills>>

\* It was cancelled, overran its queue or failed: the handle is deleted.
Discard ==
    /\ turn.running
    /\ handle' = Closed
    /\ turn' = Idle
    /\ UNCHANGED <<prefillOnInit, context, session, history, benchmark>>

Prefix == {0} \union MessageTokens

Next ==
    \/ \E artifact \in Artifact, requested \in Requested \union {Unset} :
         \E actual \in 0 .. artifact.maximum + 1 :
           _loadEngine(artifact, requested, actual)
    \/ \E chat \in BOOLEAN, output \in OutputTokens, messages \in Prefix :
         _createSession(chat, output, messages)
    \/ \E prefix \in Prefix :
         \/ budget(prefix)
         \/ \E last \in MessageTokens : \/ GenerateRefused(prefix, last)
                                        \/ RebuildFails(prefix, last)
                                        \/ _generate(prefix, last)
    \/ Decode \/ Complete \/ Discard

Spec == Init /\ [][Next]_vars

-----------------------------------------------------------------------------

Handle == [open : BOOLEAN, preface : Nat, said : Nat, heard : BOOLEAN, kv : Nat]

Turn == [running : BOOLEAN, question : Nat, produced : Nat, promised : Nat]

\* The engine runs with a context its artifact has room for; counts are counts.
BudgetTypeOK ==
    /\ prefillOnInit \in BOOLEAN
    /\ context = 0 \/ \E artifact \in Artifact : context \in 1 .. artifact.maximum
    /\ conversation \in BOOLEAN
    /\ maxTokens \in OutputTokens \union {0}
    /\ history \in Nat
    /\ handle \in Handle
    /\ turn \in Turn

\* "Nothing is silently truncated" (README, Model capacity): an admitted turn
\* fits, its output included, whichever of its messages went through a rebuilt
\* preface; it never takes more than the budget that admitted it said.
KvFits ==
    /\ handle.kv <= context
    /\ turn.running => handle.kv + (maxTokens - turn.produced) <= turn.promised

\* The context that budgets and admissions rely on is one the engine really has,
\* and what was admitted to it fits.
ContextHolds == BudgetTypeOK /\ KvFits

\* The tokens a context holds once everything said in it was sent.
Committed == IF conversation THEN history ELSE handle.said

\* The budget of a request is its whole context and the reserve, and the same
\* whether the conversation kept its handle, was rebuilt after a cancel or is
\* rebuilt for a batch, and whether the runtime prefills a preface at once.
RequiredIsWhole ==
    Between => \A prefix \in Prefix, last \in MessageTokens, reserve \in Reserve :
        LET required == Required(prefix, last, reserve)
        IN  \/ required = Failed
            \/ required = Bos + Committed + prefix + last + reserve

\* What the turns of a handle reported adds up to what its context holds beyond
\* what it was opened with: no chunk is counted twice, or by no turn.
MetricsAddUp ==
    Between /\ handle.open =>
        handle.kv = Opened(handle.preface).kv + reported
=============================================================================
