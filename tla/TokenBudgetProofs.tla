-------------------------- MODULE TokenBudgetProofs --------------------------
(***************************************************************************)
(* Proofs about the token budget, for every capacity, size and reserve.    *)
(* The inductive invariant says what the cache of the native handle holds; *)
(* from it the counts of the model bridge are what the runtime will take.  *)
(* A second one accounts for that cache in what the turns reported.        *)
(***************************************************************************)
EXTENDS TokenBudget, TLAPS

\* The cache of an idle handle: what was said in its context, which begins with
\* the preface, sent with the first message or when the handle was opened.
Cached(h) ==
    IF h.heard \/ (prefillOnInit /\ h.preface > 0)
    THEN Bos + h.preface + h.said ELSE 0

\* A handle between two turns.
Settled(h) ==
    /\ h \in Handle
    /\ h.kv = Cached(h)
    /\ h.heard <=> h.said > 0
    /\ ~conversation => h.preface = 0
    /\ h.kv <= context
    /\ h.open \/ h = Closed

SessionInv ==
    /\ ~conversation => history = 0
    /\ prefillOnInit /\ history > 0 => Bos + history <= context
    /\ maxTokens > 0 => context > 0
    /\ maxTokens = 0 => ~turn.running /\ handle = Closed /\ history = 0

IdleInv ==
    ~turn.running =>
        /\ Settled(handle)
        /\ handle.open /\ conversation => history = handle.preface + handle.said

RunningInv ==
    turn.running =>
        /\ handle.open
        /\ handle.kv = Bos + handle.preface + handle.said + turn.question
                         + turn.produced
        /\ turn.question > 0
        /\ ~conversation => handle.preface = 0
        /\ turn.produced <= maxTokens
        /\ turn.promised <= context
        /\ handle.kv + (maxTokens - turn.produced) <= turn.promised

BudgetInv == BudgetTypeOK /\ SessionInv /\ IdleInv /\ RunningInv

LEMMA ContextIsNat ==
  ASSUME BudgetTypeOK
  PROVE  context \in Nat /\ maxTokens \in Nat
BY BudgetAssumption DEF BudgetTypeOK

-----------------------------------------------------------------------------
(* What a request costs on a settled handle.                               *)

LEMMA OpenedSettled ==
  ASSUME BudgetInv, NEW p \in Nat, Opens(Opened(p)), ~conversation => p = 0
  PROVE  Settled(Opened(p)) /\ Opened(p).open /\ Opened(p).said = 0
         /\ Opened(p).preface = p
BY ContextIsNat, BudgetAssumption
   DEF Opens, Opened, Settled, Cached, Handle, BudgetInv, BudgetTypeOK

LEMMA ClosedSettled ==
  ASSUME BudgetInv
  PROVE  Settled(Closed)
BY ContextIsNat, BudgetAssumption
   DEF Closed, Settled, Cached, Handle, BudgetInv, BudgetTypeOK

\* The handle a request meets: the one that is open, or the history's.
LEMMA ReadySettled ==
  ASSUME BudgetInv, ~turn.running
  PROVE  /\ Settled(Ready) /\ Ready.open /\ Opens(Ready)
         /\ Ready.preface + Ready.said = Committed
         /\ ~handle.open => Opens(Opened(history))
<1>1. CASE handle.open
  BY <1>1 DEF BudgetInv, IdleInv, Ready, Settled, Opens, Committed, Handle,
              BudgetTypeOK
<1>2. CASE ~handle.open
  <2>1. history \in Nat /\ (~conversation => history = 0)
    BY DEF BudgetInv, BudgetTypeOK, SessionInv
  <2>2. Opens(Opened(history))
    BY <2>1, ContextIsNat DEF BudgetInv, SessionInv, Opens, Opened
  <2>3. handle = Closed
    BY <1>2 DEF BudgetInv, IdleInv, Settled
  <2>. QED  BY <1>2, <2>1, <2>2, <2>3, OpenedSettled DEF Ready, Committed, Closed
<1>. QED  BY <1>1, <1>2

\* The model bridge counts what the runtime will take, and what it will take is
\* what is missing from the cache.
LEMMA InputIsCost ==
  ASSUME BudgetInv, NEW h, Settled(h), NEW tokens \in Nat \ {0}
  PROVE  /\ Input(h, tokens) \in {Failed, Cost(h, tokens)}
         /\ h.kv + Cost(h, tokens) = Bos + h.preface + h.said + tokens
         /\ Cost(h, tokens) \in Nat \ {0}
         /\ Cost(h, tokens) # Failed
<1>0. /\ h.kv \in Nat /\ h.preface \in Nat /\ h.said \in Nat
     /\ h.heard \in BOOLEAN /\ Bos \in Nat /\ CountLimit \in Nat
     /\ prefillOnInit \in BOOLEAN /\ conversation \in BOOLEAN
  BY BudgetAssumption DEF Settled, Handle, BudgetInv, BudgetTypeOK
<1>1. h.kv + Cost(h, tokens) = Bos + h.preface + h.said + tokens
  BY <1>0 DEF Settled, Cached, Cost
<1>2. Cost(h, tokens) \in Nat \ {0} /\ Cost(h, tokens) # Failed
  BY <1>0 DEF Cost, Failed
<1>3. CASE conversation
  BY <1>0, <1>1, <1>2, <1>3 DEF Input, CountConversation, CountPrepared, Cost, Failed
<1>4. CASE ~conversation
  BY <1>0, <1>1, <1>2, <1>4 DEF Input, CountPrepared, Cost, Failed, Settled
<1>. QED  BY <1>1, <1>2, <1>3, <1>4

\* Both ways to budget a request come to the same.
LEMMA BudgetedSettled ==
  ASSUME BudgetInv, ~turn.running,
         NEW prefix \in Prefix, NEW last \in MessageTokens,
         Opens(Budgeted(prefix, last).on)
  PROVE  LET b == Budgeted(prefix, last)
         IN  /\ Settled(b.on) /\ b.on.open
             /\ b.tokens \in Nat \ {0}
             /\ b.on.preface + b.on.said + b.tokens = Committed + prefix + last
<1>0. prefix \in Nat /\ last \in Nat \ {0} /\ history \in Nat
  BY BudgetAssumption DEF Prefix, BudgetInv, BudgetTypeOK
<1>1. CASE IsBatch(prefix)
  <2>1. Budgeted(prefix, last) = [on |-> Opened(history + prefix), tokens |-> last]
    BY <1>1 DEF Budgeted
  <2>2. conversation /\ Committed = history
    BY <1>1 DEF IsBatch, Committed
  <2>. QED  BY <1>0, <2>1, <2>2, OpenedSettled
<1>2. CASE ~IsBatch(prefix)
  <2>1. Budgeted(prefix, last) = [on |-> Ready, tokens |-> prefix + last]
    BY <1>2 DEF Budgeted
  <2>2. /\ Settled(Ready) /\ Ready.open
        /\ Ready.preface \in Nat /\ Ready.said \in Nat
        /\ Ready.preface + Ready.said = Committed
    BY ReadySettled DEF Settled, Handle
  <2>. QED  BY <1>0, <2>1, <2>2
<1>. QED  BY <1>1, <1>2

LEMMA RequiredCounts ==
  ASSUME BudgetInv, ~turn.running,
         NEW prefix \in Prefix, NEW last \in MessageTokens, NEW reserve \in Nat,
         Required(prefix, last, reserve) # Failed
  PROVE  LET b == Budgeted(prefix, last)
         IN  /\ Opens(b.on)
             /\ Required(prefix, last, reserve)
                  = b.on.kv + Cost(b.on, b.tokens) + reserve
             /\ Required(prefix, last, reserve)
                  = Bos + Committed + prefix + last + reserve
<1>. DEFINE b == Budgeted(prefix, last)
<1>1. Opens(b.on) /\ Input(b.on, b.tokens) # Failed
  BY DEF Required
<1>2. /\ Settled(b.on) /\ b.tokens \in Nat \ {0}
      /\ b.on.preface + b.on.said + b.tokens = Committed + prefix + last
  BY <1>1, BudgetedSettled
<1>3. /\ Input(b.on, b.tokens) = Cost(b.on, b.tokens)
      /\ b.on.kv + Cost(b.on, b.tokens)
           = Bos + b.on.preface + b.on.said + b.tokens
  BY <1>1, <1>2, InputIsCost
<1>4. Required(prefix, last, reserve) = b.on.kv + Input(b.on, b.tokens) + reserve
  BY <1>1 DEF Required
<1>5. /\ b.on.preface \in Nat /\ b.on.said \in Nat /\ Bos \in Nat
      /\ Committed \in Nat /\ prefix \in Nat /\ last \in Nat
  BY <1>2, BudgetAssumption
     DEF Settled, Handle, Prefix, Committed, BudgetInv, BudgetTypeOK, IdleInv
<1>. HIDE DEF b
<1>6. b.on.kv + Cost(b.on, b.tokens) = Bos + Committed + prefix + last
  BY <1>2, <1>3, <1>5
<1>. QED  BY <1>1, <1>3, <1>4, <1>6 DEF b

-----------------------------------------------------------------------------
(* Every action keeps the invariant.                                       *)

LEMMA InitBudgetInv == Init => BudgetInv
<1>. SUFFICES ASSUME Init PROVE BudgetInv
  OBVIOUS
<1>1. Closed \in Handle /\ Idle \in Turn
  BY DEF Closed, Idle, Handle, Turn
<1>2. BudgetTypeOK
  BY <1>1 DEF Init, BudgetTypeOK
<1>3. SessionInv /\ RunningInv
  BY DEF Init, SessionInv, RunningInv, Idle
<1>4. IdleInv
  BY <1>1 DEF Init, IdleInv, Settled, Cached, Closed
<1>. QED  BY <1>2, <1>3, <1>4 DEF BudgetInv

\* The primed invariant of a state between two turns, part by part.
LEMMA LoadKeeps ==
  ASSUME BudgetInv, NEW artifact \in Artifact, NEW requested,
         NEW actual \in 0 .. artifact.maximum + 1,
         _loadEngine(artifact, requested, actual)
  PROVE  BudgetInv'
<1>0. context = 0 /\ context' = actual /\ actual \in 1 .. artifact.maximum
      /\ UNCHANGED <<prefillOnInit, conversation, maxTokens, history, handle, turn>>
  BY BudgetAssumption DEF _loadEngine, session
<1>1. BudgetTypeOK'
  BY <1>0, BudgetAssumption DEF BudgetInv, BudgetTypeOK
<1>2. maxTokens = 0 /\ handle = Closed /\ ~turn.running /\ history = 0
  BY <1>0, ContextIsNat DEF BudgetInv, SessionInv, BudgetTypeOK
<1>3. SessionInv' /\ RunningInv'
  BY <1>0, <1>2 DEF SessionInv, RunningInv
<1>4. IdleInv'
  BY <1>0, <1>2, BudgetAssumption
     DEF IdleInv, Settled, Cached, Closed, Handle, BudgetInv, BudgetTypeOK
<1>. QED  BY <1>1, <1>3, <1>4 DEF BudgetInv

LEMMA CreateKeeps ==
  ASSUME BudgetInv, NEW chat \in BOOLEAN, NEW output \in OutputTokens,
         NEW messages \in Prefix, _createSession(chat, output, messages)
  PROVE  BudgetInv'
<1>0. /\ context > 0 /\ maxTokens = 0 /\ messages \in Nat
      /\ chat \/ messages = 0
      /\ output \in Nat \ {0}
      /\ conversation' = chat /\ maxTokens' = output /\ history' = messages
      /\ Opened(messages).kv <= context
      /\ handle' = Opened(messages)
      /\ UNCHANGED <<prefillOnInit, context, turn>>
  BY BudgetAssumption DEF _createSession, _openSession, Opens, Prefix
<1>1. ~turn.running
  BY <1>0 DEF BudgetInv, SessionInv
<1>2. BudgetTypeOK'
  BY <1>0, BudgetAssumption DEF BudgetInv, BudgetTypeOK, Opened, Handle
<1>3. SessionInv' /\ RunningInv'
  BY <1>0, <1>1 DEF SessionInv, RunningInv, Opened, BudgetInv, BudgetTypeOK
<1>4. IdleInv'
  BY <1>0, <1>2
     DEF IdleInv, Settled, Cached, Opened, Handle, BudgetInv, BudgetTypeOK
<1>. QED  BY <1>2, <1>3, <1>4 DEF BudgetInv

\* Opening the handle for a query or a refused request.
LEMMA MakeReadyKeeps ==
  ASSUME BudgetInv, Between, handle' = Ready,
         UNCHANGED <<prefillOnInit, context, session, history, turn>>
  PROVE  BudgetInv'
<1>0. /\ maxTokens > 0 /\ ~turn.running
      /\ UNCHANGED <<prefillOnInit, context, conversation, maxTokens, history,
                     turn>>
  BY DEF Between, session
<1>1. /\ Settled(Ready) /\ Ready.open
      /\ Ready.preface + Ready.said = Committed
  BY <1>0, ReadySettled
<1>2. BudgetTypeOK'
  BY <1>0, <1>1 DEF BudgetInv, BudgetTypeOK, Settled
<1>3. SessionInv' /\ RunningInv'
  BY <1>0 DEF BudgetInv, SessionInv, RunningInv
<1>4. IdleInv'
  BY <1>0, <1>1 DEF IdleInv, Settled, Cached, Committed
<1>. QED  BY <1>2, <1>3, <1>4 DEF BudgetInv

LEMMA ReadyMade == MakeReady => handle' = Ready
BY DEF MakeReady, Ready, _openSession

LEMMA RebuildFailsKeeps ==
  ASSUME BudgetInv, NEW prefix, NEW last, RebuildFails(prefix, last)
  PROVE  BudgetInv'
<1>0. /\ maxTokens > 0 /\ ~turn.running /\ handle' = Closed
      /\ UNCHANGED <<prefillOnInit, context, conversation, maxTokens, history,
                     turn>>
  BY DEF RebuildFails, Between, session, _openSession
<1>1. Settled(Closed)
  BY ClosedSettled
<1>2. BudgetTypeOK'
  BY <1>0, <1>1 DEF BudgetInv, BudgetTypeOK, Settled
<1>3. SessionInv' /\ RunningInv'
  BY <1>0 DEF BudgetInv, SessionInv, RunningInv
<1>4. IdleInv'
  BY <1>0, <1>1 DEF IdleInv, Settled, Cached, Closed
<1>. QED  BY <1>2, <1>3, <1>4 DEF BudgetInv

LEMMA GenerateKeeps ==
  ASSUME BudgetInv, NEW prefix \in Prefix, NEW last \in MessageTokens,
         _generate(prefix, last)
  PROVE  BudgetInv'
<1>. DEFINE b == Budgeted(prefix, last)
            required == Required(prefix, last, maxTokens)
<1>0. /\ maxTokens > 0 /\ maxTokens \in Nat /\ ~turn.running
      /\ required # Failed /\ required <= context
      /\ UNCHANGED <<prefillOnInit, context, conversation, maxTokens, history>>
  BY ContextIsNat DEF _generate, Between, session, BudgetInv
<1>1. Sent(b.on, b.tokens, required)
  BY DEF _generate, Budgeted
<1>2. /\ Opens(b.on)
      /\ required = b.on.kv + Cost(b.on, b.tokens) + maxTokens
  BY <1>0, RequiredCounts
<1>3. Settled(b.on) /\ b.on.open /\ b.tokens \in Nat \ {0}
  BY <1>0, <1>2, BudgetedSettled
<1>4. /\ b.on.kv + Cost(b.on, b.tokens)
           = Bos + b.on.preface + b.on.said + b.tokens
      /\ Cost(b.on, b.tokens) \in Nat
  BY <1>3, InputIsCost
<1>5. b.on \in Handle /\ (~conversation => b.on.preface = 0)
  BY <1>3 DEF Settled
<1>. HIDE DEF b, required
<1>6. /\ handle' \in Handle /\ handle'.open
      /\ handle'.preface = b.on.preface /\ handle'.said = b.on.said
      /\ handle'.kv = b.on.kv + Cost(b.on, b.tokens)
      /\ turn' = [running |-> TRUE, question |-> b.tokens, produced |-> 0,
                  promised |-> required]
  BY <1>1, <1>3, <1>4, <1>5 DEF Sent, Handle
<1>7. required \in Nat /\ context \in Nat
  BY <1>0, <1>2, <1>4, <1>5, ContextIsNat DEF Handle, BudgetInv
<1>8. BudgetTypeOK'
  BY <1>0, <1>3, <1>6, <1>7 DEF BudgetInv, BudgetTypeOK, Turn
<1>9. SessionInv' /\ IdleInv'
  BY <1>0, <1>6 DEF BudgetInv, SessionInv, IdleInv
<1>10. RunningInv'
  BY <1>0, <1>2, <1>3, <1>4, <1>5, <1>6, <1>7, BudgetAssumption
     DEF RunningInv, Handle
<1>. QED  BY <1>8, <1>9, <1>10 DEF BudgetInv

LEMMA DecodeKeeps ==
  ASSUME BudgetInv, Decode
  PROVE  BudgetInv'
<1>0. /\ turn.running /\ turn.produced < maxTokens
      /\ handle' = [handle EXCEPT !.kv = @ + 1]
      /\ turn' = [turn EXCEPT !.produced = @ + 1]
      /\ UNCHANGED <<prefillOnInit, context, conversation, maxTokens, history>>
  BY DEF Decode, session
<1>1. handle \in Handle /\ turn \in Turn /\ context \in Nat /\ maxTokens \in Nat
  BY ContextIsNat DEF BudgetInv, BudgetTypeOK
<1>2. BudgetTypeOK'
  BY <1>0, <1>1 DEF BudgetInv, BudgetTypeOK, Handle, Turn
<1>3. SessionInv' /\ IdleInv'
  BY <1>0, <1>1 DEF BudgetInv, SessionInv, IdleInv, Turn
<1>4. RunningInv'
  BY <1>0, <1>1, BudgetAssumption DEF BudgetInv, RunningInv, Handle, Turn
<1>. QED  BY <1>2, <1>3, <1>4 DEF BudgetInv

LEMMA CompleteKeeps ==
  ASSUME BudgetInv, Complete
  PROVE  BudgetInv'
<1>. DEFINE said == handle.said + turn.question + turn.produced
<1>0. /\ turn.running
      /\ handle' = [handle EXCEPT !.said = said, !.heard = TRUE]
      /\ history' = IF conversation THEN handle.preface + said ELSE history
      /\ turn' = Idle
      /\ UNCHANGED <<prefillOnInit, context, conversation, maxTokens>>
  BY DEF Complete, session
<1>1. /\ handle \in Handle /\ turn \in Turn /\ context \in Nat
      /\ maxTokens \in Nat /\ history \in Nat /\ Bos \in Nat
  BY ContextIsNat, BudgetAssumption DEF BudgetInv, BudgetTypeOK
<1>2. /\ handle.open /\ turn.question > 0
      /\ handle.kv = Bos + handle.preface + said
      /\ ~conversation => handle.preface = 0
      /\ handle.kv <= context
      /\ maxTokens > 0
  BY <1>0, <1>1 DEF BudgetInv, RunningInv, SessionInv, Handle, Turn
<1>3. said \in Nat /\ said > 0
  BY <1>1, <1>2 DEF Handle, Turn
<1>. HIDE DEF said
<1>4. /\ handle' \in Handle /\ handle'.open /\ handle'.heard
      /\ handle'.said = said /\ handle'.preface = handle.preface
      /\ handle'.kv = handle.kv
  BY <1>0, <1>1, <1>2, <1>3 DEF Handle
<1>5. BudgetTypeOK'
  BY <1>0, <1>1, <1>3, <1>4 DEF BudgetInv, BudgetTypeOK, Idle, Turn, Handle
<1>6. SessionInv' /\ RunningInv'
  BY <1>0, <1>1, <1>2, <1>3
     DEF BudgetInv, SessionInv, RunningInv, Idle, Handle
<1>7. IdleInv'
  BY <1>0, <1>1, <1>2, <1>3, <1>4 DEF IdleInv, Settled, Cached
<1>. QED  BY <1>5, <1>6, <1>7 DEF BudgetInv

LEMMA DiscardKeeps ==
  ASSUME BudgetInv, Discard
  PROVE  BudgetInv'
<1>0. /\ turn.running /\ handle' = Closed /\ turn' = Idle
      /\ UNCHANGED <<prefillOnInit, context, conversation, maxTokens, history>>
  BY DEF Discard, session
<1>1. Settled(Closed) /\ maxTokens > 0
  BY <1>0, ClosedSettled, ContextIsNat DEF BudgetInv, SessionInv
<1>2. BudgetTypeOK'
  BY <1>0, <1>1 DEF BudgetInv, BudgetTypeOK, Settled, Idle, Turn
<1>3. SessionInv' /\ RunningInv'
  BY <1>0, <1>1 DEF BudgetInv, SessionInv, RunningInv, Idle
<1>4. IdleInv'
  BY <1>0, <1>1 DEF IdleInv, Settled, Cached, Closed
<1>. QED  BY <1>2, <1>3, <1>4 DEF BudgetInv

LEMMA NextKeeps == BudgetInv /\ [Next]_vars => BudgetInv'
<1>. SUFFICES ASSUME BudgetInv, [Next]_vars PROVE BudgetInv'
  OBVIOUS
<1>1. ASSUME NEW artifact \in Artifact, NEW requested \in Requested \union {Unset},
             NEW actual \in 0 .. artifact.maximum + 1,
             _loadEngine(artifact, requested, actual)
      PROVE  BudgetInv'
  BY <1>1, LoadKeeps
<1>2. ASSUME NEW chat \in BOOLEAN, NEW output \in OutputTokens,
             NEW messages \in Prefix, _createSession(chat, output, messages)
      PROVE  BudgetInv'
  BY <1>2, CreateKeeps
<1>3. ASSUME NEW prefix \in Prefix, budget(prefix)
      PROVE  BudgetInv'
  <2>1. /\ Between
        /\ UNCHANGED <<prefillOnInit, context, session, history, turn>>
    BY <1>3 DEF budget
  <2>2. CASE IsBatch(prefix)
    BY <1>3, <2>1, <2>2
       DEF budget, session, BudgetInv, BudgetTypeOK, SessionInv, IdleInv,
           RunningInv, Settled, Cached
  <2>3. CASE ~IsBatch(prefix)
    BY <1>3, <2>1, <2>3, ReadyMade, MakeReadyKeeps DEF budget
  <2>. QED  BY <2>2, <2>3
<1>4. ASSUME NEW prefix \in Prefix, NEW last \in MessageTokens,
             GenerateRefused(prefix, last)
      PROVE  BudgetInv'
  BY <1>4, ReadyMade, MakeReadyKeeps DEF GenerateRefused
<1>5. ASSUME NEW prefix \in Prefix, NEW last \in MessageTokens,
             RebuildFails(prefix, last)
      PROVE  BudgetInv'
  BY <1>5, RebuildFailsKeeps
<1>6. ASSUME NEW prefix \in Prefix, NEW last \in MessageTokens,
             _generate(prefix, last)
      PROVE  BudgetInv'
  BY <1>6, GenerateKeeps
<1>7. CASE Decode
  BY <1>7, DecodeKeeps
<1>8. CASE Complete
  BY <1>8, CompleteKeeps
<1>9. CASE Discard
  BY <1>9, DiscardKeeps
<1>10. CASE UNCHANGED vars
  BY <1>10
     DEF vars, session, BudgetInv, BudgetTypeOK, SessionInv, IdleInv, RunningInv,
         Settled, Cached
<1>. QED  BY <1>1, <1>2, <1>3, <1>4, <1>5, <1>6, <1>7, <1>8, <1>9, <1>10 DEF Next

LEMMA BudgetInvariant == Spec => []BudgetInv
BY InitBudgetInv, NextKeeps, PTL DEF Spec

-----------------------------------------------------------------------------

\* The state of the budget keeps its types, whatever files declare and engines
\* answer (_loadEngine, _createSession).
THEOREM BudgetTypeCorrect == Spec => []BudgetTypeOK
<1>1. BudgetInv => BudgetTypeOK
  BY DEF BudgetInv
<1>. QED  BY <1>1, BudgetInvariant, PTL

\* No admitted turn overruns the context or its budget, for every capacity,
\* every size of history, preface, batch and output (_generate's admission).
THEOREM AdmittedTurnsFit == Spec => []KvFits
<1>1. BudgetInv => KvFits
  <2>. SUFFICES ASSUME BudgetInv PROVE KvFits
    OBVIOUS
  <2>1. CASE turn.running
    BY <2>1, ContextIsNat
       DEF BudgetInv, RunningInv, BudgetTypeOK, KvFits, Handle, Turn
  <2>2. CASE ~turn.running
    BY <2>2 DEF BudgetInv, IdleInv, Settled, KvFits
  <2>. QED  BY <2>1, <2>2
<1>. QED  BY <1>1, BudgetInvariant, PTL

\* What is admitted fits a context that the engine has and the artifact declares
\* (_loadEngine, _generate's admission).
THEOREM ContextAlwaysHolds == Spec => []ContextHolds
<1>1. BudgetTypeOK /\ KvFits => ContextHolds
  BY DEF ContextHolds
<1>. QED  BY <1>1, BudgetTypeCorrect, AdmittedTurnsFit, PTL

\* A budget that is answered counts the whole context, on whichever native
\* handle _budget counts it.
THEOREM BudgetsAreWhole == Spec => []RequiredIsWhole
<1>1. BudgetInv => RequiredIsWhole
  <2>. SUFFICES ASSUME BudgetInv, Between,
                       NEW prefix \in Prefix, NEW last \in MessageTokens,
                       NEW reserve \in Reserve,
                       Required(prefix, last, reserve) # Failed
                PROVE  Required(prefix, last, reserve)
                         = Bos + Committed + prefix + last + reserve
    BY DEF RequiredIsWhole
  <2>1. ~turn.running /\ reserve \in Nat
    BY BudgetAssumption DEF Between
  <2>. QED  BY <2>1, RequiredCounts
<1>. QED  BY <1>1, BudgetInvariant, PTL
-----------------------------------------------------------------------------
(* What the turns report.                                                  *)

\* The benchmark of an open handle: its turns reported everything in its cache
\* but the chunks and the tokens of the turn that is running.
MetricsInv ==
    /\ prefills \in Seq(Nat) /\ decodes \in Seq(Nat)
    /\ prefillTurns \in Nat /\ decodeTurns \in Nat /\ reported \in Nat
    /\ ~turn.running => turn.produced = 0
    /\ handle.open =>
         /\ Len(prefills) \in prefillTurns .. prefillTurns + 2
         /\ ~turn.running => prefillTurns = Len(prefills)
         /\ decodeTurns = Len(decodes)
         /\ handle.kv = Opened(handle.preface).kv + reported
                          + SumFrom(prefills, prefillTurns) + turn.produced

\* The sum of no, one or two turns, however many were before them.
LEMMA SumOfLast ==
  ASSUME NEW turns \in Seq(Nat), NEW first \in Nat,
         Len(turns) \in first .. first + 2
  PROVE  SumFrom(turns, first) =
           IF Len(turns) = first THEN 0
           ELSE IF Len(turns) = first + 1 THEN turns[first + 1]
           ELSE turns[first + 1] + turns[first + 2]
<1>. DEFINE n == Len(turns)
            f == [i \in first .. n |->
                    IF i = first THEN 0
                    ELSE IF i = first + 1 THEN turns[first + 1]
                    ELSE turns[first + 1] + turns[first + 2]]
            sum == CHOOSE s : s = [i \in first .. n |->
                                     IF i = first THEN 0 ELSE s[i - 1] + turns[i]]
<1>1. n \in Nat /\ n \in first .. first + 2
      /\ \A i \in 1 .. n : turns[i] \in Nat
  OBVIOUS
<1>2. f = [i \in first .. n |-> IF i = first THEN 0 ELSE f[i - 1] + turns[i]]
  <2>1. ASSUME NEW i \in first .. n, i # first PROVE f[i] = f[i - 1] + turns[i]
    <3>1. CASE i = first + 1
      <4>1. i - 1 = first /\ first \in first .. n /\ turns[i] \in Nat
        BY <1>1, <3>1
      <4>2. f[i] = turns[i] /\ f[first] = 0
        BY <1>1, <3>1, <4>1
      <4>. QED  BY <4>1, <4>2
    <3>2. CASE i # first + 1
      <4>1. i = first + 2 /\ i - 1 = first + 1 /\ first + 1 \in first .. n
        BY <1>1, <2>1, <3>2
      <4>2. f[i] = turns[first + 1] + turns[i] /\ f[first + 1] = turns[first + 1]
        BY <1>1, <4>1
      <4>. QED  BY <4>1, <4>2
    <3>. QED  BY <3>1, <3>2
  <2>. QED  BY <2>1
<1>3. sum = [i \in first .. n |-> IF i = first THEN 0 ELSE sum[i - 1] + turns[i]]
  BY <1>2
<1>4. SumFrom(turns, first) = sum[n]
  BY DEF SumFrom
<1>. HIDE DEF sum, f
<1>5. first \in first .. n
  BY <1>1
<1>6. sum[first] = 0
  BY <1>3, <1>5
<1>7. ASSUME n > first PROVE sum[first + 1] = turns[first + 1]
  <2>1. first + 1 \in first .. n /\ first + 1 # first /\ first + 1 - 1 = first
        /\ turns[first + 1] \in Nat
    BY <1>1, <1>7
  <2>2. sum[first + 1] = sum[first + 1 - 1] + turns[first + 1]
    BY <1>3, <2>1
  <2>. QED  BY <1>6, <2>1, <2>2
<1>8. ASSUME n = first + 2 PROVE sum[n] = turns[first + 1] + turns[first + 2]
  <2>1. n \in first .. n /\ n # first /\ n - 1 = first + 1 /\ n > first
    BY <1>1, <1>8
  <2>2. sum[n] = sum[n - 1] + turns[n]
    BY <1>3, <2>1
  <2>. QED  BY <1>7, <1>8, <2>1, <2>2
<1>9. n = first \/ n = first + 1 \/ n = first + 2
  BY <1>1
<1>10. n > first <=> n # first
  BY <1>1
<1>. QED  BY <1>4, <1>6, <1>7, <1>8, <1>9, <1>10 DEF n

LEMMA SumIsNat ==
  ASSUME NEW turns \in Seq(Nat), NEW first \in Nat,
         Len(turns) \in first .. first + 2
  PROVE  SumFrom(turns, first) \in Nat
<1>1. \A i \in 1 .. Len(turns) : turns[i] \in Nat
  OBVIOUS
<1>. QED  BY <1>1, SumOfLast

\* One more turn at the end is all there is to report after the others.
LEMMA SumOfAppended ==
  ASSUME NEW turns \in Seq(Nat), NEW count \in Nat
  PROVE  SumFrom(Append(turns, count), Len(turns)) = count
<1>1. Append(turns, count) \in Seq(Nat)
  OBVIOUS
<1>2. PICK all \in Seq(Nat) : all = Append(turns, count)
  BY <1>1
<1>3. PICK n \in Nat : n = Len(turns)
  OBVIOUS
<1>4. Len(all) = n + 1 /\ all[n + 1] = count
  BY <1>2, <1>3
<1>5. SumFrom(all, n) = count
  BY <1>4, SumOfLast
<1>. QED  BY <1>2, <1>3, <1>5

LEMMA NothingUnreported ==
  ASSUME NEW turns \in Seq(Nat)
  PROVE  SumFrom(turns, Len(turns)) = 0
<1>1. Len(turns) \in Nat /\ Len(turns) \in Len(turns) .. Len(turns) + 2
  OBVIOUS
<1>. QED  BY <1>1, SumOfLast

\* The chunks of a prefill are what the message costs.
LEMMA ChunksAreCost ==
  ASSUME NEW before \in Seq(Nat), NEW cost \in Nat \ {0}, Prefilled(before, cost)
  PROVE  /\ prefills' \in Seq(Nat)
         /\ Len(prefills') \in Len(before) .. Len(before) + 2
         /\ SumFrom(prefills', Len(before)) = cost
<1>1. PICK chunk \in 1 .. cost :
        prefills' = before \o (IF chunk = cost THEN <<cost>>
                               ELSE <<chunk, cost - chunk>>)
  BY DEF Prefilled
<1>2. PICK n \in Nat : n = Len(before)
  OBVIOUS
<1>3. CASE chunk = cost
  <2>1. before \o <<cost>> \in Seq(Nat)
    OBVIOUS
  <2>2. PICK all \in Seq(Nat) : all = before \o <<cost>>
    BY <2>1
  <2>3. Len(all) = n + 1 /\ all[n + 1] = cost
    BY <1>2, <2>2
  <2>4. SumFrom(all, n) = cost
    BY <2>3, SumOfLast
  <2>5. prefills' = all
    BY <1>1, <1>3, <2>2
  <2>6. Len(all) \in n .. n + 2
    BY <2>3
  <2>. QED  BY <1>2, <2>4, <2>5, <2>6
<1>4. CASE chunk # cost
  <2>1. PICK rest \in Nat : rest = cost - chunk
    BY <1>4
  <2>2. before \o <<chunk, rest>> \in Seq(Nat) /\ chunk \in Nat
    OBVIOUS
  <2>3. PICK all \in Seq(Nat) : all = before \o <<chunk, rest>>
    BY <2>2
  <2>4. Len(all) = n + 2 /\ all[n + 1] = chunk /\ all[n + 2] = rest
    BY <1>2, <2>3
  <2>5. SumFrom(all, n) = chunk + rest
    <3>1. Len(all) \in n .. n + 2 /\ Len(all) # n /\ Len(all) # n + 1
      BY <2>4
    <3>2. SumFrom(all, n) = all[n + 1] + all[n + 2]
      BY <3>1, SumOfLast
    <3>. QED  BY <2>4, <3>2
  <2>6. prefills' = all
    BY <1>1, <1>4, <2>1, <2>3
  <2>7. Len(all) \in n .. n + 2 /\ chunk + rest = cost
    BY <2>1, <2>2, <2>4
  <2>. QED  BY <1>2, <2>5, <2>6, <2>7
<1>. QED  BY <1>3, <1>4

-----------------------------------------------------------------------------
(* Every action keeps the accounts of the metrics.                         *)

\* A handle that was just opened, with an empty benchmark.
Fresh(p) ==
    /\ prefills' = <<>> /\ decodes' = <<>> /\ reported' = 0
    /\ prefillTurns' = 0 /\ decodeTurns' = 0
    /\ handle' = Opened(p) \/ handle' = Closed

LEMMA FreshMetrics ==
  ASSUME BudgetInv, MetricsInv, NEW p \in Nat, Fresh(p), turn' = turn,
         ~turn.running, prefillOnInit' = prefillOnInit
  PROVE  MetricsInv'
<1>1. <<>> \in Seq(Nat) /\ Len(<<>>) = 0
  OBVIOUS
<1>2. SumFrom(<<>>, 0) = 0
  BY <1>1, NothingUnreported
<1>3. prefills' = <<>> /\ decodes' = <<>> /\ reported' = 0
      /\ prefillTurns' = 0 /\ decodeTurns' = 0
  BY DEF Fresh
<1>4. SumFrom(prefills', prefillTurns') = 0
  BY <1>2, <1>3
<1>5. turn'.produced = 0 /\ ~turn'.running
  BY DEF MetricsInv
<1>6. ASSUME handle'.open
      PROVE  handle'.kv = Opened(handle.preface)'.kv /\ handle'.kv \in Nat
  <2>1. handle' = Opened(p)
    BY <1>6 DEF Fresh, Closed
  <2>. QED
    BY <2>1, BudgetAssumption DEF Opened, BudgetInv, BudgetTypeOK
<1>7. /\ prefills' \in Seq(Nat) /\ decodes' \in Seq(Nat)
      /\ prefillTurns' \in Nat /\ decodeTurns' \in Nat /\ reported' \in Nat
      /\ prefillTurns' = Len(prefills') /\ decodeTurns' = Len(decodes')
      /\ Len(prefills') \in prefillTurns' .. prefillTurns' + 2
  BY <1>1, <1>3
<1>8. ASSUME handle'.open
      PROVE  handle'.kv = Opened(handle.preface)'.kv + reported'
                            + SumFrom(prefills', prefillTurns') + turn'.produced
  BY <1>3, <1>4, <1>5, <1>6, <1>8
<1>. QED
  BY <1>5, <1>7, <1>8 DEF MetricsInv

\* Steps that leave the handle and its benchmark alone.
LEMMA SameMetrics ==
  ASSUME MetricsInv, UNCHANGED <<prefillOnInit, handle, turn, benchmark>>
  PROVE  MetricsInv'
BY DEF MetricsInv, benchmark, Opened

LEMMA ReadyMetrics ==
  ASSUME BudgetInv, MetricsInv, Between, MakeReady,
         UNCHANGED <<prefillOnInit, turn>>
  PROVE  MetricsInv'
<1>1. CASE handle.open
  BY <1>1, SameMetrics DEF MakeReady
<1>2. CASE ~handle.open
  <2>1. Fresh(history) /\ history \in Nat
    BY <1>2 DEF MakeReady, _openSession, Fresh, BudgetInv, BudgetTypeOK
  <2>. QED  BY <2>1, FreshMetrics DEF Between
<1>. QED  BY <1>1, <1>2

LEMMA CreateMetrics ==
  ASSUME BudgetInv, MetricsInv, NEW chat, NEW output, NEW messages \in Prefix,
         _createSession(chat, output, messages)
  PROVE  MetricsInv'
<1>1. maxTokens = 0 /\ turn' = turn /\ prefillOnInit' = prefillOnInit
      /\ _openSession(Opened(messages))
  BY DEF _createSession
<1>2. ~turn.running
  BY <1>1 DEF BudgetInv, SessionInv
<1>3. Fresh(messages) /\ messages \in Nat
  BY <1>1, BudgetAssumption DEF _openSession, Fresh, Prefix
<1>. QED  BY <1>1, <1>2, <1>3, FreshMetrics

LEMMA RebuildFailsMetrics ==
  ASSUME BudgetInv, MetricsInv, NEW prefix, NEW last, RebuildFails(prefix, last)
  PROVE  MetricsInv'
<1>1. ~turn.running /\ turn' = turn /\ prefillOnInit' = prefillOnInit
      /\ _openSession(Closed)
  BY DEF RebuildFails, Between
<1>2. Fresh(0)
  BY <1>1 DEF _openSession, Fresh
<1>. QED  BY <1>1, <1>2, FreshMetrics

\* The benchmark that a turn starts with, and the handle: what it reported is all
\* that is in the cache.
LEMMA GenerateMetrics ==
  ASSUME BudgetInv, MetricsInv,
         NEW prefix \in Prefix, NEW last \in MessageTokens,
         _generate(prefix, last)
  PROVE  MetricsInv'
<1>. DEFINE required == Required(prefix, last, maxTokens)
            fresh == IsBatch(prefix) \/ ~handle.open
<1>1. /\ maxTokens \in Nat /\ ~turn.running /\ required # Failed
      /\ prefillOnInit' = prefillOnInit
  BY ContextIsNat DEF _generate, Between, BudgetInv
<1>2. PICK on, tokens : on = Budgeted(prefix, last).on /\ tokens = Budgeted(prefix, last).tokens
  OBVIOUS
<1>3. Opens(on)
  BY <1>1, <1>2, RequiredCounts
<1>4. Settled(on) /\ tokens \in Nat \ {0}
  BY <1>1, <1>2, <1>3, BudgetedSettled
<1>5. PICK cost \in Nat \ {0} : cost = Cost(on, tokens)
  BY <1>4, InputIsCost
<1>6. /\ Sent(on, tokens, required)
      /\ Prefilled(IF fresh THEN <<>> ELSE prefills, cost)
      /\ IF fresh
         THEN decodes' = <<>> /\ reported' = 0 /\ prefillTurns' = 0 /\ decodeTurns' = 0
         ELSE UNCHANGED <<decodes, reported, prefillTurns, decodeTurns>>
  BY <1>2, <1>5 DEF _generate, Budgeted
<1>7. on \in Handle
  BY <1>4 DEF Settled
<1>8. /\ handle'.preface = on.preface /\ handle'.kv = on.kv + cost
      /\ turn'.running /\ turn'.produced = 0
  BY <1>5, <1>6, <1>7 DEF Sent, Handle
<1>9. \E before \in Seq(Nat) :
        /\ Prefilled(before, cost) /\ prefillTurns' = Len(before)
        /\ decodes' \in Seq(Nat) /\ decodeTurns' = Len(decodes') /\ reported' \in Nat
        /\ on.kv = Opened(on.preface).kv + reported'
  <2>1. CASE fresh
    <3>1. on = Opened(on.preface)
      BY <1>2, <2>1 DEF Budgeted, Ready, Opened
    <3>2. <<>> \in Seq(Nat) /\ Len(<<>>) = 0
      OBVIOUS
    <3>3. on.kv \in Nat
      BY <1>7 DEF Handle
    <3>4. Prefilled(<<>>, cost) /\ prefillTurns' = 0 /\ decodes' = <<>>
          /\ decodeTurns' = 0 /\ reported' = 0
      BY <1>6, <2>1
    <3>5. on.kv = Opened(on.preface).kv + reported'
      BY <3>1, <3>3, <3>4
    <3>. QED  BY <3>2, <3>4, <3>5
  <2>2. CASE ~fresh
    <3>1. on = handle /\ handle.open
      BY <1>2, <2>2 DEF Budgeted, Ready
    <3>2. prefills \in Seq(Nat) /\ decodes \in Seq(Nat) /\ reported \in Nat
          /\ prefillTurns = Len(prefills) /\ decodeTurns = Len(decodes)
          /\ turn.produced = 0
          /\ handle.kv = Opened(handle.preface).kv + reported
                           + SumFrom(prefills, prefillTurns) + turn.produced
      BY <1>1, <3>1 DEF MetricsInv
    <3>3. SumFrom(prefills, prefillTurns) = 0
      BY <3>2, NothingUnreported
    <3>4. Opened(handle.preface).kv \in Nat
      BY BudgetAssumption DEF Opened, BudgetInv, BudgetTypeOK, Handle
    <3>5. Prefilled(prefills, cost)
          /\ UNCHANGED <<decodes, reported, prefillTurns, decodeTurns>>
      BY <1>6, <2>2
    <3>6. on.kv = Opened(on.preface).kv + reported'
      BY <3>1, <3>2, <3>3, <3>4, <3>5
    <3>. QED  BY <3>2, <3>5, <3>6
  <2>. QED  BY <2>1, <2>2
<1>10. PICK before \in Seq(Nat) :
        /\ Prefilled(before, cost) /\ prefillTurns' = Len(before)
        /\ decodes' \in Seq(Nat) /\ decodeTurns' = Len(decodes') /\ reported' \in Nat
        /\ on.kv = Opened(on.preface).kv + reported'
  BY <1>9
<1>11. /\ prefills' \in Seq(Nat)
       /\ Len(prefills') \in Len(before) .. Len(before) + 2
       /\ SumFrom(prefills', Len(before)) = cost
  BY <1>10, ChunksAreCost
<1>12. SumFrom(prefills', prefillTurns') = cost /\ prefillTurns' \in Nat
       /\ Len(prefills') \in prefillTurns' .. prefillTurns' + 2
       /\ decodeTurns' \in Nat
  BY <1>10, <1>11
<1>13. Opened(handle.preface)'.kv = Opened(on.preface).kv
       /\ Opened(on.preface).kv \in Nat
  BY <1>1, <1>7, <1>8, BudgetAssumption DEF Opened, BudgetInv, BudgetTypeOK, Handle
<1>14. handle'.kv = Opened(handle.preface)'.kv + reported'
                      + SumFrom(prefills', prefillTurns') + turn'.produced
  BY <1>8, <1>10, <1>12, <1>13
<1>. QED  BY <1>8, <1>10, <1>11, <1>12, <1>14 DEF MetricsInv

LEMMA DecodeMetrics ==
  ASSUME BudgetInv, MetricsInv, Decode
  PROVE  MetricsInv'
<1>1. /\ turn.running /\ UNCHANGED <<prefillOnInit, benchmark>>
      /\ handle' = [handle EXCEPT !.kv = @ + 1]
      /\ turn' = [turn EXCEPT !.produced = @ + 1]
  BY DEF Decode
<1>2. handle \in Handle /\ turn \in Turn
  BY DEF BudgetInv, BudgetTypeOK
<1>3. /\ handle'.open = handle.open /\ handle'.preface = handle.preface
      /\ handle'.kv = handle.kv + 1 /\ turn'.produced = turn.produced + 1
      /\ turn'.running
  BY <1>1, <1>2 DEF Handle, Turn
<1>4. /\ Opened(handle.preface)'.kv = Opened(handle.preface).kv
      /\ Opened(handle.preface).kv \in Nat /\ turn.produced \in Nat
  BY <1>1, <1>2, <1>3, BudgetAssumption
     DEF Opened, Handle, Turn, BudgetInv, BudgetTypeOK
<1>5. ASSUME handle.open PROVE SumFrom(prefills, prefillTurns) \in Nat
  BY <1>5, SumIsNat DEF MetricsInv
<1>6. UNCHANGED <<prefills, decodes, prefillTurns, decodeTurns, reported>>
  BY <1>1 DEF benchmark
<1>7. ASSUME handle.open
      PROVE  handle'.kv = Opened(handle.preface)'.kv + reported'
                            + SumFrom(prefills', prefillTurns') + turn'.produced
  <2>1. handle.kv = Opened(handle.preface).kv + reported
                      + SumFrom(prefills, prefillTurns) + turn.produced
        /\ reported \in Nat
    BY <1>7 DEF MetricsInv
  <2>2. SumFrom(prefills', prefillTurns') = SumFrom(prefills, prefillTurns)
    BY <1>6
  <2>. QED  BY <1>3, <1>4, <1>5, <1>6, <1>7, <2>1, <2>2
<1>. QED  BY <1>3, <1>6, <1>7 DEF MetricsInv

\* _metrics reports what is left of the benchmark.
LEMMA CompleteMetrics ==
  ASSUME BudgetInv, MetricsInv, Complete
  PROVE  MetricsInv'
<1>1. /\ turn.running /\ turn' = Idle
      /\ decodes' = IF turn.produced > 0 THEN Append(decodes, turn.produced) ELSE decodes
      /\ UNCHANGED <<prefillOnInit, prefills>>
      /\ reported' = reported + SumFrom(prefills, prefillTurns)
                              + SumFrom(decodes', decodeTurns)
      /\ prefillTurns' = Len(prefills) /\ decodeTurns' = Len(decodes')
  BY DEF Complete, _metrics
<1>2. handle \in Handle /\ turn \in Turn /\ handle.open
  BY <1>1 DEF BudgetInv, BudgetTypeOK, RunningInv
<1>3. handle'.open /\ handle'.preface = handle.preface /\ handle'.kv = handle.kv
  BY <1>2 DEF Complete, Handle
<1>4. /\ prefills \in Seq(Nat) /\ decodes \in Seq(Nat) /\ decodeTurns = Len(decodes)
      /\ prefillTurns \in Nat /\ reported \in Nat
      /\ Len(prefills) \in prefillTurns .. prefillTurns + 2
      /\ handle.kv = Opened(handle.preface).kv + reported
                       + SumFrom(prefills, prefillTurns) + turn.produced
  BY <1>2 DEF MetricsInv
<1>5. turn.produced \in Nat
  BY <1>2 DEF Turn
<1>6. decodes' \in Seq(Nat) /\ SumFrom(decodes', decodeTurns) = turn.produced
  <2>1. CASE turn.produced > 0
    BY <1>1, <1>4, <1>5, <2>1, SumOfAppended
  <2>2. CASE turn.produced = 0
    BY <1>1, <1>4, <2>2, NothingUnreported
  <2>. QED  BY <1>5, <2>1, <2>2
<1>7. SumFrom(prefills, prefillTurns) \in Nat
  BY <1>4, SumIsNat
<1>8. Opened(handle.preface)'.kv = Opened(handle.preface).kv
      /\ Opened(handle.preface).kv \in Nat
  BY <1>1, <1>2, <1>3, BudgetAssumption DEF Opened, Handle, BudgetInv, BudgetTypeOK
<1>9. prefills' = prefills /\ SumFrom(prefills', prefillTurns') = 0
  BY <1>1, <1>4, NothingUnreported
<1>10. turn'.produced = 0 /\ ~turn'.running
  BY <1>1 DEF Idle
<1>11. reported' \in Nat
       /\ handle'.kv = Opened(handle.preface)'.kv + reported'
                         + SumFrom(prefills', prefillTurns') + turn'.produced
  <2>1. PICK pending \in Nat : pending = SumFrom(prefills, prefillTurns)
    BY <1>7
  <2>2. PICK base \in Nat : base = Opened(handle.preface).kv
    BY <1>8
  <2>3. reported' = reported + pending + turn.produced
    BY <1>1, <1>6, <2>1
  <2>4. handle.kv = base + reported + pending + turn.produced
    BY <1>4, <2>1, <2>2
  <2>5. reported' \in Nat /\ handle'.kv = base + reported'
    BY <1>3, <1>4, <1>5, <2>3, <2>4
  <2>. QED  BY <1>8, <1>9, <1>10, <2>2, <2>5
<1>12. Len(prefills') \in prefillTurns' .. prefillTurns' + 2
       /\ prefillTurns' = Len(prefills') /\ prefillTurns' \in Nat /\ decodeTurns' \in Nat
  BY <1>1, <1>4, <1>6, <1>9
<1>. QED  BY <1>1, <1>4, <1>6, <1>9, <1>10, <1>11, <1>12 DEF MetricsInv

LEMMA DiscardMetrics ==
  ASSUME MetricsInv, Discard
  PROVE  MetricsInv'
<1>1. ~handle'.open /\ turn'.produced = 0 /\ UNCHANGED benchmark
  BY DEF Discard, Closed, Idle
<1>. QED  BY <1>1 DEF MetricsInv, benchmark

LEMMA InitMetrics == Init => MetricsInv
<1>. SUFFICES ASSUME Init PROVE MetricsInv
  OBVIOUS
<1>1. ~handle.open /\ turn.produced = 0 /\ prefills = <<>> /\ decodes = <<>>
      /\ prefillTurns = 0 /\ decodeTurns = 0 /\ reported = 0
  BY DEF Init, Closed, Idle
<1>2. <<>> \in Seq(Nat)
  OBVIOUS
<1>. QED  BY <1>1, <1>2 DEF MetricsInv

LEMMA NextMetrics == BudgetInv /\ MetricsInv /\ [Next]_vars => MetricsInv'
<1>. SUFFICES ASSUME BudgetInv, MetricsInv, [Next]_vars PROVE MetricsInv'
  OBVIOUS
<1>1. CASE \E artifact \in Artifact, requested \in Requested \union {Unset} :
             \E actual \in 0 .. artifact.maximum + 1 :
               _loadEngine(artifact, requested, actual)
  BY <1>1, SameMetrics DEF _loadEngine
<1>2. CASE \E chat \in BOOLEAN, output \in OutputTokens, messages \in Prefix :
             _createSession(chat, output, messages)
  BY <1>2, CreateMetrics
<1>3. ASSUME NEW prefix \in Prefix, budget(prefix) PROVE MetricsInv'
  BY <1>3, SameMetrics, ReadyMetrics DEF budget
<1>4. ASSUME NEW prefix \in Prefix, NEW last \in MessageTokens,
             GenerateRefused(prefix, last)
      PROVE  MetricsInv'
  BY <1>4, ReadyMetrics DEF GenerateRefused
<1>5. ASSUME NEW prefix \in Prefix, NEW last \in MessageTokens,
             RebuildFails(prefix, last)
      PROVE  MetricsInv'
  BY <1>5, RebuildFailsMetrics
<1>6. ASSUME NEW prefix \in Prefix, NEW last \in MessageTokens,
             _generate(prefix, last)
      PROVE  MetricsInv'
  BY <1>6, GenerateMetrics
<1>7. CASE Decode \/ Complete \/ Discard
  BY <1>7, DecodeMetrics, CompleteMetrics, DiscardMetrics
<1>8. CASE UNCHANGED vars
  BY <1>8, SameMetrics DEF vars
<1>. QED  BY <1>1, <1>2, <1>3, <1>4, <1>5, <1>6, <1>7, <1>8 DEF Next

\* What the turns of a handle report adds up to its context, for every size of
\* message and answer and every way the runtime splits a prefill (_metrics).
THEOREM MetricsReportAll == Spec => []MetricsAddUp
<1>1. MetricsInv /\ BudgetInv => MetricsAddUp
  <2>. SUFFICES ASSUME MetricsInv, BudgetInv, Between, handle.open
                PROVE  handle.kv = Opened(handle.preface).kv + reported
    BY DEF MetricsAddUp
  <2>1. /\ prefills \in Seq(Nat) /\ reported \in Nat /\ turn.produced = 0
        /\ prefillTurns = Len(prefills)
        /\ handle.kv = Opened(handle.preface).kv + reported
                         + SumFrom(prefills, prefillTurns) + turn.produced
    BY DEF MetricsInv, Between
  <2>2. SumFrom(prefills, prefillTurns) = 0
    BY <2>1, NothingUnreported
  <2>3. Opened(handle.preface).kv \in Nat
    BY BudgetAssumption DEF Opened, BudgetInv, BudgetTypeOK, Handle
  <2>. QED  BY <2>1, <2>2, <2>3
<1>. QED  BY <1>1, BudgetInvariant, InitMetrics, NextMetrics, PTL DEF Spec
=============================================================================
