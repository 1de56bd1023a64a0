--------------------------- MODULE ClientPortProofs ---------------------------
(***************************************************************************)
(* Proofs about the main isolate's backend, for any number of streams,     *)
(* requests and texts.  First what sequences of messages are asked: what   *)
(* is in them, what is behind what, how often something occurs; then the   *)
(* inductive invariant, and that every action keeps it.                    *)
(***************************************************************************)
EXTENDS ClientPort, FiniteSetTheorems, TLAPS

\* m is in s.
In(s, m) == \E i \in 1 .. Len(s) : s[i] = m

\* Behind a member of S, s has none of T.
Behind(s, S, T) ==
    \A i, j \in 1 .. Len(s) : i < j /\ s[i] \in S => s[j] \notin T

Places(s, m) == {i \in 1 .. Len(s) : s[i] = m}
Count(s, m) == Cardinality(Places(s, m))

\* t is s with x behind it.
Added(s, x, t) ==
    /\ \A m : In(t, m) <=> In(s, m) \/ m = x
    /\ \A S, T : Behind(t, S, T) <=>
                   Behind(s, S, T) /\ (x \in T => \A m \in S : ~In(s, m))
    /\ \A m : Count(t, m) = Count(s, m) + (IF m = x THEN 1 ELSE 0)

\* t is s without its first.
Taken(s, t) ==
    /\ \A m : In(s, m) <=> m = Head(s) \/ In(t, m)
    /\ \A S, T : Behind(s, S, T) <=>
                   Behind(t, S, T) /\ (Head(s) \in S => \A m \in T : ~In(t, m))
    /\ \A m : Count(s, m) = Count(t, m) + (IF m = Head(s) THEN 1 ELSE 0)

LEMMA InEmpty == \A m : ~In(<<>>, m)
  BY DEF In

\* Behind says the same of a sequence with one element more at its end.
LEMMA Appended ==
  ASSUME NEW X, NEW s \in Seq(X), NEW x \in X
  PROVE  /\ Append(s, x) \in Seq(X)
         /\ \A m : In(Append(s, x), m) <=> In(s, m) \/ m = x
         /\ \A S, T : Behind(Append(s, x), S, T) <=>
                        /\ Behind(s, S, T)
                        /\ x \in T => \A m \in S : ~In(s, m)
<1>. DEFINE t == Append(s, x)
<1>1. /\ Len(s) \in Nat /\ Len(t) = Len(s) + 1 /\ t[Len(s) + 1] = x
      /\ \A i \in 1 .. Len(s) : t[i] = s[i]
  OBVIOUS
<1>2. ASSUME NEW m PROVE In(t, m) <=> In(s, m) \/ m = x
  <2>1. CASE In(s, m)
    BY <1>1, <2>1 DEF In
  <2>2. CASE m = x
    BY <1>1, <2>2 DEF In
  <2>3. ASSUME In(t, m), m # x PROVE In(s, m)
    BY <1>1, <2>3 DEF In
  <2>. QED  BY <2>1, <2>2, <2>3
<1>3. ASSUME NEW S, NEW T
      PROVE  Behind(t, S, T) <=> Behind(s, S, T)
                                 /\ (x \in T => \A m \in S : ~In(s, m))
  <2>1. Behind(t, S, T) => Behind(s, S, T)
    BY <1>1 DEF Behind
  <2>2. ASSUME Behind(t, S, T), x \in T, NEW m \in S, In(s, m) PROVE FALSE
    <3>1. PICK i \in 1 .. Len(s) : s[i] = m
      BY <2>2 DEF In
    <3>2. i < Len(s) + 1 /\ i \in 1 .. Len(t) /\ Len(s) + 1 \in 1 .. Len(t)
      BY <1>1
    <3>. QED  BY <1>1, <2>2, <3>1, <3>2 DEF Behind
  <2>3. ASSUME Behind(s, S, T), x \in T => \A m \in S : ~In(s, m),
               NEW i \in 1 .. Len(t), NEW j \in 1 .. Len(t), i < j, t[i] \in S
        PROVE  t[j] \notin T
    <3>1. i \in 1 .. Len(s) /\ t[i] = s[i]
      BY <1>1, <2>3
    <3>2. CASE j \in 1 .. Len(s)
      BY <1>1, <2>3, <3>1, <3>2 DEF Behind
    <3>3. CASE j = Len(s) + 1
      BY <1>1, <2>3, <3>1, <3>3 DEF In
    <3>. QED  BY <1>1, <3>2, <3>3
  <2>. QED  BY <2>1, <2>2, <2>3 DEF Behind
<1>. QED  BY <1>2, <1>3

\* ... and of one without its first.
LEMMA Consumed ==
  ASSUME NEW X, NEW s \in Seq(X), s # <<>>
  PROVE  /\ Tail(s) \in Seq(X) /\ Head(s) \in X
         /\ \A m : In(s, m) <=> m = Head(s) \/ In(Tail(s), m)
         /\ \A S, T : Behind(s, S, T) <=>
                        /\ Behind(Tail(s), S, T)
                        /\ Head(s) \in S => \A m \in T : ~In(Tail(s), m)
<1>. DEFINE t == Tail(s)
<1>1. /\ Len(t) \in Nat /\ Len(s) = Len(t) + 1 /\ s[1] = Head(s)
      /\ \A i \in 1 .. Len(t) : t[i] = s[i + 1]
      /\ t \in Seq(X) /\ Head(s) \in X
  OBVIOUS
<1>2. ASSUME NEW m PROVE In(s, m) <=> m = Head(s) \/ In(t, m)
  <2>1. CASE m = Head(s)
    BY <1>1, <2>1 DEF In
  <2>2. ASSUME In(t, m) PROVE In(s, m)
    <3>1. PICK i \in 1 .. Len(t) : t[i] = m
      BY <2>2 DEF In
    <3>2. i + 1 \in 1 .. Len(s) /\ s[i + 1] = m
      BY <1>1, <3>1
    <3>. QED  BY <3>2 DEF In
  <2>3. ASSUME In(s, m), m # Head(s) PROVE In(t, m)
    <3>1. PICK i \in 1 .. Len(s) : s[i] = m
      BY <2>3 DEF In
    <3>2. i - 1 \in 1 .. Len(t) /\ (i - 1) + 1 = i
      BY <1>1, <2>3, <3>1
    <3>3. t[i - 1] = m
      BY <1>1, <3>1, <3>2
    <3>. QED  BY <3>2, <3>3 DEF In
  <2>. QED  BY <2>1, <2>2, <2>3
<1>3. ASSUME NEW S, NEW T
      PROVE  Behind(s, S, T) <=> Behind(t, S, T)
                                 /\ (Head(s) \in S => \A m \in T : ~In(t, m))
  <2>1. ASSUME Behind(s, S, T), NEW i \in 1 .. Len(t), NEW j \in 1 .. Len(t),
               i < j, t[i] \in S
        PROVE  t[j] \notin T
    <3>1. /\ i + 1 \in 1 .. Len(s) /\ j + 1 \in 1 .. Len(s) /\ i + 1 < j + 1
          /\ s[i + 1] = t[i] /\ s[j + 1] = t[j]
      BY <1>1, <2>1
    <3>. QED  BY <2>1, <3>1 DEF Behind
  <2>2. ASSUME Behind(s, S, T), Head(s) \in S, NEW m \in T, In(t, m) PROVE FALSE
    <3>1. PICK j \in 1 .. Len(t) : t[j] = m
      BY <2>2 DEF In
    <3>2. /\ 1 \in 1 .. Len(s) /\ j + 1 \in 1 .. Len(s) /\ 1 < j + 1
          /\ s[j + 1] = m /\ s[1] \in S
      BY <1>1, <2>2, <3>1
    <3>. QED  BY <2>2, <3>2 DEF Behind
  <2>3. ASSUME Behind(t, S, T), Head(s) \in S => \A m \in T : ~In(t, m),
               NEW i \in 1 .. Len(s), NEW j \in 1 .. Len(s), i < j, s[i] \in S
        PROVE  s[j] \notin T
    <3>1. j - 1 \in 1 .. Len(t) /\ t[j - 1] = s[j]
      BY <1>1, <2>3
    <3>2. CASE i = 1
      BY <1>1, <2>3, <3>1, <3>2 DEF In
    <3>3. CASE i # 1
      <4>1. i - 1 \in 1 .. Len(t) /\ t[i - 1] = s[i] /\ i - 1 < j - 1
        BY <1>1, <2>3, <3>3
      <4>. QED  BY <2>3, <3>1, <4>1 DEF Behind
    <3>. QED  BY <3>2, <3>3
  <2>. QED  BY <2>1, <2>2, <2>3 DEF Behind
<1>. QED  BY <1>1, <1>2, <1>3

LEMMA PlacesFinite ==
  ASSUME NEW X, NEW s \in Seq(X), NEW m
  PROVE  IsFiniteSet(Places(s, m)) /\ Count(s, m) \in Nat
<1>1. IsFiniteSet(1 .. Len(s)) /\ Places(s, m) \in SUBSET (1 .. Len(s))
  BY FS_Interval, Len(s) \in Int, 1 \in Int DEF Places
<1>2. IsFiniteSet(Places(s, m))
  BY <1>1, FS_Subset
<1>. QED  BY <1>2, FS_CardinalityType DEF Count

LEMMA CountEmpty == \A m : Count(<<>>, m) = 0
<1>1. \A m : Places(<<>>, m) = {}
  BY DEF Places
<1>. QED  BY <1>1, FS_EmptySet DEF Count

\* Appending and consuming change a count by what they add and take.
LEMMA CountAppended ==
  ASSUME NEW X, NEW s \in Seq(X), NEW x \in X, NEW m
  PROVE  Count(Append(s, x), m) = Count(s, m) + (IF x = m THEN 1 ELSE 0)
<1>. DEFINE t == Append(s, x)
<1>1. /\ Len(s) \in Nat /\ Len(t) = Len(s) + 1 /\ t[Len(s) + 1] = x
      /\ \A i \in 1 .. Len(s) : t[i] = s[i]
  OBVIOUS
<1>2. IsFiniteSet(Places(s, m)) /\ Count(s, m) \in Nat
  BY PlacesFinite
<1>3. CASE x = m
  <2>1. Places(t, m) = Places(s, m) \union {Len(s) + 1}
    BY <1>1, <1>3 DEF Places
  <2>2. Len(s) + 1 \notin Places(s, m)
    BY <1>1 DEF Places
  <2>3. Cardinality(Places(t, m)) = Cardinality(Places(s, m)) + 1
    BY <1>2, <2>1, <2>2, FS_AddElement
  <2>. QED  BY <1>3, <2>3 DEF Count
<1>4. CASE x # m
  <2>1. Places(t, m) = Places(s, m)
    BY <1>1, <1>4 DEF Places
  <2>. QED  BY <1>2, <1>4, <2>1 DEF Count
<1>. QED  BY <1>3, <1>4

LEMMA CountConsumed ==
  ASSUME NEW X, NEW s \in Seq(X), s # <<>>, NEW m
  PROVE  Count(s, m) = Count(Tail(s), m) + (IF Head(s) = m THEN 1 ELSE 0)
<1>. DEFINE t == Tail(s)
            rest == Places(s, m) \ {1}
            f == [i \in Places(t, m) |-> i + 1]
<1>1. /\ Len(t) \in Nat /\ Len(s) = Len(t) + 1 /\ s[1] = Head(s)
      /\ \A i \in 1 .. Len(t) : t[i] = s[i + 1]
      /\ t \in Seq(X)
  OBVIOUS
<1>2. IsFiniteSet(Places(t, m)) /\ Count(t, m) \in Nat
  BY <1>1, PlacesFinite
<1>3. IsFiniteSet(Places(s, m)) /\ Count(s, m) \in Nat
  BY PlacesFinite
<1>4. f \in Bijection(Places(t, m), rest)
  <2>1. f \in [Places(t, m) -> rest]
    BY <1>1 DEF Places
  <2>2. \A i, j \in Places(t, m) : f[i] = f[j] => i = j
    BY <1>1 DEF Places
  <2>3. ASSUME NEW i \in rest PROVE \E j \in Places(t, m) : f[j] = i
    <3>1. i - 1 \in Places(t, m) /\ (i - 1) + 1 = i
      BY <1>1 DEF Places
    <3>. QED  BY <3>1
  <2>. QED  BY <2>1, <2>2, <2>3 DEF Bijection, Injection, Surjection, IsInjective
<1>5. Cardinality(rest) = Cardinality(Places(t, m))
  BY <1>2, <1>4, FS_Bijection DEF ExistsBijection
<1>6. Cardinality(rest) = IF 1 \in Places(s, m) THEN Cardinality(Places(s, m)) - 1
                          ELSE Cardinality(Places(s, m))
  BY <1>3, FS_RemoveElement
<1>7. 1 \in Places(s, m) <=> Head(s) = m
  BY <1>1 DEF Places
<1>. QED  BY <1>2, <1>3, <1>5, <1>6, <1>7 DEF Count

LEMMA CountNone ==
  ASSUME NEW X, NEW s \in Seq(X), NEW m
  PROVE  Count(s, m) = 0 <=> ~In(s, m)
<1>1. Places(s, m) = {} <=> ~In(s, m)
  BY DEF Places, In
<1>. QED  BY <1>1, PlacesFinite, FS_EmptySet DEF Count

LEMMA AppendAdds ==
  ASSUME NEW X, NEW s \in Seq(X), NEW x \in X
  PROVE  Append(s, x) \in Seq(X) /\ Added(s, x, Append(s, x))
BY Appended, CountAppended DEF Added

LEMMA TailTakes ==
  ASSUME NEW X, NEW s \in Seq(X), s # <<>>
  PROVE  Tail(s) \in Seq(X) /\ Head(s) \in X /\ Taken(s, Tail(s))
BY Consumed, CountConsumed DEF Taken

-----------------------------------------------------------------------------
(* The inductive invariant.                                                *)

Commands == [do : {"request"}, id : Request] \union [do : {"close"}, id : {Close}]
            \union [do : {"generate", "credit", "cancelStream"}, id : Stream]

Messages == [do : {"ready", "notReady"}, id : {Close}]
            \union [do : {"reply"}, id : Request \union {Close}]
            \union [do : {"token", "ended"}, id : Stream]

\* Commands that are not sent any more once the backend closes.
Asking == {m \in Commands : m.do \in {"request", "generate", "close"}}

PortTypeOK ==
    /\ ClientTypeOK
    /\ inbox \in Seq(Commands) /\ outbox \in Seq(Messages)
    /\ worker \in {"starting", "up", "gone"}
    /\ Running \subseteq Stream /\ IsFiniteSet(Running)
    /\ running \in [Running -> [credit : BOOLEAN, cancelRequested : BOOLEAN,
                                final : BOOLEAN]]
    /\ sent \in [Stream -> 0 .. MaxTokens]

\* How the backend and the worker live and end.
Lives ==
    /\ ready # "ok" => /\ _pending = {} /\ _streams = {} /\ inbox = <<>>
                       /\ Running = {} /\ ~_closing
                       /\ \A k \in Stream : ~consumer[k].listened
    /\ _closed => worker = "gone" /\ ~portsOpen
    /\ ~portsOpen => /\ _closed \/ ready = "failed"
                     /\ _pending = {} /\ _streams = {}
    /\ _closing => Close \in _pending \/ settled[Close] # "no"
    /\ ready = "failed" => ~portsOpen
    /\ worker # "up" => Running = {}

CloseCommand == Command("close", Close)
CloseReply   == Message("reply", Close)

\* Nothing is asked behind a close, and its reply is the worker's last word.
CloseIsLast ==
    /\ In(inbox, CloseCommand) => _closing
    /\ In(outbox, CloseReply) => /\ _closing /\ worker = "gone"
                                 /\ \A m \in Asking : ~In(inbox, m)
    /\ Behind(inbox, {CloseCommand}, Asking)
    /\ Behind(outbox, {CloseReply}, Messages)

\* The worker died: what is not in outbox will not come, and no reply to close
\* will say so.
Lost == worker = "gone" /\ ~In(outbox, CloseReply)

Generate(k) == Command("generate", k)
Ended(k)    == Message("ended", k)
Token(k)    == Message("token", k)

\* What the backend waits for is on its way, or lost: the reply to a request,
\* and the end of a stream.
RepliesCome ==
    \A r \in Request : r \in _pending =>
        \/ In(inbox, Command("request", r))
        \/ In(outbox, Message("reply", r))
        \/ Lost

EndsCome ==
    \A k \in _streams : \/ In(inbox, Generate(k))
                        \/ k \in Running
                        \/ In(outbox, Ended(k))
                        \/ Lost

\* A stream is registered from the listen to its end.
RegisteredFor(k) ==
    LET c == consumer[k]
    IN  /\ c.listened => k \in _streams \/ c.done
        /\ k \in _streams => c.listened /\ ~c.done
        /\ c.finished = c.done

Registered == \A k \in Stream : RegisteredFor(k)

\* The worker is done with a stream: nothing will be generated for it.
Over(k) == k \notin Running /\ ~In(inbox, Generate(k))

\* A generation begins once, ends once, and says nothing behind its end.
OnceFor(k) ==
    LET c == consumer[k]
    IN  /\ ~c.listened => /\ Over(k) /\ c = NewConsumer /\ sent[k] = 0
                          /\ ~In(outbox, Token(k)) /\ ~In(outbox, Ended(k))
        /\ In(inbox, Generate(k)) => k \notin Running /\ ~In(outbox, Ended(k))
        /\ Behind(inbox, {Generate(k)}, {Generate(k)})
        /\ k \in Running => ~In(outbox, Ended(k))
        /\ Behind(outbox, {Ended(k)}, {Token(k)})
        /\ c.done /\ worker # "gone" => Over(k)
        /\ c.cancelled /\ ~c.cancelWaits /\ worker # "gone" => c.done

Once == \A k \in Stream : OnceFor(k)

\* The texts that reached a consumer: heard, or buffered by its controller.
Reached(c) == c.tokens + Count(c.buffer, "token")

\* A consumer whose worker sent n texts: nothing is behind a terminal event, and
\* the worker's is behind all n.
Orderly(c, n) ==
    /\ Behind(c.buffer, {"ended", "failed"}, EventKind)
    /\ c.cancelled => c.buffer = <<>> /\ c.end = "no"
    /\ In(c.buffer, "ended") \/ In(c.buffer, "failed") => c.done
    /\ c.end # "no" => c.done /\ c.buffer = <<>>
    /\ Reached(c) <= n
    /\ In(c.buffer, "ended") \/ c.end = "ended" => Reached(c) = n

\* What reached a consumer is what the worker sent, less what is in the port.
TextsFor(k) ==
    LET c == consumer[k]
    IN  /\ Orderly(c, sent[k])
        /\ k \in _streams /\ ~c.cancelled =>
              Reached(c) + Count(outbox, Token(k)) = sent[k]

Texts == \A k \in Stream : TextsFor(k)

\* NeverStarved, for the streams that are not over.
FedFor(k) ==
    k \in Running /\ portsOpen /\ ~consumer[k].cancelled /\ ~Busy(consumer[k]) =>
        \/ running[k].credit
        \/ In(inbox, Command("credit", k))
        \/ In(outbox, Token(k))

Fed == \A k \in Stream : FedFor(k)

PortInv ==
    /\ PortTypeOK /\ Lives /\ CloseIsLast /\ RepliesCome /\ EndsCome
    /\ Registered /\ Once /\ Texts /\ Fed

-----------------------------------------------------------------------------
(* Messages.                                                               *)

LEMMA MessagesAre ==
  /\ CloseCommand \in Commands /\ CloseReply \in Messages
  /\ \A r \in Request : /\ Command("request", r) \in Commands
                        /\ Message("reply", r) \in Messages
  /\ \A k \in Stream : /\ Generate(k) \in Commands
                       /\ Command("credit", k) \in Commands
                       /\ Command("cancelStream", k) \in Commands
                       /\ Token(k) \in Messages /\ Ended(k) \in Messages
BY
DEF Message, Command, Messages, Commands, CloseCommand, CloseReply, Generate,
    Token, Ended

\* A command, and a message, by its kind and its stream or request.
LEMMA CommandIs ==
  ASSUME NEW x \in Commands
  PROVE  /\ \A k \in Stream :
              /\ x = Generate(k) <=> (x.do = "generate" /\ x.id = k)
              /\ x = Command("credit", k) <=> (x.do = "credit" /\ x.id = k)
         /\ \A r \in Request :
              x = Command("request", r) <=> (x.do = "request" /\ x.id = r)
         /\ x = CloseCommand <=> x.do = "close"
         /\ x \in Asking <=> x.do \in {"request", "generate", "close"}
         /\ x.do = "request" => x.id \in Request
         /\ x.do \in {"generate", "credit", "cancelStream"} => x.id \in Stream
BY DEF Command, Commands, CloseCommand, Generate, Asking

LEMMA MessageIs ==
  ASSUME NEW x \in Messages
  PROVE  /\ \A k \in Stream :
              /\ x = Ended(k) <=> (x.do = "ended" /\ x.id = k)
              /\ x = Token(k) <=> (x.do = "token" /\ x.id = k)
         /\ \A r \in Request :
              x = Message("reply", r) <=> (x.do = "reply" /\ x.id = r)
         /\ x = CloseReply <=> (x.do = "reply" /\ x.id = Close)
         /\ x.do = "reply" => x.id \in Request \union {Close}
         /\ x.do \in {"token", "ended"} => x.id \in Stream
BY DEF Message, Messages, CloseReply, Ended, Token

\* t has the commands of s, and x.
MoreCommands(t, s, x) ==
    /\ \A k \in Stream :
         /\ In(t, Generate(k)) <=>
              In(s, Generate(k)) \/ (x.do = "generate" /\ x.id = k)
         /\ In(t, Command("credit", k)) <=>
              In(s, Command("credit", k)) \/ (x.do = "credit" /\ x.id = k)
    /\ \A r \in Request :
         In(t, Command("request", r)) <=>
           In(s, Command("request", r)) \/ (x.do = "request" /\ x.id = r)
    /\ In(t, CloseCommand) <=> In(s, CloseCommand) \/ x.do = "close"
    /\ \A m \in Asking : In(t, m) <=> In(s, m) \/ m = x

\* t has the messages of s, and x.
MoreMessages(t, s, x) ==
    /\ \A k \in Stream :
         /\ In(t, Ended(k)) <=>
              In(s, Ended(k)) \/ (x.do = "ended" /\ x.id = k)
         /\ In(t, Token(k)) <=>
              In(s, Token(k)) \/ (x.do = "token" /\ x.id = k)
         /\ x.do = "token" /\ x.id = k => Count(t, Token(k)) = Count(s, Token(k)) + 1
         /\ x.do # "token" \/ x.id # k => Count(t, Token(k)) = Count(s, Token(k))
         /\ Count(s, Token(k)) \in Nat
         /\ Count(s, Token(k)) = 0 <=> ~In(s, Token(k))
    /\ \A r \in Request :
         In(t, Message("reply", r)) <=>
           In(s, Message("reply", r)) \/ (x.do = "reply" /\ x.id = r)
    /\ In(t, CloseReply) <=>
         In(s, CloseReply) \/ (x.do = "reply" /\ x.id = Close)

\* The order that the invariant asks of each port.
InboxOK(s) ==
    /\ s \in Seq(Commands)
    /\ Behind(s, {CloseCommand}, Asking)
    /\ \A k \in Stream : Behind(s, {Generate(k)}, {Generate(k)})

OutboxOK(s) ==
    /\ s \in Seq(Messages)
    /\ Behind(s, {CloseReply}, Messages)
    /\ \A k \in Stream : Behind(s, {Ended(k)}, {Token(k)})

\* t has what s has, and x once more.
Has(t, s, x) ==
    /\ \A m : In(t, m) <=> In(s, m) \/ m = x
    /\ \A m : Count(t, m) = Count(s, m) + (IF m = x THEN 1 ELSE 0)

\* What a command more says of the ones that matter.
LEMMA OneCommand ==
  ASSUME NEW x \in Commands, NEW s, NEW t, Has(t, s, x)
  PROVE  MoreCommands(t, s, x)
<1>1. \A m : In(t, m) <=> In(s, m) \/ m = x
  BY DEF Has
<1>2. /\ \A k \in Stream :
           /\ x = Generate(k) <=> (x.do = "generate" /\ x.id = k)
           /\ x = Command("credit", k) <=> (x.do = "credit" /\ x.id = k)
      /\ \A r \in Request :
           x = Command("request", r) <=> (x.do = "request" /\ x.id = r)
      /\ x = CloseCommand <=> x.do = "close"
  BY CommandIs
<1>3. ASSUME NEW k \in Stream
      PROVE  In(t, Generate(k)) <=>
          In(s, Generate(k)) \/ (x.do = "generate" /\ x.id = k)
  <2>1. In(t, Generate(k)) <=> In(s, Generate(k)) \/ Generate(k) = x
    BY <1>1
  <2>. QED  BY <1>2, <2>1
<1>4. ASSUME NEW k \in Stream
      PROVE  In(t, Command("credit", k)) <=>
          In(s, Command("credit", k)) \/ (x.do = "credit" /\ x.id = k)
  <2>1. In(t, Command("credit", k)) <=>
          In(s, Command("credit", k)) \/ Command("credit", k) = x
    BY <1>1
  <2>. QED  BY <1>2, <2>1
<1>5. ASSUME NEW r \in Request
      PROVE  In(t, Command("request", r)) <=>
          In(s, Command("request", r)) \/ (x.do = "request" /\ x.id = r)
  <2>1. In(t, Command("request", r)) <=>
          In(s, Command("request", r)) \/ Command("request", r) = x
    BY <1>1
  <2>. QED  BY <1>2, <2>1
<1>6. In(t, CloseCommand) <=> In(s, CloseCommand) \/ x.do = "close"
  BY <1>1, <1>2
<1>. QED  BY <1>1, <1>3, <1>4, <1>5, <1>6 DEF MoreCommands

\* ... and a message more.
LEMMA OneMessage ==
  ASSUME NEW x \in Messages, NEW s \in Seq(Messages), NEW t, Has(t, s, x)
  PROVE  MoreMessages(t, s, x)
<1>1. \A m : In(t, m) <=> In(s, m) \/ m = x
  BY DEF Has
<1>2. /\ \A k \in Stream :
           /\ x = Ended(k) <=> (x.do = "ended" /\ x.id = k)
           /\ x = Token(k) <=> (x.do = "token" /\ x.id = k)
      /\ \A r \in Request :
           x = Message("reply", r) <=> (x.do = "reply" /\ x.id = r)
      /\ x = CloseReply <=> (x.do = "reply" /\ x.id = Close)
  BY MessageIs
<1>3. ASSUME NEW k \in Stream
      PROVE  In(t, Ended(k)) <=> In(s, Ended(k)) \/ (x.do = "ended" /\ x.id = k)
  <2>1. In(t, Ended(k)) <=> In(s, Ended(k)) \/ Ended(k) = x
    BY <1>1
  <2>. QED  BY <1>2, <2>1
<1>4. ASSUME NEW k \in Stream
      PROVE  In(t, Token(k)) <=> In(s, Token(k)) \/ (x.do = "token" /\ x.id = k)
  <2>1. In(t, Token(k)) <=> In(s, Token(k)) \/ Token(k) = x
    BY <1>1
  <2>. QED  BY <1>2, <2>1
<1>5. ASSUME NEW k \in Stream
      PROVE  /\ x.do = "token" /\ x.id = k => Count(t, Token(k)) = Count(s, Token(k)) + 1
             /\ x.do # "token" \/ x.id # k => Count(t, Token(k)) = Count(s, Token(k))
             /\ Count(s, Token(k)) \in Nat
             /\ Count(s, Token(k)) = 0 <=> ~In(s, Token(k))
  <2>1. Token(k) = x <=> x.do = "token" /\ x.id = k
    BY <1>2
  <2>2. Count(t, Token(k)) = Count(s, Token(k)) + (IF Token(k) = x THEN 1 ELSE 0)
    BY DEF Has
  <2>3. Count(s, Token(k)) \in Nat
    BY PlacesFinite
  <2>4. Count(s, Token(k)) = 0 <=> ~In(s, Token(k))
    BY CountNone
  <2>. QED  BY <2>1, <2>2, <2>3, <2>4
<1>6. ASSUME NEW r \in Request
      PROVE  In(t, Message("reply", r)) <=>
          In(s, Message("reply", r)) \/ (x.do = "reply" /\ x.id = r)
  <2>1. In(t, Message("reply", r)) <=>
          In(s, Message("reply", r)) \/ Message("reply", r) = x
    BY <1>1
  <2>. QED  BY <1>2, <2>1
<1>7. In(t, CloseReply) <=> In(s, CloseReply) \/ (x.do = "reply" /\ x.id = Close)
  <2>1. In(t, CloseReply) <=> In(s, CloseReply) \/ CloseReply = x
    BY <1>1
  <2>. QED  BY <1>2, <2>1
<1>. QED  BY <1>3, <1>4, <1>5, <1>6, <1>7 DEF MoreMessages

\* The worker takes a command.
LEMMA InboxTaken ==
  ASSUME PortInv, inbox # <<>>, inbox' = Tail(inbox), NEW h, h = Head(inbox)
  PROVE  /\ h \in Commands /\ InboxOK(inbox') /\ MoreCommands(inbox, inbox', h)
         /\ ready = "ok"
         /\ \A k \in Stream :
              h.do = "generate" /\ h.id = k => ~In(inbox', Generate(k))
         /\ h.do = "close" => \A m \in Asking : ~In(inbox', m)
<1>1. h \in Commands /\ inbox' \in Seq(Commands) /\ Taken(inbox, inbox')
  BY TailTakes DEF PortInv, PortTypeOK
<1>2. ready = "ok"
  BY DEF PortInv, Lives
<1>3. Behind(inbox, {CloseCommand}, Asking)
  BY DEF PortInv, CloseIsLast
<1>4. \A k \in Stream : Behind(inbox, {Generate(k)}, {Generate(k)})
  BY DEF PortInv, Once, OnceFor
<1>5. /\ Behind(inbox', {CloseCommand}, Asking)
      /\ h = CloseCommand => \A m \in Asking : ~In(inbox', m)
      /\ \A k \in Stream :
           /\ Behind(inbox', {Generate(k)}, {Generate(k)})
           /\ h = Generate(k) => ~In(inbox', Generate(k))
  BY <1>1, <1>3, <1>4 DEF Taken
<1>6. MoreCommands(inbox, inbox', h)
  BY <1>1, OneCommand DEF Taken, Has
<1>7. /\ h = CloseCommand <=> h.do = "close"
      /\ \A k \in Stream : h = Generate(k) <=> h.do = "generate" /\ h.id = k
  BY <1>1, CommandIs
<1>. QED  BY <1>1, <1>2, <1>5, <1>6, <1>7 DEF InboxOK

\* The backend sends a command.
LEMMA InboxAdded ==
  ASSUME PortInv, NEW x \in Commands, inbox' = Append(inbox, x),
         x \in Asking => ~_closing,
         \A k \in Stream : x = Generate(k) => ~In(inbox, Generate(k))
  PROVE  InboxOK(inbox') /\ MoreCommands(inbox', inbox, x)
<1>1. inbox' \in Seq(Commands) /\ Added(inbox, x, inbox')
  BY AppendAdds DEF PortInv, PortTypeOK
<1>2. /\ Behind(inbox, {CloseCommand}, Asking)
      /\ In(inbox, CloseCommand) => _closing
  BY DEF PortInv, CloseIsLast
<1>3. \A k \in Stream : Behind(inbox, {Generate(k)}, {Generate(k)})
  BY DEF PortInv, Once, OnceFor
<1>4. /\ Behind(inbox', {CloseCommand}, Asking)
      /\ \A k \in Stream : Behind(inbox', {Generate(k)}, {Generate(k)})
  BY <1>1, <1>2, <1>3 DEF Added
<1>5. MoreCommands(inbox', inbox, x)
  BY <1>1, OneCommand DEF Added, Has
<1>. QED  BY <1>1, <1>4, <1>5 DEF InboxOK

\* The backend takes a message.
LEMMA OutboxTaken ==
  ASSUME PortInv, outbox # <<>>, outbox' = Tail(outbox), NEW h, h = Head(outbox)
  PROVE  /\ h \in Messages /\ OutboxOK(outbox')
         /\ MoreMessages(outbox, outbox', h)
         /\ \A k \in Stream :
              h.do = "ended" /\ h.id = k => ~In(outbox', Token(k))
         /\ h.do = "reply" /\ h.id = Close => \A m \in Messages : ~In(outbox', m)
<1>1. h \in Messages /\ outbox' \in Seq(Messages) /\ Taken(outbox, outbox')
  BY TailTakes DEF PortInv, PortTypeOK
<1>2. Behind(outbox, {CloseReply}, Messages)
  BY DEF PortInv, CloseIsLast
<1>3. \A k \in Stream : Behind(outbox, {Ended(k)}, {Token(k)})
  BY DEF PortInv, Once, OnceFor
<1>4. /\ Behind(outbox', {CloseReply}, Messages)
      /\ h = CloseReply => \A m \in Messages : ~In(outbox', m)
      /\ \A k \in Stream :
           /\ Behind(outbox', {Ended(k)}, {Token(k)})
           /\ h = Ended(k) => ~In(outbox', Token(k))
  BY <1>1, <1>2, <1>3 DEF Taken
<1>5. MoreMessages(outbox, outbox', h)
  BY <1>1, OneMessage DEF Taken, Has
<1>6. /\ \A k \in Stream : h = Ended(k) <=> h.do = "ended" /\ h.id = k
      /\ h = CloseReply <=> h.do = "reply" /\ h.id = Close
  BY <1>1, MessageIs
<1>. QED  BY <1>1, <1>4, <1>5, <1>6 DEF OutboxOK

\* The worker sends a message.
LEMMA OutboxAdded ==
  ASSUME PortInv, NEW x \in Messages, outbox' = outbox \o <<x>>,
         worker # "gone",
         \A k \in Stream : x = Token(k) => ~In(outbox, Ended(k))
  PROVE  /\ OutboxOK(outbox') /\ MoreMessages(outbox', outbox, x)
         /\ ~In(outbox, CloseReply)
<1>0. outbox \in Seq(Messages) /\ outbox' = Append(outbox, x)
  BY DEF PortInv, PortTypeOK
<1>1. outbox' \in Seq(Messages) /\ Added(outbox, x, outbox')
  BY <1>0, AppendAdds
<1>2. Behind(outbox, {CloseReply}, Messages) /\ ~In(outbox, CloseReply)
  BY DEF PortInv, CloseIsLast
<1>3. \A k \in Stream : Behind(outbox, {Ended(k)}, {Token(k)})
  BY DEF PortInv, Once, OnceFor
<1>4. /\ Behind(outbox', {CloseReply}, Messages)
      /\ \A k \in Stream : Behind(outbox', {Ended(k)}, {Token(k)})
  BY <1>1, <1>2, <1>3 DEF Added
<1>5. MoreMessages(outbox', outbox, x)
  BY <1>0, <1>1, OneMessage DEF Added, Has
<1>. QED  BY <1>1, <1>2, <1>4, <1>5 DEF OutboxOK

\* What a consumer's changes send asks for nothing.
LEMMA InboxTold ==
  ASSUME PortInv, NEW k \in Stream, NEW xs,
         xs \in {<<>>, <<Command("credit", k)>>, <<Command("cancelStream", k)>>},
         inbox' = inbox \o xs
  PROVE  /\ InboxOK(inbox')
         /\ \A j \in Stream :
              /\ In(inbox', Generate(j)) <=> In(inbox, Generate(j))
              /\ In(inbox, Command("credit", j)) => In(inbox', Command("credit", j))
         /\ xs = <<Command("credit", k)>> => In(inbox', Command("credit", k))
         /\ \A r \in Request :
              In(inbox', Command("request", r)) <=> In(inbox, Command("request", r))
         /\ \A m \in Asking : In(inbox', m) => In(inbox, m)
         /\ In(inbox', CloseCommand) => In(inbox, CloseCommand)
         /\ xs = <<>> => inbox' = inbox
<1>1. inbox \in Seq(Commands) /\ InboxOK(inbox)
  BY DEF PortInv, PortTypeOK, InboxOK, CloseIsLast, Once, OnceFor
<1>2. /\ <<Command("credit", k)>> # <<>> /\ <<Command("cancelStream", k)>> # <<>>
      /\ <<Command("credit", k)>> # <<Command("cancelStream", k)>>
  BY DEF Command
<1>3. CASE xs = <<>>
  <2>1. inbox' = inbox
    BY <1>1, <1>3
  <2>. QED  BY <1>1, <1>2, <1>3, <2>1
<1>4. ASSUME NEW x \in {Command("credit", k), Command("cancelStream", k)}, xs = <<x>>
      PROVE  InboxOK(inbox') /\ MoreCommands(inbox', inbox, x)
  <2>1. x \in Commands /\ x.do \in {"credit", "cancelStream"}
    BY DEF Command, Commands
  <2>2. x \notin Asking /\ \A j \in Stream : x # Generate(j)
    BY <2>1, CommandIs
  <2>3. inbox' = Append(inbox, x)
    BY <1>1, <1>4, <2>1
  <2>. QED  BY <2>1, <2>2, <2>3, InboxAdded
<1>5. ASSUME NEW x \in {Command("credit", k), Command("cancelStream", k)}, xs = <<x>>
      PROVE  /\ x.do # "generate" /\ x.do # "request" /\ x.do # "close"
             /\ x \notin Asking
             /\ x = Command("credit", k) <=> x.do = "credit" /\ x.id = k
  BY CommandIs DEF Command, Asking
<1>6. PICK x \in {Command("credit", k), Command("cancelStream", k)} :
         xs # <<>> => xs = <<x>>
  BY <1>2
<1>7. CASE xs = <<x>>
  <2>1. xs = <<Command("credit", k)>> => x = Command("credit", k)
    BY <1>2, <1>7
  <2>2. xs # <<>>
    BY <1>7
  <2>. QED  BY <1>4, <1>5, <1>7, <2>1, <2>2 DEF MoreCommands
<1>. QED  BY <1>3, <1>6, <1>7

\* What reached a consumer is a number.
LEMMA ReachedIsNat ==
  ASSUME PortInv, NEW k \in Stream
  PROVE  Reached(consumer[k]) \in Nat /\ Count(consumer[k].buffer, "token") \in Nat
<1>1. consumer[k].tokens \in Nat /\ consumer[k].buffer \in Seq(EventKind)
  BY PortBounds DEF PortInv, PortTypeOK, ClientTypeOK, Consumer
<1>2. Count(consumer[k].buffer, "token") \in Nat
  BY <1>1, PlacesFinite
<1>. QED  BY <1>1, <1>2 DEF Reached

\* Every action keeps the invariant, part by part.  First the worker: it takes a
\* request and answers it.
LEMMA RepliesKeep ==
  ASSUME PortInv, WorkerReplies, NEW h, h = Head(inbox),
         NEW x, x = Message("reply", h.id)
  PROVE  PortInv'
<1>1. /\ worker = "up" /\ h.do = "request" /\ inbox # <<>>
      /\ inbox' = Tail(inbox) /\ outbox' = outbox \o <<x>>
  BY DEF WorkerReplies, Commanded, Whom, Say
<1>2. /\ ready' = ready /\ _closing' = _closing /\ _closed' = _closed
      /\ portsOpen' = portsOpen
      /\ _pending' = _pending /\ _streams' = _streams /\ consumer' = consumer
      /\ settled' = settled
      /\ worker' = worker /\ running' = running /\ sent' = sent
  BY DEF WorkerReplies, main
<1>3. /\ h \in Commands /\ InboxOK(inbox') /\ MoreCommands(inbox, inbox', h)
      /\ ready = "ok"
  BY <1>1, InboxTaken
<1>4. /\ x \in Messages /\ x.do = "reply" /\ x.id = h.id /\ h.id \in Request
      /\ x.id # Close
  BY <1>1, <1>3, CommandIs, PortBounds DEF Message, Messages
<1>5. /\ OutboxOK(outbox') /\ MoreMessages(outbox', outbox, x)
      /\ ~In(outbox, CloseReply)
  BY <1>1, <1>4, MessageIs, OutboxAdded
<1>6. PortTypeOK'
  BY <1>1, <1>2, <1>3, <1>4, <1>5
  DEF PortInv, PortTypeOK, ClientTypeOK, Running, InboxOK, OutboxOK
<1>7. Lives'
  BY <1>1, <1>2, <1>3, <1>4, <1>5
  DEF PortInv, Lives, Running
<1>8. CloseIsLast'
  BY <1>1, <1>2, <1>3, <1>4, <1>5
  DEF PortInv, CloseIsLast, Lives, InboxOK, OutboxOK, MoreCommands, MoreMessages
<1>9. RepliesCome'
  BY <1>1, <1>2, <1>3, <1>4, <1>5
  DEF PortInv, RepliesCome, Lost, MoreCommands, MoreMessages
<1>10. EndsCome'
  BY <1>1, <1>2, <1>3, <1>4, <1>5
  DEF PortInv, EndsCome, Lost, Running, PortTypeOK, ClientTypeOK, MoreCommands,
      MoreMessages
<1>11. Registered'
  BY <1>2 DEF PortInv, Registered, RegisteredFor
<1>12. Once'
  BY <1>1, <1>2, <1>3, <1>4, <1>5
  DEF PortInv, Once, OnceFor, Over, Running, Lives, InboxOK, OutboxOK,
      MoreCommands, MoreMessages
<1>13. Texts'
  BY <1>1, <1>2, <1>3, <1>4, <1>5
  DEF PortInv, Texts, TextsFor, Once, OnceFor, Over, Running, MoreMessages
<1>14. Fed'
  BY <1>1, <1>2, <1>3, <1>4, <1>5
  DEF PortInv, Fed, FedFor, Busy, Running, MoreCommands, MoreMessages
<1>. QED  BY <1>6, <1>7, <1>8, <1>9, <1>10, <1>11, <1>12, <1>13, <1>14 DEF PortInv

\* A credit or a cancellation sets the operation's flag, if it still runs.
LEMMA ToldKeeps ==
  ASSUME PortInv, WorkerIsTold, NEW h, h = Head(inbox)
  PROVE  PortInv'
<1>1. /\ worker = "up" /\ h.do \in {"credit", "cancelStream"}
      /\ inbox # <<>> /\ inbox' = Tail(inbox)
  BY DEF WorkerIsTold, Commanded
<1>2. /\ ready' = ready /\ _closing' = _closing /\ _closed' = _closed
      /\ portsOpen' = portsOpen
      /\ _pending' = _pending /\ _streams' = _streams /\ consumer' = consumer
      /\ settled' = settled
      /\ outbox' = outbox /\ worker' = worker /\ sent' = sent
  BY DEF WorkerIsTold, main
<1>3. /\ h \in Commands /\ InboxOK(inbox') /\ MoreCommands(inbox, inbox', h)
      /\ ready = "ok"
  BY <1>1, InboxTaken
<1>4. /\ Running' = Running
      /\ running' \in [Running -> [credit : BOOLEAN, cancelRequested : BOOLEAN,
                                   final : BOOLEAN]]
      /\ \A k \in Running : running[k].credit \/ (h.do = "credit" /\ h.id = k)
                              => running'[k].credit
  BY <1>1 DEF WorkerIsTold, Whom, PortInv, PortTypeOK, Running
<1>5. PortTypeOK'
  BY <1>1, <1>2, <1>3, <1>4
  DEF PortInv, PortTypeOK, ClientTypeOK, Running, InboxOK, OutboxOK
<1>6. Lives'
  BY <1>1, <1>2, <1>3, <1>4
  DEF PortInv, Lives, Running
<1>7. CloseIsLast'
  BY <1>1, <1>2, <1>3, <1>4
  DEF PortInv, CloseIsLast, Lives, InboxOK, OutboxOK, MoreCommands, MoreMessages
<1>8. RepliesCome'
  BY <1>1, <1>2, <1>3, <1>4
  DEF PortInv, RepliesCome, Lost, MoreCommands, MoreMessages
<1>9. EndsCome'
  BY <1>1, <1>2, <1>3, <1>4
  DEF PortInv, EndsCome, Lost, Running, PortTypeOK, ClientTypeOK, MoreCommands,
      MoreMessages
<1>10. Registered'
  BY <1>2 DEF PortInv, Registered, RegisteredFor
<1>11. Once'
  BY <1>1, <1>2, <1>3, <1>4
  DEF PortInv, Once, OnceFor, Over, Running, Lives, InboxOK, OutboxOK,
      MoreCommands, MoreMessages
<1>12. Texts'
  BY <1>1, <1>2, <1>3, <1>4
  DEF PortInv, Texts, TextsFor, Once, OnceFor, Over, Running, MoreMessages
<1>13. Fed'
  BY <1>1, <1>2, <1>3, <1>4
  DEF PortInv, Fed, FedFor, Busy, Running, MoreCommands, MoreMessages
<1>. QED  BY <1>5, <1>6, <1>7, <1>8, <1>9, <1>10, <1>11, <1>12, <1>13 DEF PortInv

\* A generation begins: its operation has a first credit.
LEMMA BeginsKeeps ==
  ASSUME PortInv, WorkerGenerates, outbox' = outbox, NEW h, h = Head(inbox),
         running' = [k \in Running \union {h.id} |->
                       IF k \in Running THEN running[k] ELSE NewOperation]
  PROVE  PortInv'
<1>1. /\ worker = "up" /\ h.do = "generate"
      /\ inbox # <<>> /\ inbox' = Tail(inbox)
  BY DEF WorkerGenerates, Commanded
<1>2. /\ ready' = ready /\ _closing' = _closing /\ _closed' = _closed
      /\ portsOpen' = portsOpen
      /\ _pending' = _pending /\ _streams' = _streams /\ consumer' = consumer
      /\ settled' = settled
      /\ outbox' = outbox /\ worker' = worker /\ sent' = sent
  BY DEF WorkerGenerates, main
<1>3. /\ h \in Commands /\ h.id \in Stream
      /\ InboxOK(inbox') /\ MoreCommands(inbox, inbox', h)
      /\ ready = "ok" /\ ~In(inbox', Generate(h.id)) /\ In(inbox, Generate(h.id))
  BY <1>1, InboxTaken, CommandIs DEF MoreCommands
<1>4. /\ h.id \notin Running /\ ~In(outbox, Ended(h.id))
  BY <1>3 DEF PortInv, Once, OnceFor
<1>5. /\ Running' = Running \union {h.id}
      /\ running' \in [Running' -> [credit : BOOLEAN, cancelRequested : BOOLEAN,
                                    final : BOOLEAN]]
      /\ \A k \in Running : running'[k] = running[k]
      /\ running'[h.id].credit
  BY <1>4 DEF Running, NewOperation, PortInv, PortTypeOK
<1>6. IsFiniteSet(Running')
  BY <1>5, FS_AddElement DEF PortInv, PortTypeOK
<1>7. PortTypeOK'
  BY <1>1, <1>2, <1>3, <1>4, <1>5, <1>6
  DEF PortInv, PortTypeOK, ClientTypeOK, Running, InboxOK, OutboxOK
<1>8. Lives'
  BY <1>1, <1>2, <1>3, <1>4, <1>5, <1>6
  DEF PortInv, Lives, Running
<1>9. CloseIsLast'
  BY <1>1, <1>2, <1>3, <1>4, <1>5, <1>6
  DEF PortInv, CloseIsLast, Lives, InboxOK, OutboxOK, MoreCommands, MoreMessages
<1>10. RepliesCome'
  BY <1>1, <1>2, <1>3, <1>4, <1>5, <1>6
  DEF PortInv, RepliesCome, Lost, MoreCommands, MoreMessages
<1>11. EndsCome'
  BY <1>1, <1>2, <1>3, <1>4, <1>5, <1>6
  DEF PortInv, EndsCome, Lost, Running, PortTypeOK, ClientTypeOK, MoreCommands,
      MoreMessages
<1>12. Registered'
  BY <1>2 DEF PortInv, Registered, RegisteredFor
<1>13. Once'
  <2>1. \A k \in Stream : /\ Behind(inbox', {Generate(k)}, {Generate(k)})
                           /\ Behind(outbox, {Ended(k)}, {Token(k)})
    BY <1>3 DEF InboxOK, PortInv, Once, OnceFor
  <2>2. ASSUME NEW k \in Stream, k # h.id PROVE OnceFor(k)'
    <3>1. /\ k \in Running' <=> k \in Running
          /\ In(inbox', Generate(k)) <=> In(inbox, Generate(k))
      BY <1>1, <1>3, <1>5, <2>2 DEF MoreCommands
    <3>. QED  BY <1>2, <2>1, <3>1 DEF PortInv, Once, OnceFor, Over
  <2>3. OnceFor(h.id)'
    <3>1. OnceFor(h.id)
      BY <1>3 DEF PortInv, Once
    <3>2. LET c == consumer[h.id]
          IN  c.listened /\ ~c.done /\ ~(c.cancelled /\ ~c.cancelWaits)
      BY <1>1, <1>3, <3>1 DEF OnceFor, Over
    <3>. QED  BY <1>2, <1>3, <1>4, <2>1, <3>2 DEF OnceFor
  <2>. QED  BY <2>2, <2>3 DEF Once
<1>14. Texts'
  BY <1>1, <1>2, <1>3, <1>4, <1>5, <1>6
  DEF PortInv, Texts, TextsFor, Once, OnceFor, Over, Running, MoreMessages
<1>15. Fed'
  BY <1>1, <1>2, <1>3, <1>4, <1>5, <1>6
  DEF PortInv, Fed, FedFor, Busy, Running, MoreCommands, MoreMessages
<1>. QED  BY <1>7, <1>8, <1>9, <1>10, <1>11, <1>12, <1>13, <1>14, <1>15 DEF PortInv

\* ... or it cannot, and its end goes out at once.
LEMMA RefusesKeep ==
  ASSUME PortInv, WorkerGenerates, running' = running, NEW h, h = Head(inbox),
         NEW x, x = Message("ended", h.id), outbox' = outbox \o <<x>>
  PROVE  PortInv'
<1>1. /\ worker = "up" /\ h.do = "generate"
      /\ inbox # <<>> /\ inbox' = Tail(inbox)
  BY DEF WorkerGenerates, Commanded
<1>2. /\ ready' = ready /\ _closing' = _closing /\ _closed' = _closed
      /\ portsOpen' = portsOpen
      /\ _pending' = _pending /\ _streams' = _streams /\ consumer' = consumer
      /\ settled' = settled
      /\ worker' = worker /\ running' = running /\ sent' = sent
  BY DEF WorkerGenerates, main
<1>3. /\ h \in Commands /\ h.id \in Stream
      /\ InboxOK(inbox') /\ MoreCommands(inbox, inbox', h)
      /\ ready = "ok" /\ ~In(inbox', Generate(h.id)) /\ In(inbox, Generate(h.id))
  BY <1>1, InboxTaken, CommandIs DEF MoreCommands
<1>4. x \in Messages /\ x.do = "ended" /\ x.id = h.id
  BY <1>3 DEF Message, Messages
<1>5. /\ OutboxOK(outbox') /\ MoreMessages(outbox', outbox, x)
      /\ ~In(outbox, CloseReply)
  BY <1>1, <1>4, MessageIs, OutboxAdded
<1>6. PortTypeOK'
  BY <1>1, <1>2, <1>3, <1>4, <1>5
  DEF PortInv, PortTypeOK, ClientTypeOK, Running, InboxOK, OutboxOK
<1>7. Lives'
  BY <1>1, <1>2, <1>3, <1>4, <1>5
  DEF PortInv, Lives, Running
<1>8. CloseIsLast'
  BY <1>1, <1>2, <1>3, <1>4, <1>5
  DEF PortInv, CloseIsLast, Lives, InboxOK, OutboxOK, MoreCommands, MoreMessages
<1>9. RepliesCome'
  BY <1>1, <1>2, <1>3, <1>4, <1>5
  DEF PortInv, RepliesCome, Lost, MoreCommands, MoreMessages
<1>10. EndsCome'
  BY <1>1, <1>2, <1>3, <1>4, <1>5
  DEF PortInv, EndsCome, Lost, Running, PortTypeOK, ClientTypeOK, MoreCommands,
      MoreMessages
<1>11. Registered'
  BY <1>2 DEF PortInv, Registered, RegisteredFor
<1>12. Once'
  <2>1. ASSUME NEW k \in Stream PROVE OnceFor(k)'
    <3>1. OnceFor(k)
      BY DEF PortInv, Once
    <3>2. /\ Behind(inbox', {Generate(k)}, {Generate(k)})
          /\ Behind(outbox', {Ended(k)}, {Token(k)})
      BY <1>3, <1>5 DEF InboxOK, OutboxOK
    <3>3. /\ In(inbox', Generate(k)) <=> In(inbox, Generate(k)) /\ k # h.id
          /\ In(outbox', Ended(k)) <=> In(outbox, Ended(k)) \/ k = h.id
          /\ In(outbox', Token(k)) <=> In(outbox, Token(k))
      BY <1>1, <1>3, <1>4, <1>5 DEF MoreCommands, MoreMessages
    <3>. QED  BY <1>1, <1>2, <1>3, <3>1, <3>2, <3>3 DEF OnceFor, Over, Running
  <2>. QED  BY <2>1 DEF Once
<1>13. Texts'
  BY <1>1, <1>2, <1>3, <1>4, <1>5
  DEF PortInv, Texts, TextsFor, Once, OnceFor, Over, Running, MoreMessages
<1>14. Fed'
  BY <1>1, <1>2, <1>3, <1>4, <1>5
  DEF PortInv, Fed, FedFor, Busy, Running, MoreCommands, MoreMessages
<1>. QED  BY <1>6, <1>7, <1>8, <1>9, <1>10, <1>11, <1>12, <1>13, <1>14 DEF PortInv

\* A text takes the credit with it.
LEMMA SendsKeep ==
  ASSUME PortInv, NEW k \in Stream, WorkerSends(k),
         NEW x, x = Message("token", k)
  PROVE  PortInv'
<1>1. /\ worker = "up" /\ k \in Running /\ outbox' = outbox \o <<x>>
      /\ sent[k] < MaxTokens /\ sent' = [sent EXCEPT ![k] = @ + 1]
  BY DEF WorkerSends, Say
<1>2. /\ ready' = ready /\ _closing' = _closing /\ _closed' = _closed
      /\ portsOpen' = portsOpen
      /\ _pending' = _pending /\ _streams' = _streams /\ consumer' = consumer
      /\ settled' = settled
      /\ inbox' = inbox /\ worker' = worker
  BY DEF WorkerSends, main
<1>3. x \in Messages /\ x.do = "token" /\ x.id = k
  BY DEF Message, Messages
<1>4. ~In(outbox, Ended(k)) /\ consumer[k].listened
  BY <1>1 DEF PortInv, Once, OnceFor, Over
<1>5. /\ OutboxOK(outbox') /\ MoreMessages(outbox', outbox, x)
      /\ ~In(outbox, CloseReply)
  BY <1>1, <1>3, <1>4, MessageIs, OutboxAdded
<1>6. /\ Running' = Running
      /\ running' \in [Running -> [credit : BOOLEAN, cancelRequested : BOOLEAN,
                                   final : BOOLEAN]]
      /\ \A j \in Running \ {k} : running'[j] = running[j]
  BY <1>1 DEF WorkerSends, Running, PortInv, PortTypeOK
<1>7. /\ sent' \in [Stream -> 0 .. MaxTokens] /\ sent'[k] = sent[k] + 1
      /\ \A j \in Stream \ {k} : sent'[j] = sent[j]
  BY <1>1, PortBounds DEF PortInv, PortTypeOK
<1>8. PortTypeOK'
  BY <1>1, <1>2, <1>3, <1>4, <1>5, <1>6, <1>7
  DEF PortInv, PortTypeOK, ClientTypeOK, Running, InboxOK, OutboxOK
<1>9. Lives'
  BY <1>1, <1>2, <1>3, <1>4, <1>5, <1>6, <1>7
  DEF PortInv, Lives, Running
<1>10. CloseIsLast'
  BY <1>1, <1>2, <1>3, <1>4, <1>5, <1>6, <1>7
  DEF PortInv, CloseIsLast, Lives, InboxOK, OutboxOK, MoreCommands, MoreMessages
<1>11. RepliesCome'
  BY <1>1, <1>2, <1>3, <1>4, <1>5, <1>6, <1>7
  DEF PortInv, RepliesCome, Lost, MoreCommands, MoreMessages
<1>12. EndsCome'
  BY <1>1, <1>2, <1>3, <1>4, <1>5, <1>6, <1>7
  DEF PortInv, EndsCome, Lost, Running, PortTypeOK, ClientTypeOK, MoreCommands,
      MoreMessages
<1>13. Registered'
  BY <1>2 DEF PortInv, Registered, RegisteredFor
<1>14. Once'
  BY <1>1, <1>2, <1>3, <1>4, <1>5, <1>6, <1>7
  DEF PortInv, Once, OnceFor, Over, Running, Lives, InboxOK, OutboxOK,
      MoreCommands, MoreMessages
<1>15. Texts'
  <2>1. ASSUME NEW j \in Stream, j # k PROVE TextsFor(j)'
    BY <1>2, <1>3, <1>5, <1>7, <2>1
    DEF PortInv, Texts, TextsFor, Orderly, Reached, MoreMessages
  <2>2. Reached(consumer[k]) \in Nat /\ Reached(consumer[k])' = Reached(consumer[k])
    BY <1>2, ReachedIsNat DEF Reached
  <2>3. ~consumer[k].done
    BY <1>1 DEF PortInv, Once, OnceFor, Over
  <2>4. Count(outbox', Token(k)) = Count(outbox, Token(k)) + 1
        /\ Count(outbox, Token(k)) \in Nat
    BY <1>3, <1>5 DEF MoreMessages
  <2>5. sent[k] \in Nat
    BY PortBounds DEF PortInv, PortTypeOK
  <2>6. TextsFor(k)'
    BY <1>2, <1>7, <2>2, <2>3, <2>4, <2>5 DEF PortInv, Texts, TextsFor, Orderly
  <2>. QED  BY <2>1, <2>6 DEF Texts
<1>16. Fed'
  BY <1>1, <1>2, <1>3, <1>4, <1>5, <1>6, <1>7
  DEF PortInv, Fed, FedFor, Busy, Running, MoreCommands, MoreMessages
<1>. QED  BY <1>8, <1>9, <1>10, <1>11, <1>12, <1>13, <1>14, <1>15, <1>16 DEF PortInv

\* The last text is known: no credit is lost.
LEMMA FinalKeeps ==
  ASSUME PortInv, NEW k \in Stream, WorkerFinal(k)
  PROVE  PortInv'
<1>1. /\ ready' = ready /\ _closing' = _closing /\ _closed' = _closed
      /\ portsOpen' = portsOpen
      /\ _pending' = _pending /\ _streams' = _streams /\ consumer' = consumer
      /\ settled' = settled
      /\ inbox' = inbox /\ outbox' = outbox /\ worker' = worker /\ sent' = sent
  BY DEF WorkerFinal, main
<1>2. /\ worker = "up" /\ k \in Running /\ Running' = Running
      /\ running' \in [Running -> [credit : BOOLEAN, cancelRequested : BOOLEAN,
                                   final : BOOLEAN]]
      /\ \A j \in Running : running'[j].credit = running[j].credit
  BY DEF WorkerFinal, Running, PortInv, PortTypeOK
<1>3. PortTypeOK'
  BY <1>1, <1>2
  DEF PortInv, PortTypeOK, ClientTypeOK, Running, InboxOK, OutboxOK
<1>4. Lives'
  BY <1>1, <1>2
  DEF PortInv, Lives, Running
<1>5. CloseIsLast'
  BY <1>1, <1>2
  DEF PortInv, CloseIsLast, Lives, InboxOK, OutboxOK, MoreCommands, MoreMessages
<1>6. RepliesCome'
  BY <1>1, <1>2
  DEF PortInv, RepliesCome, Lost, MoreCommands, MoreMessages
<1>7. EndsCome'
  BY <1>1, <1>2
  DEF PortInv, EndsCome, Lost, Running, PortTypeOK, ClientTypeOK, MoreCommands,
      MoreMessages
<1>8. Registered'
  BY <1>1, <1>2
  DEF PortInv, Registered, RegisteredFor
<1>9. Once'
  BY <1>1, <1>2
  DEF PortInv, Once, OnceFor, Over, Running, Lives, InboxOK, OutboxOK,
      MoreCommands, MoreMessages
<1>10. Texts'
  BY <1>1, <1>2
  DEF PortInv, Texts, TextsFor, Once, OnceFor, Over, Running, MoreMessages
<1>11. Fed'
  BY <1>1, <1>2
  DEF PortInv, Fed, FedFor, Busy, Running, MoreCommands, MoreMessages
<1>. QED  BY <1>3, <1>4, <1>5, <1>6, <1>7, <1>8, <1>9, <1>10, <1>11 DEF PortInv

\* An operation ends, and its end is behind all of its texts.
LEMMA EndsKeep ==
  ASSUME PortInv, NEW k \in Stream, WorkerEnds(k),
         NEW x, x = Message("ended", k)
  PROVE  PortInv'
<1>1. /\ worker = "up" /\ k \in Running /\ outbox' = outbox \o <<x>>
  BY DEF WorkerEnds, Say
<1>2. /\ ready' = ready /\ _closing' = _closing /\ _closed' = _closed
      /\ portsOpen' = portsOpen
      /\ _pending' = _pending /\ _streams' = _streams /\ consumer' = consumer
      /\ settled' = settled
      /\ inbox' = inbox /\ worker' = worker /\ sent' = sent
  BY DEF WorkerEnds, main
<1>3. x \in Messages /\ x.do = "ended" /\ x.id = k
  BY DEF Message, Messages
<1>4. consumer[k].listened /\ ~In(inbox, Generate(k))
  BY <1>1 DEF PortInv, Once, OnceFor, Over
<1>5. /\ OutboxOK(outbox') /\ MoreMessages(outbox', outbox, x)
      /\ ~In(outbox, CloseReply)
  BY <1>1, <1>3, MessageIs, OutboxAdded
<1>6. /\ Running' = Running \ {k}
      /\ running' \in [Running' -> [credit : BOOLEAN, cancelRequested : BOOLEAN,
                                    final : BOOLEAN]]
      /\ \A j \in Running' : running'[j] = running[j]
  BY <1>1 DEF WorkerEnds, Running, Restrict, PortInv, PortTypeOK
<1>7. IsFiniteSet(Running')
  BY <1>6, FS_RemoveElement DEF PortInv, PortTypeOK
<1>8. PortTypeOK'
  BY <1>1, <1>2, <1>3, <1>4, <1>5, <1>6, <1>7
  DEF PortInv, PortTypeOK, ClientTypeOK, Running, InboxOK, OutboxOK
<1>9. Lives'
  BY <1>1, <1>2, <1>3, <1>4, <1>5, <1>6, <1>7
  DEF PortInv, Lives, Running
<1>10. CloseIsLast'
  BY <1>1, <1>2, <1>3, <1>4, <1>5, <1>6, <1>7
  DEF PortInv, CloseIsLast, Lives, InboxOK, OutboxOK, MoreCommands, MoreMessages
<1>11. RepliesCome'
  BY <1>1, <1>2, <1>3, <1>4, <1>5, <1>6, <1>7
  DEF PortInv, RepliesCome, Lost, MoreCommands, MoreMessages
<1>12. EndsCome'
  BY <1>1, <1>2, <1>3, <1>4, <1>5, <1>6, <1>7
  DEF PortInv, EndsCome, Lost, Running, PortTypeOK, ClientTypeOK, MoreCommands,
      MoreMessages
<1>13. Registered'
  BY <1>2 DEF PortInv, Registered, RegisteredFor
<1>14. Once'
  BY <1>1, <1>2, <1>3, <1>4, <1>5, <1>6, <1>7
  DEF PortInv, Once, OnceFor, Over, Running, Lives, InboxOK, OutboxOK,
      MoreCommands, MoreMessages
<1>15. Texts'
  BY <1>1, <1>2, <1>3, <1>4, <1>5, <1>6, <1>7
  DEF PortInv, Texts, TextsFor, Once, OnceFor, Over, Running, MoreMessages
<1>16. Fed'
  BY <1>1, <1>2, <1>3, <1>4, <1>5, <1>6, <1>7
  DEF PortInv, Fed, FedFor, Busy, Running, MoreCommands, MoreMessages
<1>. QED  BY <1>8, <1>9, <1>10, <1>11, <1>12, <1>13, <1>14, <1>15, <1>16 DEF PortInv

\* The worker dies: what is not in outbox is lost.
LEMMA DiesKeeps ==
  ASSUME PortInv, WorkerDies
  PROVE  PortInv'
<1>1. /\ ready' = ready /\ _closing' = _closing /\ _closed' = _closed
      /\ portsOpen' = portsOpen
      /\ _pending' = _pending /\ _streams' = _streams /\ consumer' = consumer
      /\ settled' = settled
      /\ inbox' = inbox /\ outbox' = outbox /\ sent' = sent
  BY DEF WorkerDies, main
<1>2. /\ worker' = "gone" /\ worker = "up" /\ ~In(outbox, CloseReply)
  BY DEF WorkerDies, PortInv, CloseIsLast
<1>3. /\ Running' = {} /\ IsFiniteSet(Running')
      /\ running' \in [Running' -> [credit : BOOLEAN, cancelRequested : BOOLEAN,
                                    final : BOOLEAN]]
  BY FS_EmptySet DEF WorkerDies, Running
<1>4. PortTypeOK'
  BY <1>1, <1>2, <1>3
  DEF PortInv, PortTypeOK, ClientTypeOK, Running, InboxOK, OutboxOK
<1>5. Lives'
  BY <1>1, <1>2, <1>3
  DEF PortInv, Lives, Running
<1>6. CloseIsLast'
  BY <1>1, <1>2, <1>3
  DEF PortInv, CloseIsLast, Lives, InboxOK, OutboxOK, MoreCommands, MoreMessages
<1>7. RepliesCome'
  BY <1>1, <1>2, <1>3
  DEF PortInv, RepliesCome, Lost, MoreCommands, MoreMessages
<1>8. EndsCome'
  BY <1>1, <1>2, <1>3
  DEF PortInv, EndsCome, Lost, Running, PortTypeOK, ClientTypeOK, MoreCommands,
      MoreMessages
<1>9. Registered'
  BY <1>1, <1>2, <1>3
  DEF PortInv, Registered, RegisteredFor
<1>10. Once'
  BY <1>1, <1>2, <1>3
  DEF PortInv, Once, OnceFor, Over, Running, Lives, InboxOK, OutboxOK,
      MoreCommands, MoreMessages
<1>11. Texts'
  BY <1>1, <1>2, <1>3
  DEF PortInv, Texts, TextsFor, Once, OnceFor, Over, Running, MoreMessages
<1>12. Fed'
  BY <1>1, <1>2, <1>3
  DEF PortInv, Fed, FedFor, Busy, Running, MoreCommands, MoreMessages
<1>. QED  BY <1>4, <1>5, <1>6, <1>7, <1>8, <1>9, <1>10, <1>11, <1>12 DEF PortInv

\* Behind a close nothing is asked.
LEMMA ClosingAsksNothing ==
  ASSUME PortInv, inbox # <<>>, Head(inbox).do = "close"
  PROVE  /\ In(inbox, CloseCommand)
         /\ \A r \in Request : ~In(inbox, Command("request", r))
         /\ \A k \in Stream : ~In(inbox, Generate(k))
<1>1. Head(inbox) \in Commands /\ Taken(inbox, Tail(inbox))
  BY TailTakes DEF PortInv, PortTypeOK
<1>2. Head(inbox) = CloseCommand
  BY <1>1, CommandIs
<1>3. \A m \in Asking : ~In(Tail(inbox), m)
  BY <1>1, <1>2 DEF Taken, PortInv, CloseIsLast
<1>4. \A m \in Asking : In(inbox, m) => m = CloseCommand
  BY <1>1, <1>2, <1>3 DEF Taken
<1>5. /\ \A r \in Request : Command("request", r) \in Asking \ {CloseCommand}
      /\ \A k \in Stream : Generate(k) \in Asking \ {CloseCommand}
  BY DEF Asking, Commands, Command, CloseCommand, Generate
<1>. QED  BY <1>1, <1>2, <1>4, <1>5 DEF Taken

\* An injection of 1 .. Cardinality(R) into R names all of R.
LEMMA OrderNamesAll ==
  ASSUME NEW R, IsFiniteSet(R), NEW order \in [1 .. Cardinality(R) -> R],
         IsInjective(order)
  PROVE  \A k \in R : \E i \in 1 .. Cardinality(R) : order[i] = k
<1>. DEFINE n == Cardinality(R)
            named == {order[i] : i \in 1 .. n}
<1>1. n \in Nat
  BY FS_CardinalityType
<1>2. IsFiniteSet(1 .. n) /\ Cardinality(1 .. n) = n
  BY <1>1, FS_Interval
<1>3. order \in Bijection(1 .. n, named)
  <2>1. order \in [1 .. n -> named]
    OBVIOUS
  <2>2. \A i, j \in 1 .. n : order[i] = order[j] => i = j
    BY DEF IsInjective
  <2>3. \A k \in named : \E i \in 1 .. n : order[i] = k
    OBVIOUS
  <2>. QED  BY <2>1, <2>2, <2>3 DEF Bijection, Injection, Surjection
<1>4. IsFiniteSet(named) /\ Cardinality(named) = n
  BY <1>2, <1>3, FS_Bijection DEF ExistsBijection
<1>5. named \subseteq R
  OBVIOUS
<1>6. named = R
  BY <1>4, <1>5, FS_Subset
<1>. QED  BY <1>6

\* Where the elements of a concatenation are.
LEMMA Joined ==
  ASSUME NEW X, NEW s \in Seq(X), NEW t \in Seq(X)
  PROVE  /\ s \o t \in Seq(X) /\ Len(s \o t) = Len(s) + Len(t)
         /\ Len(s) \in Nat /\ Len(t) \in Nat
         /\ \A i \in 1 .. Len(s) : (s \o t)[i] = s[i]
         /\ \A i \in 1 .. Len(t) : (s \o t)[Len(s) + i] = t[i]
OBVIOUS

\* t is s, the ends in an order of n streams, and the reply to close.
Closes(s, t, order, n) ==
    /\ t \in Seq(Messages) /\ Len(s) \in Nat /\ n \in Nat
    /\ Len(t) = Len(s) + n + 1
    /\ \A i \in 1 .. Len(s) : t[i] = s[i]
    /\ \A i \in 1 .. n : t[Len(s) + i] = Ended(order[i])
    /\ t[Len(s) + n + 1] = CloseReply

\* The messages of a close, by their places.
LEMMA CloseSays ==
  ASSUME NEW s \in Seq(Messages), NEW n \in Nat, NEW order \in [1 .. n -> Stream],
         NEW ends, ends = [i \in 1 .. n |-> Ended(order[i])],
         NEW last, last = <<CloseReply>>
  PROVE  Closes(s, s \o (ends \o last), order, n)
<1>1. \A i \in 1 .. n : Ended(order[i]) \in Messages
  BY MessagesAre
<1>2. ends \in Seq(Messages) /\ Len(ends) = n /\ \A i \in 1 .. n : ends[i] = Ended(order[i])
  BY <1>1
<1>3. last \in Seq(Messages) /\ Len(last) = 1 /\ last[1] = CloseReply
  BY MessagesAre
<1>. DEFINE all == ends \o last
            t == s \o all
<1>4. /\ all \in Seq(Messages) /\ Len(all) = Len(ends) + Len(last)
      /\ \A i \in 1 .. Len(ends) : all[i] = ends[i]
      /\ \A i \in 1 .. Len(last) : all[Len(ends) + i] = last[i]
  BY <1>2, <1>3, Joined
<1>. HIDE DEF all
<1>5. /\ t \in Seq(Messages) /\ Len(t) = Len(s) + Len(all) /\ Len(s) \in Nat
      /\ \A i \in 1 .. Len(s) : t[i] = s[i]
      /\ \A i \in 1 .. Len(all) : t[Len(s) + i] = all[i]
  <2>1. all \in Seq(Messages)
    BY <1>4
  <2>. QED  BY <2>1, Joined
<1>. HIDE DEF t
<1>6. /\ Len(all) = n + 1 /\ all[n + 1] = CloseReply
      /\ \A i \in 1 .. n : all[i] = Ended(order[i])
  BY <1>2, <1>3, <1>4
<1>7. /\ \A i \in 1 .. n : i \in 1 .. Len(all)
      /\ n + 1 \in 1 .. Len(all) /\ Len(s) + (n + 1) = Len(s) + n + 1
  BY <1>5, <1>6
<1>8. Closes(s, t, order, n)
  BY <1>5, <1>6, <1>7 DEF Closes
<1>. QED  BY <1>8 DEF t, all

\* What the worker says when it closes: every running operation's end, then the
\* reply.
LEMMA LastWords ==
  ASSUME PortInv, ~In(outbox, CloseReply),
         NEW order \in [1 .. Cardinality(Running) -> Running], IsInjective(order),
         Closes(outbox, outbox', order, Cardinality(Running))
  PROVE  /\ OutboxOK(outbox')
         /\ In(outbox', CloseReply)
         /\ \A k \in Stream :
              /\ In(outbox', Ended(k)) <=> In(outbox, Ended(k)) \/ k \in Running
              /\ In(outbox', Token(k)) <=> In(outbox, Token(k))
              /\ Count(outbox', Token(k)) = Count(outbox, Token(k))
         /\ \A r \in Request :
              In(outbox', Message("reply", r)) <=> In(outbox, Message("reply", r))
<1>. DEFINE n == Cardinality(Running)
            l == Len(outbox)
<1>1. /\ n \in Nat /\ Running \subseteq Stream
      /\ \A k \in Running : \E i \in 1 .. n : order[i] = k
  BY OrderNamesAll, FS_CardinalityType DEF PortInv, PortTypeOK
<1>4. outbox \in Seq(Messages) /\ l \in Nat
  BY DEF PortInv, PortTypeOK
<1>5. /\ Len(outbox') \in Nat
      /\ outbox' \in Seq(Messages) /\ Len(outbox') = l + n + 1
      /\ \A i \in 1 .. l : outbox'[i] = outbox[i]
      /\ \A i \in 1 .. n : outbox'[l + i] = Ended(order[i])
      /\ outbox'[l + n + 1] = CloseReply
  BY <1>4 DEF Closes
<1>. HIDE DEF n, l
<1>6. ASSUME NEW j \in 1 .. Len(outbox')
      PROVE  \/ j \in 1 .. l /\ outbox'[j] = outbox[j]
             \/ j > l /\ \E k \in Running : outbox'[j] = Ended(k)
             \/ j = Len(outbox') /\ j > l /\ outbox'[j] = CloseReply
  <2>1. CASE j \in 1 .. l
    BY <1>5, <2>1
  <2>2. CASE j > l /\ j < l + n + 1
    <3>1. j - l \in 1 .. n /\ l + (j - l) = j
      BY <1>1, <1>4, <2>2
    <3>2. outbox'[j] = Ended(order[j - l])
      BY <1>5, <3>1
    <3>3. order[j - l] \in Running
      BY <3>1 DEF n
    <3>. QED  BY <2>2, <3>2, <3>3
  <2>3. CASE j = l + n + 1
    BY <1>1, <1>4, <1>5, <2>3
  <2>. QED  BY <1>1, <1>4, <1>5, <2>1, <2>2, <2>3
<1>7. /\ \A j, k \in Stream : Ended(j) # Token(k) /\ (Ended(j) = Ended(k) => j = k)
      /\ \A k \in Stream : CloseReply # Token(k) /\ CloseReply # Ended(k)
      /\ \A r \in Request : CloseReply # Message("reply", r)
      /\ \A k \in Stream, r \in Request : Ended(k) # Message("reply", r)
  BY PortBounds DEF Ended, Token, CloseReply, Message
<1>8. ASSUME NEW m, m # CloseReply, \A k \in Running : m # Ended(k)
      PROVE  Places(outbox', m) = Places(outbox, m)
  <2>1. ASSUME NEW j \in 1 .. Len(outbox'), outbox'[j] = m
        PROVE  j \in 1 .. l /\ outbox[j] = m
    BY <1>6, <1>8, <2>1
  <2>2. ASSUME NEW j \in 1 .. l, outbox[j] = m
        PROVE  j \in 1 .. Len(outbox') /\ outbox'[j] = m
    BY <1>1, <1>4, <1>5, <2>2
  <2>. QED  BY <2>1, <2>2 DEF Places, l
<1>9. \A s, m : In(s, m) <=> Places(s, m) # {}
  BY DEF In, Places
<1>10. \A k \in Stream : /\ In(outbox', Token(k)) <=> In(outbox, Token(k))
                         /\ Count(outbox', Token(k)) = Count(outbox, Token(k))
  <2>1. ASSUME NEW k \in Stream
        PROVE  Places(outbox', Token(k)) = Places(outbox, Token(k))
    BY <1>1, <1>7, <1>8
  <2>. QED  BY <1>9, <2>1 DEF Count
<1>11. \A r \in Request :
         In(outbox', Message("reply", r)) <=> In(outbox, Message("reply", r))
  <2>1. ASSUME NEW r \in Request
        PROVE  Places(outbox', Message("reply", r)) = Places(outbox, Message("reply", r))
    BY <1>1, <1>7, <1>8
  <2>. QED  BY <1>9, <2>1
<1>12. ASSUME NEW k \in Stream
       PROVE  In(outbox', Ended(k)) <=> In(outbox, Ended(k)) \/ k \in Running
  <2>1. ASSUME k \in Running PROVE In(outbox', Ended(k))
    <3>1. PICK i \in 1 .. n : order[i] = k
      BY <1>1, <2>1
    <3>2. l + i \in 1 .. Len(outbox') /\ outbox'[l + i] = Ended(k)
      BY <1>1, <1>4, <1>5, <3>1
    <3>. QED  BY <3>2 DEF In
  <2>2. ASSUME k \notin Running
        PROVE  Places(outbox', Ended(k)) = Places(outbox, Ended(k))
    BY <1>1, <1>7, <1>8, <2>2
  <2>3. ASSUME In(outbox, Ended(k)) PROVE In(outbox', Ended(k))
    <3>1. PICK i \in 1 .. l : outbox[i] = Ended(k)
      BY <1>4, <2>3 DEF In, l
    <3>2. i \in Int /\ 1 <= i /\ i <= l
      BY <1>4, <3>1
    <3>3. i \in 1 .. Len(outbox')
      BY <1>1, <1>4, <1>5, <3>2
    <3>4. outbox'[i] = Ended(k)
      BY <1>5, <3>1
    <3>. QED  BY <3>3, <3>4 DEF In
  <2>. QED  BY <1>9, <2>1, <2>2, <2>3
<1>13. In(outbox', CloseReply)
  <2>1. l + n + 1 \in 1 .. Len(outbox')
    BY <1>1, <1>4, <1>5
  <2>. QED  BY <1>5, <2>1 DEF In
<1>14. Behind(outbox', {CloseReply}, Messages)
  <2>1. ASSUME NEW i \in 1 .. Len(outbox'), outbox'[i] = CloseReply
        PROVE  i = Len(outbox')
    BY <1>1, <1>6, <1>7, <2>1 DEF In, l
  <2>2. Len(outbox') \in Nat
    BY <1>1, <1>4, <1>5
  <2>. QED  BY <2>1, <2>2 DEF Behind
<1>15. ASSUME NEW k \in Stream PROVE Behind(outbox', {Ended(k)}, {Token(k)})
  <2>1. ASSUME NEW i \in 1 .. Len(outbox'), NEW j \in 1 .. Len(outbox'), i < j,
               outbox'[i] = Ended(k), outbox'[j] = Token(k)
        PROVE  FALSE
    <3>1. j \in 1 .. l /\ outbox[j] = Token(k)
      BY <1>1, <1>6, <1>7, <2>1
    <3>2. i \in 1 .. l /\ outbox[i] = Ended(k)
      BY <1>4, <1>5, <2>1, <3>1
    <3>. QED  BY <2>1, <3>1, <3>2 DEF PortInv, Once, OnceFor, Behind, l
  <2>. QED  BY <2>1 DEF Behind
<1>. QED  BY <1>5, <1>10, <1>11, <1>12, <1>13, <1>14, <1>15 DEF OutboxOK

\* The worker closes: nothing it was asked is behind the close.
LEMMA ClosesKeeps ==
  ASSUME PortInv, WorkerCloses
  PROVE  PortInv'
<1>1. /\ worker = "up" /\ worker' = "gone" /\ Head(inbox).do = "close"
      /\ inbox # <<>> /\ inbox' = <<>>
  BY DEF WorkerCloses, Commanded
<1>2. /\ ready' = ready /\ _closing' = _closing /\ _closed' = _closed
      /\ portsOpen' = portsOpen
      /\ _pending' = _pending /\ _streams' = _streams /\ consumer' = consumer
      /\ settled' = settled
      /\ sent' = sent
  BY DEF WorkerCloses, main
<1>3. /\ In(inbox, CloseCommand) /\ _closing /\ ready = "ok"
      /\ ~In(outbox, CloseReply)
      /\ \A r \in Request : ~In(inbox, Command("request", r))
      /\ \A k \in Stream : ~In(inbox, Generate(k))
  BY <1>1, ClosingAsksNothing DEF PortInv, CloseIsLast, Lives
<1>4. InboxOK(inbox') /\ \A m : ~In(inbox', m)
  BY <1>1, InEmpty DEF InboxOK, Behind
<1>5. /\ Running' = {} /\ IsFiniteSet(Running')
      /\ running' \in [Running' -> [credit : BOOLEAN, cancelRequested : BOOLEAN,
                                    final : BOOLEAN]]
  BY FS_EmptySet DEF WorkerCloses, Running
<1>6. /\ OutboxOK(outbox')
      /\ In(outbox', CloseReply)
      /\ \A k \in Stream :
           /\ In(outbox', Ended(k)) <=> In(outbox, Ended(k)) \/ k \in Running
           /\ In(outbox', Token(k)) <=> In(outbox, Token(k))
           /\ Count(outbox', Token(k)) = Count(outbox, Token(k))
      /\ \A r \in Request :
           In(outbox', Message("reply", r)) <=> In(outbox, Message("reply", r))
  <2>. DEFINE n == Cardinality(Running)
  <2>1. PICK order \in [1 .. n -> Running] :
          /\ IsInjective(order)
          /\ Say([i \in DOMAIN order |-> Message("ended", order[i])]
                   \o <<Message("reply", Close)>>)
    BY DEF WorkerCloses
  <2>2. /\ outbox \in Seq(Messages) /\ n \in Nat
        /\ order \in [1 .. n -> Stream]
    BY FS_CardinalityType DEF PortInv, PortTypeOK
  <2>3. outbox' = outbox \o ([i \in 1 .. n |-> Ended(order[i])] \o <<CloseReply>>)
    BY <2>1 DEF Say, Ended, CloseReply
  <2>4. Closes(outbox, outbox', order, n)
    BY <2>2, <2>3, CloseSays
  <2>. QED  BY <1>3, <2>1, <2>4, LastWords
<1>7. PortTypeOK'
  BY <1>1, <1>2, <1>3, <1>4, <1>5, <1>6
  DEF PortInv, PortTypeOK, ClientTypeOK, Running, InboxOK, OutboxOK
<1>8. Lives'
  BY <1>1, <1>2, <1>3, <1>4, <1>5, <1>6
  DEF PortInv, Lives, Running
<1>9. CloseIsLast'
  BY <1>1, <1>2, <1>3, <1>4, <1>5, <1>6
  DEF PortInv, CloseIsLast, Lives, InboxOK, OutboxOK, MoreCommands, MoreMessages
<1>10. RepliesCome'
  BY <1>1, <1>2, <1>3, <1>4, <1>5, <1>6
  DEF PortInv, RepliesCome, Lost, MoreCommands, MoreMessages
<1>11. EndsCome'
  BY <1>1, <1>2, <1>3, <1>4, <1>5, <1>6
  DEF PortInv, EndsCome, Lost, Running, PortTypeOK, ClientTypeOK, MoreCommands,
      MoreMessages
<1>12. Registered'
  BY <1>2 DEF PortInv, Registered, RegisteredFor
<1>13. Once'
  BY <1>1, <1>2, <1>3, <1>4, <1>5, <1>6
  DEF PortInv, Once, OnceFor, Over, Running, Lives, InboxOK, OutboxOK,
      MoreCommands, MoreMessages
<1>14. Texts'
  BY <1>1, <1>2, <1>3, <1>4, <1>5, <1>6
  DEF PortInv, Texts, TextsFor, Once, OnceFor, Over, Running, MoreMessages
<1>15. Fed'
  BY <1>1, <1>2, <1>3, <1>4, <1>5, <1>6
  DEF PortInv, Fed, FedFor, Busy, Running, MoreCommands, MoreMessages
<1>. QED  BY <1>7, <1>8, <1>9, <1>10, <1>11, <1>12, <1>13, <1>14, <1>15 DEF PortInv

\* The worker says how its start went,
LEMMA SaysItStarted ==
  ASSUME PortInv, _workerMain, NEW x \in Messages, x.do \in {"ready", "notReady"},
         outbox' = outbox \o <<x>>
  PROVE  PortInv'
<1>1. /\ worker = "starting" /\ worker' \in {"up", "gone"}
  BY DEF _workerMain
<1>2. /\ ready' = ready /\ _closing' = _closing /\ _closed' = _closed
      /\ portsOpen' = portsOpen
      /\ _pending' = _pending /\ _streams' = _streams /\ consumer' = consumer
      /\ settled' = settled
      /\ inbox' = inbox /\ running' = running /\ sent' = sent
  BY DEF _workerMain, main
<1>3. Running = {}
  BY <1>1 DEF PortInv, Lives
<1>4. /\ OutboxOK(outbox') /\ MoreMessages(outbox', outbox, x)
      /\ ~In(outbox, CloseReply)
  BY <1>1, MessageIs, OutboxAdded
<1>5. PortTypeOK'
  BY <1>1, <1>2, <1>3, <1>4
  DEF PortInv, PortTypeOK, ClientTypeOK, Running, InboxOK, OutboxOK
<1>6. Lives'
  BY <1>1, <1>2, <1>3, <1>4
  DEF PortInv, Lives, Running
<1>7. CloseIsLast'
  BY <1>1, <1>2, <1>3, <1>4
  DEF PortInv, CloseIsLast, Lives, InboxOK, OutboxOK, MoreCommands, MoreMessages
<1>8. RepliesCome'
  BY <1>1, <1>2, <1>3, <1>4
  DEF PortInv, RepliesCome, Lost, MoreCommands, MoreMessages
<1>9. EndsCome'
  BY <1>1, <1>2, <1>3, <1>4
  DEF PortInv, EndsCome, Lost, Running, PortTypeOK, ClientTypeOK, MoreCommands,
      MoreMessages
<1>10. Registered'
  BY <1>2 DEF PortInv, Registered, RegisteredFor
<1>11. Once'
  BY <1>1, <1>2, <1>3, <1>4
  DEF PortInv, Once, OnceFor, Over, Running, Lives, InboxOK, OutboxOK,
      MoreCommands, MoreMessages
<1>12. Texts'
  BY <1>1, <1>2, <1>3, <1>4
  DEF PortInv, Texts, TextsFor, Once, OnceFor, Over, Running, MoreMessages
<1>13. Fed'
  BY <1>1, <1>2, <1>3, <1>4
  DEF PortInv, Fed, FedFor, Busy, Running, MoreCommands, MoreMessages
<1>. QED  BY <1>5, <1>6, <1>7, <1>8, <1>9, <1>10, <1>11, <1>12, <1>13 DEF PortInv

\* ... or dies before it can.
LEMMA StartsSilently ==
  ASSUME PortInv, _workerMain, outbox' = outbox, worker' = "gone"
  PROVE  PortInv'
<1>1. worker = "starting"
  BY DEF _workerMain
<1>2. /\ ready' = ready /\ _closing' = _closing /\ _closed' = _closed
      /\ portsOpen' = portsOpen
      /\ _pending' = _pending /\ _streams' = _streams /\ consumer' = consumer
      /\ settled' = settled
      /\ inbox' = inbox /\ running' = running /\ sent' = sent
  BY DEF _workerMain, main
<1>3. Running = {} /\ ~In(outbox, CloseReply)
  BY <1>1 DEF PortInv, Lives, CloseIsLast
<1>4. PortTypeOK'
  BY <1>1, <1>2, <1>3
  DEF PortInv, PortTypeOK, ClientTypeOK, Running, InboxOK, OutboxOK
<1>5. Lives'
  BY <1>1, <1>2, <1>3
  DEF PortInv, Lives, Running
<1>6. CloseIsLast'
  BY <1>1, <1>2, <1>3
  DEF PortInv, CloseIsLast, Lives, InboxOK, OutboxOK, MoreCommands, MoreMessages
<1>7. RepliesCome'
  BY <1>1, <1>2, <1>3
  DEF PortInv, RepliesCome, Lost, MoreCommands, MoreMessages
<1>8. EndsCome'
  BY <1>1, <1>2, <1>3
  DEF PortInv, EndsCome, Lost, Running, PortTypeOK, ClientTypeOK, MoreCommands,
      MoreMessages
<1>9. Registered'
  BY <1>2 DEF PortInv, Registered, RegisteredFor
<1>10. Once'
  BY <1>1, <1>2, <1>3
  DEF PortInv, Once, OnceFor, Over, Running, Lives, InboxOK, OutboxOK,
      MoreCommands, MoreMessages
<1>11. Texts'
  BY <1>1, <1>2, <1>3
  DEF PortInv, Texts, TextsFor, Once, OnceFor, Over, Running, MoreMessages
<1>12. Fed'
  BY <1>1, <1>2, <1>3
  DEF PortInv, Fed, FedFor, Busy, Running, MoreCommands, MoreMessages
<1>. QED  BY <1>4, <1>5, <1>6, <1>7, <1>8, <1>9, <1>10, <1>11, <1>12 DEF PortInv

\* Both are _workerMain.
LEMMA StartKeeps ==
  ASSUME PortInv, _workerMain
  PROVE  PortInv'
<1>1. \A do \in {"ready", "notReady"} :
        Message(do, Close) \in Messages /\ Message(do, Close).do = do
  BY DEF Message, Messages
<1>2. ASSUME NEW do \in {"ready", "notReady"}, Say(<<Message(do, Close)>>) PROVE PortInv'
  BY <1>1, <1>2, SaysItStarted DEF Say
<1>. QED  BY <1>2, StartsSilently DEF _workerMain

\* A stream's record is changed, and no other.
LEMMA SetOne ==
  ASSUME PortInv, NEW k \in Stream, NEW c \in Consumer, Set(k, c)
  PROVE  /\ consumer' \in [Stream -> Consumer] /\ consumer'[k] = c
         /\ \A j \in Stream \ {k} : consumer'[j] = consumer[j]
BY DEF Set, PortInv, PortTypeOK, ClientTypeOK

\* The calls.  A request is sent and awaited,
LEMMA RequestKeeps ==
  ASSUME PortInv, NEW r \in Request, _request(r), ~_closed, ~_closing,
         NEW x, x = Command("request", r)
  PROVE  PortInv'
<1>1. /\ _pending' = _pending \union {r} /\ inbox' = Append(inbox, x)
      /\ ready = "ok"
  BY DEF _request, Live
<1>2. /\ ready' = ready /\ _closing' = _closing /\ _closed' = _closed
      /\ portsOpen' = portsOpen
      /\ _streams' = _streams /\ consumer' = consumer /\ settled' = settled
      /\ outbox' = outbox
      /\ worker' = worker /\ running' = running /\ sent' = sent
  BY DEF _request
<1>3. x \in Commands /\ x.do = "request" /\ x.id = r
  BY DEF Command, Commands
<1>4. InboxOK(inbox') /\ MoreCommands(inbox', inbox, x)
  BY <1>1, <1>3, CommandIs, InboxAdded
<1>5. portsOpen
  BY <1>1 DEF PortInv, Lives
<1>6. PortTypeOK'
  BY <1>1, <1>2, <1>3, <1>4, <1>5
  DEF PortInv, PortTypeOK, ClientTypeOK, Running, InboxOK, OutboxOK
<1>7. Lives'
  BY <1>1, <1>2, <1>3, <1>4, <1>5
  DEF PortInv, Lives, Running
<1>8. CloseIsLast'
  BY <1>1, <1>2, <1>3, <1>4, <1>5
  DEF PortInv, CloseIsLast, Lives, InboxOK, OutboxOK, MoreCommands, MoreMessages
<1>9. RepliesCome'
  BY <1>1, <1>2, <1>3, <1>4, <1>5
  DEF PortInv, RepliesCome, Lost, MoreCommands, MoreMessages
<1>10. EndsCome'
  BY <1>1, <1>2, <1>3, <1>4, <1>5
  DEF PortInv, EndsCome, Lost, Running, PortTypeOK, ClientTypeOK, MoreCommands,
      MoreMessages
<1>11. Registered'
  BY <1>2 DEF PortInv, Registered, RegisteredFor
<1>12. Once'
  BY <1>1, <1>2, <1>3, <1>4, <1>5
  DEF PortInv, Once, OnceFor, Over, Running, Lives, InboxOK, OutboxOK,
      MoreCommands, MoreMessages
<1>13. Texts'
  BY <1>1, <1>2, <1>3, <1>4, <1>5
  DEF PortInv, Texts, TextsFor, Once, OnceFor, Over, Running, MoreMessages
<1>14. Fed'
  BY <1>1, <1>2, <1>3, <1>4, <1>5
  DEF PortInv, Fed, FedFor, Busy, Running, MoreCommands, MoreMessages
<1>. QED  BY <1>6, <1>7, <1>8, <1>9, <1>10, <1>11, <1>12, <1>13, <1>14 DEF PortInv

\* ... or refused.
LEMMA RequestFails ==
  ASSUME PortInv, NEW r \in Request, _request(r), _closed \/ _closing
  PROVE  PortInv'
<1>1. /\ settled' \in [Request \union {Close} -> {"no", "ok", "failed"}]
      /\ settled[Close] # "no" => settled'[Close] # "no"
  BY PortBounds DEF _request, PortInv, PortTypeOK, ClientTypeOK
<1>2. /\ ready' = ready /\ _closing' = _closing /\ _closed' = _closed
      /\ portsOpen' = portsOpen
      /\ _pending' = _pending /\ _streams' = _streams /\ consumer' = consumer
      /\ inbox' = inbox
      /\ outbox' = outbox /\ worker' = worker /\ running' = running
      /\ sent' = sent
  BY DEF _request
<1>3. PortTypeOK'
  BY <1>1, <1>2
  DEF PortInv, PortTypeOK, ClientTypeOK, Running, InboxOK, OutboxOK
<1>4. Lives'
  BY <1>1, <1>2
  DEF PortInv, Lives, Running
<1>5. CloseIsLast'
  BY <1>1, <1>2
  DEF PortInv, CloseIsLast, Lives, InboxOK, OutboxOK, MoreCommands, MoreMessages
<1>6. RepliesCome'
  BY <1>1, <1>2
  DEF PortInv, RepliesCome, Lost, MoreCommands, MoreMessages
<1>7. EndsCome'
  BY <1>1, <1>2
  DEF PortInv, EndsCome, Lost, Running, PortTypeOK, ClientTypeOK, MoreCommands,
      MoreMessages
<1>8. Registered'
  BY <1>2 DEF PortInv, Registered, RegisteredFor
<1>9. Once'
  BY <1>1, <1>2
  DEF PortInv, Once, OnceFor, Over, Running, Lives, InboxOK, OutboxOK,
      MoreCommands, MoreMessages
<1>10. Texts'
  BY <1>1, <1>2
  DEF PortInv, Texts, TextsFor, Once, OnceFor, Over, Running, MoreMessages
<1>11. Fed'
  BY <1>1, <1>2
  DEF PortInv, Fed, FedFor, Busy, Running, MoreCommands, MoreMessages
<1>. QED  BY <1>3, <1>4, <1>5, <1>6, <1>7, <1>8, <1>9, <1>10, <1>11 DEF PortInv

\* Close is the last request,
LEMMA CloseKeeps ==
  ASSUME PortInv, close, ~_closed,
         NEW x, x = Command("close", Close)
  PROVE  PortInv'
<1>1. /\ _pending' = _pending \union {Close} /\ inbox' = Append(inbox, x)
      /\ ready = "ok" /\ _closing' = TRUE /\ settled[Close] = "no" /\ Close \notin _pending
  BY DEF close, Live
<1>2. /\ ready' = ready /\ _closed' = _closed /\ portsOpen' = portsOpen
      /\ _streams' = _streams
      /\ consumer' = consumer /\ settled' = settled /\ outbox' = outbox
      /\ worker' = worker
      /\ running' = running /\ sent' = sent
  BY DEF close
<1>3. x \in Commands /\ x.do = "close" /\ x = CloseCommand
  BY DEF Command, Commands, CloseCommand
<1>4. ~_closing /\ portsOpen
  BY <1>1 DEF PortInv, Lives
<1>5. InboxOK(inbox') /\ MoreCommands(inbox', inbox, x)
  BY <1>1, <1>3, <1>4, CommandIs, InboxAdded
<1>6. \A r \in Request : r # Close
  BY PortBounds
<1>7. PortTypeOK'
  BY <1>1, <1>2, <1>3, <1>4, <1>5, <1>6
  DEF PortInv, PortTypeOK, ClientTypeOK, Running, InboxOK, OutboxOK
<1>8. Lives'
  BY <1>1, <1>2, <1>3, <1>4, <1>5, <1>6
  DEF PortInv, Lives, Running
<1>9. CloseIsLast'
  BY <1>1, <1>2, <1>3, <1>4, <1>5, <1>6
  DEF PortInv, CloseIsLast, Lives, InboxOK, OutboxOK, MoreCommands, MoreMessages
<1>10. RepliesCome'
  BY <1>1, <1>2, <1>3, <1>4, <1>5, <1>6
  DEF PortInv, RepliesCome, Lost, MoreCommands, MoreMessages
<1>11. EndsCome'
  BY <1>1, <1>2, <1>3, <1>4, <1>5, <1>6
  DEF PortInv, EndsCome, Lost, Running, PortTypeOK, ClientTypeOK, MoreCommands,
      MoreMessages
<1>12. Registered'
  BY <1>2 DEF PortInv, Registered, RegisteredFor
<1>13. Once'
  BY <1>1, <1>2, <1>3, <1>4, <1>5, <1>6
  DEF PortInv, Once, OnceFor, Over, Running, Lives, InboxOK, OutboxOK,
      MoreCommands, MoreMessages
<1>14. Texts'
  BY <1>1, <1>2, <1>3, <1>4, <1>5, <1>6
  DEF PortInv, Texts, TextsFor, Once, OnceFor, Over, Running, MoreMessages
<1>15. Fed'
  BY <1>1, <1>2, <1>3, <1>4, <1>5, <1>6
  DEF PortInv, Fed, FedFor, Busy, Running, MoreCommands, MoreMessages
<1>. QED  BY <1>7, <1>8, <1>9, <1>10, <1>11, <1>12, <1>13, <1>14, <1>15 DEF PortInv

\* ... or has nothing left to do.
LEMMA CloseAgainKeeps ==
  ASSUME PortInv, close, _closed
  PROVE  PortInv'
<1>1. /\ settled' \in [Request \union {Close} -> {"no", "ok", "failed"}]
      /\ settled[Close] # "no" => settled'[Close] # "no"
  BY DEF close, PortInv, PortTypeOK, ClientTypeOK
<1>2. /\ ready' = ready /\ _closing' = _closing /\ _closed' = _closed
      /\ portsOpen' = portsOpen
      /\ _pending' = _pending /\ _streams' = _streams /\ consumer' = consumer
      /\ inbox' = inbox
      /\ outbox' = outbox /\ worker' = worker /\ running' = running
      /\ sent' = sent
  BY DEF close
<1>3. PortTypeOK'
  BY <1>1, <1>2
  DEF PortInv, PortTypeOK, ClientTypeOK, Running, InboxOK, OutboxOK
<1>4. Lives'
  BY <1>1, <1>2
  DEF PortInv, Lives, Running
<1>5. CloseIsLast'
  BY <1>1, <1>2
  DEF PortInv, CloseIsLast, Lives, InboxOK, OutboxOK, MoreCommands, MoreMessages
<1>6. RepliesCome'
  BY <1>1, <1>2
  DEF PortInv, RepliesCome, Lost, MoreCommands, MoreMessages
<1>7. EndsCome'
  BY <1>1, <1>2
  DEF PortInv, EndsCome, Lost, Running, PortTypeOK, ClientTypeOK, MoreCommands,
      MoreMessages
<1>8. Registered'
  BY <1>2 DEF PortInv, Registered, RegisteredFor
<1>9. Once'
  BY <1>1, <1>2
  DEF PortInv, Once, OnceFor, Over, Running, Lives, InboxOK, OutboxOK,
      MoreCommands, MoreMessages
<1>10. Texts'
  BY <1>1, <1>2
  DEF PortInv, Texts, TextsFor, Once, OnceFor, Over, Running, MoreMessages
<1>11. Fed'
  BY <1>1, <1>2
  DEF PortInv, Fed, FedFor, Busy, Running, MoreCommands, MoreMessages
<1>. QED  BY <1>3, <1>4, <1>5, <1>6, <1>7, <1>8, <1>9, <1>10, <1>11 DEF PortInv

\* A stream is registered and its command sent,
LEMMA ListenKeeps ==
  ASSUME PortInv, NEW k \in Stream, onListen(k), ~_closed, ~_closing,
         NEW x, x = Command("generate", k),
         NEW c, c = [NewConsumer EXCEPT !.listened = TRUE]
  PROVE  PortInv'
<1>1. ~consumer[k].listened /\ consumer[k] = NewConsumer
  BY DEF onListen, PortInv, Once, OnceFor
<1>2. /\ _streams' = _streams \union {k} /\ inbox' = Append(inbox, x)
      /\ ready = "ok" /\ Set(k, c)
  BY <1>1 DEF onListen, Live
<1>3. /\ ready' = ready /\ _closing' = _closing /\ _closed' = _closed
      /\ portsOpen' = portsOpen
      /\ _pending' = _pending /\ settled' = settled /\ outbox' = outbox
      /\ worker' = worker
      /\ running' = running /\ sent' = sent
  BY DEF onListen
<1>4. x \in Commands /\ x.do = "generate" /\ x.id = k /\ x = Generate(k)
  BY DEF Command, Commands, Generate
<1>5. /\ Over(k) /\ ~In(outbox, Token(k)) /\ ~In(outbox, Ended(k)) /\ sent[k] = 0
      /\ ~In(inbox, Generate(k))
  BY <1>1 DEF PortInv, Once, OnceFor, Over
<1>6. InboxOK(inbox') /\ MoreCommands(inbox', inbox, x)
  BY <1>2, <1>4, <1>5, CommandIs, InboxAdded
<1>7. /\ c \in Consumer /\ c.listened /\ ~c.cancelled /\ ~c.finished /\ ~c.done
      /\ ~c.paused /\ c.buffer = <<>> /\ c.tokens = 0 /\ c.end = "no"
      /\ ~c.cancelWaits
  <2>1. NewConsumer \in Consumer
    BY PortBounds DEF NewConsumer, Consumer
  <2>. QED  BY <2>1 DEF NewConsumer, Consumer
<1>8. /\ consumer' \in [Stream -> Consumer] /\ consumer'[k] = c
      /\ \A j \in Stream \ {k} : consumer'[j] = consumer[j]
  BY <1>2, <1>7, SetOne
<1>9. portsOpen
  BY <1>2 DEF PortInv, Lives
<1>10. PortTypeOK'
  BY <1>1, <1>2, <1>3, <1>4, <1>5, <1>6, <1>7, <1>8, <1>9
  DEF PortInv, PortTypeOK, ClientTypeOK, Running, InboxOK, OutboxOK
<1>11. Lives'
  BY <1>1, <1>2, <1>3, <1>4, <1>5, <1>6, <1>7, <1>8, <1>9
  DEF PortInv, Lives, Running
<1>12. CloseIsLast'
  BY <1>1, <1>2, <1>3, <1>4, <1>5, <1>6, <1>7, <1>8, <1>9
  DEF PortInv, CloseIsLast, Lives, InboxOK, OutboxOK, MoreCommands, MoreMessages
<1>13. RepliesCome'
  BY <1>1, <1>2, <1>3, <1>4, <1>5, <1>6, <1>7, <1>8, <1>9
  DEF PortInv, RepliesCome, Lost, MoreCommands, MoreMessages
<1>14. EndsCome'
  BY <1>1, <1>2, <1>3, <1>4, <1>5, <1>6, <1>7, <1>8, <1>9
  DEF PortInv, EndsCome, Lost, Running, PortTypeOK, ClientTypeOK, MoreCommands,
      MoreMessages
<1>15. Registered'
  <2>8. ASSUME NEW j \in Stream, j # k PROVE RegisteredFor(j)'
    BY <1>1, <1>2, <1>3, <1>4, <1>5, <1>6, <1>7, <1>8, <1>9, <2>8
    DEF PortInv, Registered, RegisteredFor
  <2>9. RegisteredFor(k)'
    BY <1>1, <1>2, <1>3, <1>4, <1>5, <1>6, <1>7, <1>8, <1>9
    DEF PortInv, Registered, RegisteredFor
  <2>. QED  BY <2>8, <2>9 DEF Registered
<1>16. Once'
  <2>8. ASSUME NEW j \in Stream, j # k PROVE OnceFor(j)'
    BY <1>1, <1>2, <1>3, <1>4, <1>5, <1>6, <1>7, <1>8, <1>9, <2>8
    DEF PortInv, Once, OnceFor, Over, Running, Lives, InboxOK, OutboxOK,
        MoreCommands, MoreMessages
  <2>9. OnceFor(k)'
    BY <1>1, <1>2, <1>3, <1>4, <1>5, <1>6, <1>7, <1>8, <1>9
    DEF PortInv, Once, OnceFor, Over, Running, Lives, InboxOK, OutboxOK,
        MoreCommands, MoreMessages
  <2>. QED  BY <2>8, <2>9 DEF Once
<1>17. Texts'
  <2>1. Count(c.buffer, "token") = 0 /\ \A m : ~In(c.buffer, m)
    BY <1>7, CountEmpty, InEmpty
  <2>2. Behind(c.buffer, {"ended", "failed"}, EventKind)
    BY <1>7 DEF Behind
  <2>3. Count(outbox, Token(k)) = 0
    BY <1>5, CountNone DEF PortInv, PortTypeOK
  <2>8. ASSUME NEW j \in Stream, j # k PROVE TextsFor(j)'
    BY <1>1, <1>2, <1>3, <1>4, <1>5, <1>6, <1>7, <1>8, <1>9, <2>8
    DEF PortInv, Texts, TextsFor, Once, OnceFor, Over, Running, MoreMessages
  <2>9. TextsFor(k)'
    BY <1>1, <1>2, <1>3, <1>4, <1>5, <1>6, <1>7, <1>8, <1>9, <2>1, <2>2, <2>3
    DEF PortInv, Texts, TextsFor, Once, OnceFor, Over, Running, MoreMessages,
        Reached, Orderly
  <2>. QED  BY <2>8, <2>9 DEF Texts
<1>18. Fed'
  BY <1>1, <1>2, <1>3, <1>4, <1>5, <1>6, <1>7, <1>8, <1>9
  DEF PortInv, Fed, FedFor, Busy, Running, MoreCommands, MoreMessages
<1>. QED  BY <1>10, <1>11, <1>12, <1>13, <1>14, <1>15, <1>16, <1>17, <1>18 DEF PortInv

\* ... or it is over before it began.
LEMMA ListenFails ==
  ASSUME PortInv, NEW k \in Stream, onListen(k), _closed \/ _closing,
         NEW c, c = [NewConsumer EXCEPT !.listened = TRUE, !.finished = TRUE,
                                        !.done = TRUE, !.end = "failed"]
  PROVE  PortInv'
<1>1. ~consumer[k].listened /\ consumer[k] = NewConsumer
  BY DEF onListen, PortInv, Once, OnceFor
<1>2. ready = "ok" /\ Set(k, c)
  BY <1>1 DEF onListen, Live, Hear, NewConsumer
<1>3. /\ ready' = ready /\ _closing' = _closing /\ _closed' = _closed
      /\ portsOpen' = portsOpen
      /\ _pending' = _pending /\ _streams' = _streams /\ settled' = settled
      /\ inbox' = inbox
      /\ outbox' = outbox /\ worker' = worker /\ running' = running
      /\ sent' = sent
  BY DEF onListen
<1>4. /\ Over(k) /\ ~In(outbox, Token(k)) /\ ~In(outbox, Ended(k)) /\ sent[k] = 0
      /\ ~In(inbox, Generate(k)) /\ k \notin _streams
  BY <1>1 DEF PortInv, Once, OnceFor, Over, Registered, RegisteredFor
<1>5. /\ c \in Consumer /\ c.listened /\ ~c.cancelled /\ c.finished /\ c.done
      /\ ~c.paused /\ c.buffer = <<>> /\ c.tokens = 0 /\ c.end = "failed"
      /\ ~c.cancelWaits
  <2>1. NewConsumer \in Consumer
    BY PortBounds DEF NewConsumer, Consumer
  <2>. QED  BY <2>1 DEF NewConsumer, Consumer
<1>6. /\ consumer' \in [Stream -> Consumer] /\ consumer'[k] = c
      /\ \A j \in Stream \ {k} : consumer'[j] = consumer[j]
  BY <1>2, <1>5, SetOne
<1>7. PortTypeOK'
  BY <1>1, <1>2, <1>3, <1>4, <1>5, <1>6
  DEF PortInv, PortTypeOK, ClientTypeOK, Running, InboxOK, OutboxOK
<1>8. Lives'
  BY <1>1, <1>2, <1>3, <1>4, <1>5, <1>6
  DEF PortInv, Lives, Running
<1>9. CloseIsLast'
  BY <1>1, <1>2, <1>3, <1>4, <1>5, <1>6
  DEF PortInv, CloseIsLast, Lives, InboxOK, OutboxOK, MoreCommands, MoreMessages
<1>10. RepliesCome'
  BY <1>1, <1>2, <1>3, <1>4, <1>5, <1>6
  DEF PortInv, RepliesCome, Lost, MoreCommands, MoreMessages
<1>11. EndsCome'
  BY <1>1, <1>2, <1>3, <1>4, <1>5, <1>6
  DEF PortInv, EndsCome, Lost, Running, PortTypeOK, ClientTypeOK, MoreCommands,
      MoreMessages
<1>12. Registered'
  <2>8. ASSUME NEW j \in Stream, j # k PROVE RegisteredFor(j)'
    BY <1>1, <1>2, <1>3, <1>4, <1>5, <1>6, <2>8
    DEF PortInv, Registered, RegisteredFor
  <2>9. RegisteredFor(k)'
    BY <1>1, <1>2, <1>3, <1>4, <1>5, <1>6
    DEF PortInv, Registered, RegisteredFor
  <2>. QED  BY <2>8, <2>9 DEF Registered
<1>13. Once'
  <2>8. ASSUME NEW j \in Stream, j # k PROVE OnceFor(j)'
    BY <1>1, <1>2, <1>3, <1>4, <1>5, <1>6, <2>8
    DEF PortInv, Once, OnceFor, Over, Running, Lives, InboxOK, OutboxOK,
        MoreCommands, MoreMessages
  <2>9. OnceFor(k)'
    BY <1>1, <1>2, <1>3, <1>4, <1>5, <1>6
    DEF PortInv, Once, OnceFor, Over, Running, Lives, InboxOK, OutboxOK,
        MoreCommands, MoreMessages
  <2>. QED  BY <2>8, <2>9 DEF Once
<1>14. Texts'
  <2>1. Count(c.buffer, "token") = 0 /\ \A m : ~In(c.buffer, m)
    BY <1>5, CountEmpty, InEmpty
  <2>2. Behind(c.buffer, {"ended", "failed"}, EventKind)
    BY <1>5 DEF Behind
  <2>8. ASSUME NEW j \in Stream, j # k PROVE TextsFor(j)'
    BY <1>1, <1>2, <1>3, <1>4, <1>5, <1>6, <2>8
    DEF PortInv, Texts, TextsFor, Once, OnceFor, Over, Running, MoreMessages
  <2>9. TextsFor(k)'
    BY <1>1, <1>2, <1>3, <1>4, <1>5, <1>6, <2>1, <2>2
    DEF PortInv, Texts, TextsFor, Once, OnceFor, Over, Running, MoreMessages,
        Reached, Orderly
  <2>. QED  BY <2>8, <2>9 DEF Texts
<1>15. Fed'
  <2>8. ASSUME NEW j \in Stream, j # k PROVE FedFor(j)'
    BY <1>1, <1>2, <1>3, <1>4, <1>5, <1>6, <2>8
    DEF PortInv, Fed, FedFor, Busy, Running, MoreCommands, MoreMessages
  <2>9. FedFor(k)'
    BY <1>1, <1>2, <1>3, <1>4, <1>5, <1>6
    DEF PortInv, Fed, FedFor, Busy, Running, MoreCommands, MoreMessages
  <2>. QED  BY <2>8, <2>9 DEF Fed
<1>. QED  BY <1>7, <1>8, <1>9, <1>10, <1>11, <1>12, <1>13, <1>14, <1>15 DEF PortInv

\* A listener that did not cancel heard something, and n texts reached it.
Heard(k, b, n) ==
    /\ b \in Consumer /\ Orderly(b, sent[k]) /\ Reached(b) = n
    /\ b.listened = consumer[k].listened /\ b.done = consumer[k].done
    /\ b.finished = consumer[k].finished /\ ~b.cancelled
    /\ b.cancelWaits = consumer[k].cancelWaits

\* What a reaction to that tells the worker.
Tells(k, b, reaction) ==
    inbox' = inbox \o
      (CASE reaction = "goOn" -> IF b.buffer = <<>> THEN CreditCommand(k, b) ELSE <<>>
         [] reaction = "pause" -> <<>>
         [] reaction = "cancel" -> CancelCommand(k, b))

\* What onCancel makes of a consumer.
LEMMA CancelledIs ==
  ASSUME PortInv, NEW b \in Consumer, NEW c, c = Cancelled(b)
  PROVE  /\ c \in Consumer
         /\ c.buffer = <<>> /\ c.cancelled /\ c.end = b.end
         /\ c.listened = b.listened
         /\ c.done = b.done /\ c.finished = b.finished /\ c.tokens = b.tokens
         /\ c.cancelWaits = (~b.finished /\ ~_closed)
<1>1. b.finished \in BOOLEAN /\ _closed \in BOOLEAN
  BY DEF Consumer, PortInv, PortTypeOK, ClientTypeOK
<1>. DEFINE waits == ~b.finished /\ ~_closed
            none == <<>>
<1>2. waits \in BOOLEAN /\ none \in Seq(EventKind)
  OBVIOUS
<1>3. c = [b EXCEPT !.cancelled = TRUE, !.buffer = none, !.cancelWaits = waits]
  BY DEF Cancelled
<1>. HIDE DEF waits, none
<1>4. c \in Consumer
  BY <1>2, <1>3 DEF Consumer
<1>5. /\ c.buffer = none /\ c.cancelled = TRUE /\ c.cancelWaits = waits
      /\ c.end = b.end /\ c.listened = b.listened
      /\ c.done = b.done /\ c.finished = b.finished /\ c.tokens = b.tokens
  BY <1>3 DEF Consumer
<1>. QED  BY <1>4, <1>5 DEF waits, none

\* A listener that hears an event goes on, pauses or cancels.
LEMMA ReactedIs ==
  ASSUME PortInv, NEW b \in Consumer, ~b.cancelled, NEW n, Orderly(b, n), n \in Nat,
         NEW reaction \in Reaction, b.end # "no" => reaction = "goOn",
         NEW c, c = React(b, reaction)
  PROVE  /\ c \in Consumer /\ Orderly(c, n)
         /\ c.listened = b.listened /\ c.done = b.done /\ c.finished = b.finished
         /\ c.cancelled <=> reaction = "cancel"
         /\ ~c.cancelled => Reached(c) = Reached(b) /\ c.cancelWaits = b.cancelWaits
         /\ c.cancelled => c.cancelWaits = (~b.finished /\ ~_closed)
         /\ ~c.cancelled /\ ~Busy(c) => reaction = "goOn" /\ b.buffer = <<>>
<1>1. CASE reaction = "goOn"
  <2>1. c = b
    BY <1>1 DEF React
  <2>. QED  BY <1>1, <2>1 DEF Busy
<1>2. CASE reaction = "pause"
  <2>1. c = [b EXCEPT !.paused = TRUE]
    BY <1>2 DEF React
  <2>2. /\ c \in Consumer /\ c.paused = TRUE /\ c.buffer = b.buffer
        /\ c.tokens = b.tokens
        /\ c.listened = b.listened /\ c.done = b.done /\ c.finished = b.finished
        /\ c.cancelled = b.cancelled /\ c.end = b.end
        /\ c.cancelWaits = b.cancelWaits
    BY <2>1 DEF Consumer
  <2>3. Reached(c) = Reached(b)
    BY <2>2 DEF Reached
  <2>4. Orderly(c, n)
    BY <2>2, <2>3 DEF Orderly
  <2>. QED  BY <1>2, <2>2, <2>3, <2>4 DEF Busy
<1>3. CASE reaction = "cancel"
  <2>1. c = Cancelled(b) /\ b.end = "no"
    BY <1>3 DEF React
  <2>2. /\ c \in Consumer
        /\ c.buffer = <<>> /\ c.cancelled /\ c.end = "no"
        /\ c.listened = b.listened
        /\ c.done = b.done /\ c.finished = b.finished /\ c.tokens = b.tokens
        /\ c.cancelWaits = (~b.finished /\ ~_closed)
    BY <2>1, CancelledIs
  <2>3. Count(c.buffer, "token") = 0 /\ \A m : ~In(c.buffer, m)
    BY <2>2, CountEmpty, InEmpty
  <2>4. Behind(c.buffer, {"ended", "failed"}, EventKind)
    BY <2>2 DEF Behind
  <2>5. b.tokens \in Nat /\ Count(b.buffer, "token") \in Nat
    BY PlacesFinite, PortBounds DEF Consumer
  <2>6. Reached(c) = b.tokens /\ Reached(b) = b.tokens + Count(b.buffer, "token")
    BY <2>2, <2>3, <2>5 DEF Reached
  <2>7. Reached(c) <= n
    BY <2>5, <2>6 DEF Orderly
  <2>8. Orderly(c, n)
    BY <2>2, <2>3, <2>4, <2>7 DEF Orderly
  <2>. QED  BY <1>3, <2>2, <2>8
<1>. QED  BY <1>1, <1>2, <1>3 DEF Reaction

\* What a reaction tells the worker.
LEMMA ReactionTells ==
  ASSUME PortInv, NEW k \in Stream, NEW b \in Consumer, ~b.cancelled,
         NEW reaction \in Reaction, Tells(k, b, reaction)
  PROVE  /\ InboxOK(inbox')
         /\ \A j \in Stream :
              /\ In(inbox', Generate(j)) <=> In(inbox, Generate(j))
              /\ In(inbox, Command("credit", j)) => In(inbox', Command("credit", j))
         /\ reaction = "goOn" /\ b.buffer = <<>> /\ ~b.finished =>
              In(inbox', Command("credit", k))
         /\ \A r \in Request :
              In(inbox', Command("request", r)) <=> In(inbox, Command("request", r))
         /\ \A m \in Asking : In(inbox', m) => In(inbox, m)
         /\ In(inbox', CloseCommand) => In(inbox, CloseCommand)
<1>. DEFINE xs == CASE reaction = "goOn" -> IF b.buffer = <<>>
                                               THEN CreditCommand(k, b) ELSE <<>>
                     [] reaction = "pause" -> <<>>
                     [] reaction = "cancel" -> CancelCommand(k, b)
<1>1. xs \in {<<>>, <<Command("credit", k)>>, <<Command("cancelStream", k)>>}
  BY DEF Reaction, CreditCommand, CancelCommand
<1>2. reaction = "goOn" /\ b.buffer = <<>> /\ ~b.finished => xs = <<Command("credit", k)>>
  BY DEF CreditCommand
<1>3. inbox' = inbox \o xs
  BY DEF Tells
<1>. HIDE DEF xs
<1>. QED  BY <1>1, <1>2, <1>3, InboxTold

\* What a listener hears of its buffer's first event.
LEMMA HeardIs ==
  ASSUME PortInv, NEW k \in Stream, consumer[k].end = "no", ~consumer[k].cancelled,
         consumer[k].buffer # <<>>,
         NEW b, b = Hear([consumer[k] EXCEPT !.buffer = Tail(@)], Head(consumer[k].buffer))
  PROVE  Heard(k, b, Reached(consumer[k]))
<1>. DEFINE c == consumer[k]
            e == Head(c.buffer)
            rest == Tail(c.buffer)
<1>1. c \in Consumer /\ c.buffer \in Seq(EventKind) /\ c.tokens \in 0 .. MaxTokens
      /\ sent[k] \in 0 .. MaxTokens
  BY DEF Consumer, PortInv, PortTypeOK, ClientTypeOK
<1>2. /\ rest \in Seq(EventKind) /\ e \in EventKind
      /\ \A m : In(c.buffer, m) <=> m = e \/ In(rest, m)
      /\ Behind(c.buffer, {"ended", "failed"}, EventKind) <=>
           /\ Behind(rest, {"ended", "failed"}, EventKind)
           /\ e \in {"ended", "failed"} => \A m \in EventKind : ~In(rest, m)
      /\ Count(c.buffer, "token") =
           Count(rest, "token") + (IF "token" = e THEN 1 ELSE 0)
  BY <1>1, TailTakes DEF Taken
<1>3. Count(rest, "token") \in Nat /\ Count(c.buffer, "token") \in Nat
  BY <1>1, <1>2, PlacesFinite
<1>4. Orderly(c, sent[k])
  BY DEF PortInv, Texts, TextsFor
<1>. HIDE DEF c, e, rest
<1>5. CASE e = "token"
  <2>1. b = [c EXCEPT !.buffer = rest, !.tokens = @ + 1]
    BY <1>1, <1>5 DEF Hear, Consumer, c, e, rest
  <2>2. Reached(c) = c.tokens + Count(rest, "token") + 1 /\ Reached(c) <= sent[k]
    <3>1. Count(c.buffer, "token") = Count(rest, "token") + 1
      BY <1>2, <1>5
    <3>2. Reached(c) <= sent[k]
      BY <1>4 DEF Orderly
    <3>3. Reached(c) = c.tokens + Count(c.buffer, "token")
      BY DEF Reached
    <3>4. c.tokens \in Int
      BY <1>1, PortBounds
    <3>. QED  BY <1>3, <3>1, <3>2, <3>3, <3>4
  <2>3. c.tokens + 1 \in 0 .. MaxTokens
    BY <1>1, <1>3, <2>2, PortBounds
  <2>4. /\ b \in Consumer /\ b.buffer = rest /\ b.tokens = c.tokens + 1
        /\ b.listened = c.listened /\ b.done = c.done /\ b.finished = c.finished
        /\ b.cancelled = c.cancelled /\ b.end = c.end
        /\ b.cancelWaits = c.cancelWaits
    BY <1>1, <1>2, <2>1, <2>3 DEF Consumer
  <2>5. Reached(b) = Reached(c)
    <3>1. Reached(b) = c.tokens + 1 + Count(rest, "token")
      BY <2>4 DEF Reached
    <3>. QED  BY <1>1, <1>3, <2>2, <3>1, PortBounds
  <2>6. Orderly(b, sent[k])
    BY <1>2, <1>4, <2>4, <2>5 DEF Orderly, c
  <2>. QED  BY <2>4, <2>5, <2>6 DEF c, Heard
<1>6. CASE e \in {"ended", "failed"}
  <2>1. b = [c EXCEPT !.buffer = rest, !.end = e]
    BY <1>1, <1>6 DEF Hear, Consumer, c, e, rest
  <2>2. rest = <<>> /\ \A m : ~In(rest, m)
    <3>1. \A m \in EventKind : ~In(rest, m)
      BY <1>2, <1>4, <1>6 DEF Orderly
    <3>2. ASSUME rest # <<>> PROVE FALSE
      <4>1. Head(rest) \in EventKind /\ In(rest, Head(rest))
        BY <1>2, <3>2, TailTakes DEF Taken
      <4>. QED  BY <3>1, <4>1
    <3>. QED  BY <3>2, InEmpty
  <2>3. /\ b \in Consumer /\ b.buffer = rest /\ b.tokens = c.tokens
        /\ b.listened = c.listened /\ b.done = c.done /\ b.finished = c.finished
        /\ b.cancelled = c.cancelled /\ b.end = e /\ b.cancelWaits = c.cancelWaits
    BY <1>1, <1>2, <1>6, <2>1 DEF Consumer
  <2>4. Reached(b) = Reached(c)
    BY <1>1, <1>2, <1>3, <1>6, <2>3 DEF Reached
  <2>5. c.done /\ (e = "ended" => Reached(c) = sent[k])
    BY <1>2, <1>4, <1>6 DEF Orderly
  <2>6. Orderly(b, sent[k])
    BY <1>2, <1>4, <1>6, <2>2, <2>3, <2>4, <2>5 DEF Orderly, c
  <2>. QED  BY <2>3, <2>4, <2>6 DEF c, Heard
<1>. QED  BY <1>2, <1>5, <1>6 DEF EventKind

\* A paused listener is owed no credit.
LEMMA PauseKeeps ==
  ASSUME PortInv, NEW k \in Stream, pause(k),
         NEW c, c = [consumer[k] EXCEPT !.paused = TRUE]
  PROVE  PortInv'
<1>1. /\ consumer[k] \in Consumer /\ consumer[k].listened /\ ~consumer[k].cancelled
      /\ consumer[k].end = "no" /\ ready = "ok"
  BY DEF pause, Subscribed, PortInv, PortTypeOK, ClientTypeOK, Lives
<1>2. /\ ready' = ready /\ _closing' = _closing /\ _closed' = _closed
      /\ portsOpen' = portsOpen
      /\ _pending' = _pending /\ _streams' = _streams /\ settled' = settled
      /\ inbox' = inbox
      /\ outbox' = outbox /\ worker' = worker /\ running' = running
      /\ sent' = sent
  BY DEF pause
<1>3. /\ c \in Consumer /\ c.listened /\ ~c.cancelled /\ c.end = "no"
      /\ c.done = consumer[k].done /\ c.finished = consumer[k].finished
      /\ c.tokens = consumer[k].tokens /\ c.buffer = consumer[k].buffer
      /\ c.cancelWaits = consumer[k].cancelWaits /\ c.paused = TRUE
  BY <1>1 DEF Consumer
<1>4. /\ consumer' \in [Stream -> Consumer] /\ consumer'[k] = c
      /\ \A j \in Stream \ {k} : consumer'[j] = consumer[j]
  BY <1>3, SetOne DEF pause
<1>5. PortTypeOK'
  BY <1>1, <1>2, <1>3, <1>4
  DEF PortInv, PortTypeOK, ClientTypeOK, Running, InboxOK, OutboxOK
<1>6. Lives'
  BY <1>1, <1>2, <1>3, <1>4
  DEF PortInv, Lives, Running
<1>7. CloseIsLast'
  BY <1>1, <1>2, <1>3, <1>4
  DEF PortInv, CloseIsLast, Lives, InboxOK, OutboxOK, MoreCommands, MoreMessages
<1>8. RepliesCome'
  BY <1>1, <1>2, <1>3, <1>4
  DEF PortInv, RepliesCome, Lost, MoreCommands, MoreMessages
<1>9. EndsCome'
  BY <1>1, <1>2, <1>3, <1>4
  DEF PortInv, EndsCome, Lost, Running, PortTypeOK, ClientTypeOK, MoreCommands,
      MoreMessages
<1>10. Registered'
  <2>8. ASSUME NEW j \in Stream, j # k PROVE RegisteredFor(j)'
    BY <1>1, <1>2, <1>4, <2>8
    DEF PortInv, Registered, RegisteredFor
  <2>9. RegisteredFor(k)'
    BY <1>1, <1>2, <1>3, <1>4
    DEF PortInv, Registered, RegisteredFor
  <2>. QED  BY <2>8, <2>9 DEF Registered
<1>11. Once'
  <2>8. ASSUME NEW j \in Stream, j # k PROVE OnceFor(j)'
    BY <1>1, <1>2, <1>4, <2>8
    DEF PortInv, Once, OnceFor, Over, Running, Lives, InboxOK, OutboxOK,
        MoreCommands, MoreMessages
  <2>9. OnceFor(k)'
    BY <1>1, <1>2, <1>3, <1>4
    DEF PortInv, Once, OnceFor, Over, Running, Lives, InboxOK, OutboxOK,
        MoreCommands, MoreMessages
  <2>. QED  BY <2>8, <2>9 DEF Once
<1>12. Texts'
  <2>8. ASSUME NEW j \in Stream, j # k PROVE TextsFor(j)'
    BY <1>1, <1>2, <1>4, <2>8
    DEF PortInv, Texts, TextsFor, Once, OnceFor, Over, Running, MoreMessages
  <2>9. TextsFor(k)'
    BY <1>1, <1>2, <1>3, <1>4
    DEF PortInv, Texts, TextsFor, Once, OnceFor, Over, Running, MoreMessages,
        Reached, Orderly
  <2>. QED  BY <2>8, <2>9 DEF Texts
<1>13. Fed'
  <2>8. ASSUME NEW j \in Stream, j # k PROVE FedFor(j)'
    BY <1>1, <1>2, <1>4, <2>8
    DEF PortInv, Fed, FedFor, Busy, Running, MoreCommands, MoreMessages
  <2>9. FedFor(k)'
    BY <1>1, <1>2, <1>3, <1>4
    DEF PortInv, Fed, FedFor, Busy, Running, MoreCommands, MoreMessages
  <2>. QED  BY <2>8, <2>9 DEF Fed
<1>. QED  BY <1>5, <1>6, <1>7, <1>8, <1>9, <1>10, <1>11, <1>12, <1>13 DEF PortInv

\* A resumed one is, unless events wait in its buffer.
LEMMA ResumeKeeps ==
  ASSUME PortInv, NEW k \in Stream, resume(k),
         NEW c, c = [consumer[k] EXCEPT !.paused = FALSE]
  PROVE  PortInv'
<1>1. /\ consumer[k] \in Consumer /\ consumer[k].listened /\ ~consumer[k].cancelled
      /\ consumer[k].end = "no" /\ ready = "ok"
  BY DEF resume, Subscribed, PortInv, PortTypeOK, ClientTypeOK, Lives
<1>2. /\ ready' = ready /\ _closing' = _closing /\ _closed' = _closed
      /\ portsOpen' = portsOpen
      /\ _pending' = _pending /\ _streams' = _streams /\ settled' = settled
      /\ outbox' = outbox
      /\ worker' = worker /\ running' = running /\ sent' = sent
  BY DEF resume
<1>3. /\ c \in Consumer /\ c.listened /\ ~c.cancelled /\ c.end = "no"
      /\ c.done = consumer[k].done /\ c.finished = consumer[k].finished
      /\ c.tokens = consumer[k].tokens /\ c.buffer = consumer[k].buffer
      /\ c.cancelWaits = consumer[k].cancelWaits /\ c.paused = FALSE
  BY <1>1 DEF Consumer
<1>4. /\ consumer' \in [Stream -> Consumer] /\ consumer'[k] = c
      /\ \A j \in Stream \ {k} : consumer'[j] = consumer[j]
  BY <1>3, SetOne DEF resume
<1>5. /\ InboxOK(inbox')
      /\ \A j \in Stream :
           /\ In(inbox', Generate(j)) <=> In(inbox, Generate(j))
           /\ In(inbox, Command("credit", j)) => In(inbox', Command("credit", j))
      /\ c.buffer = <<>> /\ ~c.finished => In(inbox', Command("credit", k))
      /\ \A r \in Request :
           In(inbox', Command("request", r)) <=> In(inbox, Command("request", r))
      /\ \A m \in Asking : In(inbox', m) => In(inbox, m)
      /\ In(inbox', CloseCommand) => In(inbox, CloseCommand)
  <2>. DEFINE xs == IF consumer[k].buffer = <<>> THEN CreditCommand(k, consumer[k]) ELSE <<>>
  <2>1. xs \in {<<>>, <<Command("credit", k)>>, <<Command("cancelStream", k)>>}
    BY DEF CreditCommand
  <2>2. inbox' = inbox \o xs
    BY DEF resume
  <2>3. c.buffer = <<>> /\ ~c.finished => xs = <<Command("credit", k)>>
    BY <1>1, <1>3 DEF CreditCommand, Consumer
  <2>. HIDE DEF xs
  <2>. QED  BY <2>1, <2>2, <2>3, InboxTold
<1>6. PortTypeOK'
  BY <1>1, <1>2, <1>3, <1>4, <1>5
  DEF PortInv, PortTypeOK, ClientTypeOK, Running, InboxOK, OutboxOK
<1>7. Lives'
  BY <1>1, <1>2, <1>3, <1>4, <1>5
  DEF PortInv, Lives, Running
<1>8. CloseIsLast'
  BY <1>1, <1>2, <1>3, <1>4, <1>5
  DEF PortInv, CloseIsLast, Lives, InboxOK, OutboxOK, MoreCommands, MoreMessages
<1>9. RepliesCome'
  BY <1>1, <1>2, <1>3, <1>4, <1>5
  DEF PortInv, RepliesCome, Lost, MoreCommands, MoreMessages
<1>10. EndsCome'
  BY <1>1, <1>2, <1>3, <1>4, <1>5
  DEF PortInv, EndsCome, Lost, Running, PortTypeOK, ClientTypeOK, MoreCommands,
      MoreMessages
<1>11. Registered'
  <2>8. ASSUME NEW j \in Stream, j # k PROVE RegisteredFor(j)'
    BY <1>1, <1>2, <1>4, <1>5, <2>8
    DEF PortInv, Registered, RegisteredFor
  <2>9. RegisteredFor(k)'
    BY <1>1, <1>2, <1>3, <1>4, <1>5
    DEF PortInv, Registered, RegisteredFor
  <2>. QED  BY <2>8, <2>9 DEF Registered
<1>12. Once'
  <2>8. ASSUME NEW j \in Stream, j # k PROVE OnceFor(j)'
    BY <1>1, <1>2, <1>4, <1>5, <2>8
    DEF PortInv, Once, OnceFor, Over, Running, Lives, InboxOK, OutboxOK,
        MoreCommands, MoreMessages
  <2>9. OnceFor(k)'
    BY <1>1, <1>2, <1>3, <1>4, <1>5
    DEF PortInv, Once, OnceFor, Over, Running, Lives, InboxOK, OutboxOK,
        MoreCommands, MoreMessages
  <2>. QED  BY <2>8, <2>9 DEF Once
<1>13. Texts'
  <2>8. ASSUME NEW j \in Stream, j # k PROVE TextsFor(j)'
    BY <1>1, <1>2, <1>4, <1>5, <2>8
    DEF PortInv, Texts, TextsFor, Once, OnceFor, Over, Running, MoreMessages
  <2>9. TextsFor(k)'
    BY <1>1, <1>2, <1>3, <1>4, <1>5
    DEF PortInv, Texts, TextsFor, Once, OnceFor, Over, Running, MoreMessages,
        Reached, Orderly
  <2>. QED  BY <2>8, <2>9 DEF Texts
<1>14. Fed'
  <2>8. ASSUME NEW j \in Stream, j # k PROVE FedFor(j)'
    BY <1>1, <1>2, <1>4, <1>5, <2>8
    DEF PortInv, Fed, FedFor, Busy, Running, MoreCommands, MoreMessages
  <2>9. FedFor(k)'
    BY <1>1, <1>2, <1>3, <1>4, <1>5
    DEF PortInv, Fed, FedFor, Busy, Running, MoreCommands, MoreMessages,
        Registered, RegisteredFor, Once, OnceFor, Over, Lives
  <2>. QED  BY <2>8, <2>9 DEF Fed
<1>. QED  BY <1>6, <1>7, <1>8, <1>9, <1>10, <1>11, <1>12, <1>13, <1>14 DEF PortInv

\* A cancelled consumer waits for the worker, if the worker is not done.
LEMMA CancelKeeps ==
  ASSUME PortInv, NEW k \in Stream, onCancel(k),
         NEW c, c = Cancelled(consumer[k])
  PROVE  PortInv'
<1>1. /\ consumer[k] \in Consumer /\ consumer[k].listened /\ ~consumer[k].cancelled
      /\ consumer[k].end = "no" /\ ready = "ok"
  BY DEF onCancel, Subscribed, PortInv, PortTypeOK, ClientTypeOK, Lives
<1>2. /\ ready' = ready /\ _closing' = _closing /\ _closed' = _closed
      /\ portsOpen' = portsOpen
      /\ _pending' = _pending /\ _streams' = _streams /\ settled' = settled
      /\ outbox' = outbox
      /\ worker' = worker /\ running' = running /\ sent' = sent
  BY DEF onCancel
<1>3. /\ c \in Consumer /\ c.buffer = <<>> /\ c.cancelled /\ c.end = "no"
      /\ c.listened
      /\ c.done = consumer[k].done /\ c.finished = consumer[k].finished
      /\ c.tokens = consumer[k].tokens
      /\ c.cancelWaits = (~c.finished /\ ~_closed)
  BY <1>1, CancelledIs
<1>4. /\ consumer' \in [Stream -> Consumer] /\ consumer'[k] = c
      /\ \A j \in Stream \ {k} : consumer'[j] = consumer[j]
  BY <1>3, SetOne DEF onCancel
<1>5. /\ InboxOK(inbox')
      /\ \A j \in Stream :
           /\ In(inbox', Generate(j)) <=> In(inbox, Generate(j))
           /\ In(inbox, Command("credit", j)) => In(inbox', Command("credit", j))
      /\ FALSE => In(inbox', Command("credit", k))
      /\ \A r \in Request :
           In(inbox', Command("request", r)) <=> In(inbox, Command("request", r))
      /\ \A m \in Asking : In(inbox', m) => In(inbox, m)
      /\ In(inbox', CloseCommand) => In(inbox, CloseCommand)
  <2>1. CancelCommand(k, consumer[k]) \in
          {<<>>, <<Command("credit", k)>>, <<Command("cancelStream", k)>>}
    BY DEF CancelCommand
  <2>2. inbox' = inbox \o CancelCommand(k, consumer[k])
    BY DEF onCancel
  <2>. QED  BY <2>1, <2>2, InboxTold
<1>6. PortTypeOK'
  BY <1>1, <1>2, <1>3, <1>4, <1>5
  DEF PortInv, PortTypeOK, ClientTypeOK, Running, InboxOK, OutboxOK
<1>7. Lives'
  BY <1>1, <1>2, <1>3, <1>4, <1>5
  DEF PortInv, Lives, Running
<1>8. CloseIsLast'
  BY <1>1, <1>2, <1>3, <1>4, <1>5
  DEF PortInv, CloseIsLast, Lives, InboxOK, OutboxOK, MoreCommands, MoreMessages
<1>9. RepliesCome'
  BY <1>1, <1>2, <1>3, <1>4, <1>5
  DEF PortInv, RepliesCome, Lost, MoreCommands, MoreMessages
<1>10. EndsCome'
  BY <1>1, <1>2, <1>3, <1>4, <1>5
  DEF PortInv, EndsCome, Lost, Running, PortTypeOK, ClientTypeOK, MoreCommands,
      MoreMessages
<1>11. Registered'
  <2>8. ASSUME NEW j \in Stream, j # k PROVE RegisteredFor(j)'
    BY <1>1, <1>2, <1>4, <1>5, <2>8
    DEF PortInv, Registered, RegisteredFor
  <2>9. RegisteredFor(k)'
    BY <1>1, <1>2, <1>3, <1>4, <1>5
    DEF PortInv, Registered, RegisteredFor
  <2>. QED  BY <2>8, <2>9 DEF Registered
<1>12. Once'
  <2>8. ASSUME NEW j \in Stream, j # k PROVE OnceFor(j)'
    BY <1>1, <1>2, <1>4, <1>5, <2>8
    DEF PortInv, Once, OnceFor, Over, Running, Lives, InboxOK, OutboxOK,
        MoreCommands, MoreMessages
  <2>9. OnceFor(k)'
    BY <1>1, <1>2, <1>3, <1>4, <1>5
    DEF PortInv, Once, OnceFor, Over, Running, Lives, InboxOK, OutboxOK,
        MoreCommands, MoreMessages, Registered, RegisteredFor
  <2>. QED  BY <2>8, <2>9 DEF Once
<1>13. Texts'
  <2>1. Count(c.buffer, "token") = 0 /\ \A m : ~In(c.buffer, m)
    BY <1>3, CountEmpty, InEmpty
  <2>2. Behind(c.buffer, {"ended", "failed"}, EventKind)
    BY <1>3 DEF Behind
  <2>3. Reached(consumer[k]) \in Nat /\ Count(consumer[k].buffer, "token") \in Nat
    BY ReachedIsNat
  <2>4. Reached(consumer[k])' = consumer[k].tokens
    BY <1>3, <1>4, <2>1, <2>3 DEF Reached, Consumer
  <2>5. Reached(consumer[k])' <= sent[k] /\ sent'[k] = sent[k]
    BY <1>1, <1>2, <2>3, <2>4, PortBounds
    DEF PortInv, PortTypeOK, Texts, TextsFor, Orderly, Reached, Consumer
  <2>8. ASSUME NEW j \in Stream, j # k PROVE TextsFor(j)'
    BY <1>1, <1>2, <1>4, <1>5, <2>8
    DEF PortInv, Texts, TextsFor, Once, OnceFor, Over, Running, MoreMessages
  <2>9. TextsFor(k)'
    BY <1>1, <1>2, <1>3, <1>4, <1>5, <2>1, <2>2, <2>3, <2>4, <2>5
    DEF PortInv, Texts, TextsFor, Once, OnceFor, Over, Running, MoreMessages,
        Reached, Orderly
  <2>. QED  BY <2>8, <2>9 DEF Texts
<1>14. Fed'
  <2>8. ASSUME NEW j \in Stream, j # k PROVE FedFor(j)'
    BY <1>1, <1>2, <1>4, <1>5, <2>8
    DEF PortInv, Fed, FedFor, Busy, Running, MoreCommands, MoreMessages
  <2>9. FedFor(k)'
    BY <1>1, <1>2, <1>3, <1>4, <1>5
    DEF PortInv, Fed, FedFor, Busy, Running, MoreCommands, MoreMessages
  <2>. QED  BY <2>8, <2>9 DEF Fed
<1>. QED  BY <1>6, <1>7, <1>8, <1>9, <1>10, <1>11, <1>12, <1>13, <1>14 DEF PortInv

\* A buffered event is delivered, and the listener reacts.
LEMMA FlushKeeps ==
  ASSUME PortInv, NEW k \in Stream, Flush(k), NEW b, Heard(k, b, Reached(consumer[k])),
         NEW reaction \in Reaction, b.end # "no" => reaction = "goOn",
         NEW c, c = React(b, reaction), Set(k, c), Tells(k, b, reaction)
  PROVE  PortInv'
<1>1. /\ consumer[k] \in Consumer /\ consumer[k].listened /\ ~consumer[k].cancelled
      /\ consumer[k].end = "no" /\ ready = "ok"
  BY DEF Flush, Subscribed, PortInv, PortTypeOK, ClientTypeOK, Lives
<1>2. /\ ready' = ready /\ _closing' = _closing /\ _closed' = _closed
      /\ portsOpen' = portsOpen
      /\ _pending' = _pending /\ _streams' = _streams /\ settled' = settled
      /\ outbox' = outbox
      /\ worker' = worker /\ running' = running /\ sent' = sent
  BY DEF Flush
<1>3. /\ b \in Consumer /\ Orderly(b, sent[k]) /\ Reached(b) = Reached(consumer[k])
      /\ b.listened = consumer[k].listened /\ b.done = consumer[k].done
      /\ b.finished = consumer[k].finished /\ ~b.cancelled
      /\ b.cancelWaits = consumer[k].cancelWaits
  BY DEF Heard
<1>4. /\ c \in Consumer /\ Orderly(c, sent[k])
      /\ c.listened /\ c.done = consumer[k].done /\ c.finished = consumer[k].finished
      /\ ~c.cancelled => /\ Reached(c) = Reached(consumer[k])
                         /\ c.cancelWaits = consumer[k].cancelWaits
      /\ c.cancelled => c.cancelWaits = (~c.finished /\ ~_closed)
      /\ ~c.cancelled /\ ~Busy(c) => reaction = "goOn" /\ b.buffer = <<>>
  <2>1. sent[k] \in Nat
    BY PortBounds DEF PortInv, PortTypeOK
  <2>2. /\ c \in Consumer /\ Orderly(c, sent[k])
        /\ c.listened = b.listened /\ c.done = b.done /\ c.finished = b.finished
        /\ ~c.cancelled => Reached(c) = Reached(b) /\ c.cancelWaits = b.cancelWaits
        /\ c.cancelled => c.cancelWaits = (~b.finished /\ ~_closed)
        /\ ~c.cancelled /\ ~Busy(c) => reaction = "goOn" /\ b.buffer = <<>>
    BY <1>3, <2>1, ReactedIs
  <2>. QED  BY <1>1, <1>3, <2>2
<1>5. /\ consumer' \in [Stream -> Consumer] /\ consumer'[k] = c
      /\ \A j \in Stream \ {k} : consumer'[j] = consumer[j]
  BY <1>4, SetOne
<1>6. /\ InboxOK(inbox')
      /\ \A j \in Stream :
           /\ In(inbox', Generate(j)) <=> In(inbox, Generate(j))
           /\ In(inbox, Command("credit", j)) => In(inbox', Command("credit", j))
      /\ reaction = "goOn" /\ b.buffer = <<>> /\ ~b.finished => In(inbox', Command("credit", k))
      /\ \A r \in Request :
           In(inbox', Command("request", r)) <=> In(inbox, Command("request", r))
      /\ \A m \in Asking : In(inbox', m) => In(inbox, m)
      /\ In(inbox', CloseCommand) => In(inbox, CloseCommand)
  BY <1>3, ReactionTells
<1>7. PortTypeOK'
  BY <1>1, <1>2, <1>3, <1>4, <1>5, <1>6
  DEF PortInv, PortTypeOK, ClientTypeOK, Running, InboxOK, OutboxOK
<1>8. Lives'
  BY <1>1, <1>2, <1>3, <1>4, <1>5, <1>6
  DEF PortInv, Lives, Running
<1>9. CloseIsLast'
  BY <1>1, <1>2, <1>3, <1>4, <1>5, <1>6
  DEF PortInv, CloseIsLast, Lives, InboxOK, OutboxOK, MoreCommands, MoreMessages
<1>10. RepliesCome'
  BY <1>1, <1>2, <1>3, <1>4, <1>5, <1>6
  DEF PortInv, RepliesCome, Lost, MoreCommands, MoreMessages
<1>11. EndsCome'
  BY <1>1, <1>2, <1>3, <1>4, <1>5, <1>6
  DEF PortInv, EndsCome, Lost, Running, PortTypeOK, ClientTypeOK, MoreCommands,
      MoreMessages
<1>12. Registered'
  <2>8. ASSUME NEW j \in Stream, j # k PROVE RegisteredFor(j)'
    BY <1>1, <1>2, <1>5, <1>6, <2>8
    DEF PortInv, Registered, RegisteredFor
  <2>9. RegisteredFor(k)'
    BY <1>1, <1>2, <1>3, <1>4, <1>5, <1>6
    DEF PortInv, Registered, RegisteredFor
  <2>. QED  BY <2>8, <2>9 DEF Registered
<1>13. Once'
  <2>8. ASSUME NEW j \in Stream, j # k PROVE OnceFor(j)'
    BY <1>1, <1>2, <1>5, <1>6, <2>8
    DEF PortInv, Once, OnceFor, Over, Running, Lives, InboxOK, OutboxOK,
        MoreCommands, MoreMessages
  <2>9. OnceFor(k)'
    BY <1>1, <1>2, <1>3, <1>4, <1>5, <1>6
    DEF PortInv, Once, OnceFor, Over, Running, Lives, InboxOK, OutboxOK,
        MoreCommands, MoreMessages, Registered, RegisteredFor
  <2>. QED  BY <2>8, <2>9 DEF Once
<1>14. Texts'
  <2>8. ASSUME NEW j \in Stream, j # k PROVE TextsFor(j)'
    BY <1>1, <1>2, <1>5, <1>6, <2>8
    DEF PortInv, Texts, TextsFor, Once, OnceFor, Over, Running, MoreMessages
  <2>9. TextsFor(k)'
    BY <1>1, <1>2, <1>3, <1>4, <1>5, <1>6
    DEF PortInv, Texts, TextsFor, Once, OnceFor, Over, Running, MoreMessages
  <2>. QED  BY <2>8, <2>9 DEF Texts
<1>15. Fed'
  <2>8. ASSUME NEW j \in Stream, j # k PROVE FedFor(j)'
    BY <1>1, <1>2, <1>5, <1>6, <2>8
    DEF PortInv, Fed, FedFor, Busy, Running, MoreCommands, MoreMessages
  <2>9. FedFor(k)'
    BY <1>1, <1>2, <1>3, <1>4, <1>5, <1>6
    DEF PortInv, Fed, FedFor, Busy, Running, MoreCommands, MoreMessages,
        Registered, RegisteredFor, Once, OnceFor, Over, Lives
  <2>. QED  BY <2>8, <2>9 DEF Fed
<1>. QED  BY <1>7, <1>8, <1>9, <1>10, <1>11, <1>12, <1>13, <1>14, <1>15 DEF PortInv

\* Flush in full.
LEMMA FlushedKeeps ==
  ASSUME PortInv, NEW k \in Stream, Flush(k)
  PROVE  PortInv'
<1>. DEFINE b == Hear([consumer[k] EXCEPT !.buffer = Tail(@)], Head(consumer[k].buffer))
<1>1. /\ consumer[k].end = "no" /\ ~consumer[k].cancelled /\ consumer[k].buffer # <<>>
  BY DEF Flush, Subscribed
<1>2. Heard(k, b, Reached(consumer[k]))
  BY <1>1, HeardIs
<1>3. PICK reaction \in Reaction : /\ b.end # "no" => reaction = "goOn"
                                   /\ Set(k, React(b, reaction))
                                   /\ Tells(k, b, reaction)
  BY DEF Flush, Tells
<1>. HIDE DEF b
<1>. QED  BY <1>2, <1>3, FlushKeeps

\* The worker's next text reaches a listener that keeps up.
LEMMA TokenIsHeard ==
  ASSUME PortInv, NEW k \in Stream, k \in _streams, ~consumer[k].cancelled,
         ~Busy(consumer[k]), Reached(consumer[k]) < sent[k],
         NEW b, b = Hear(consumer[k], "token")
  PROVE  Heard(k, b, Reached(consumer[k]) + 1) /\ b.end = "no" /\ b.buffer = <<>>
<1>1. /\ consumer[k] \in Consumer /\ consumer[k].tokens \in 0 .. MaxTokens
      /\ sent[k] \in 0 .. MaxTokens
  BY DEF Consumer, PortInv, PortTypeOK, ClientTypeOK
<1>2. /\ consumer[k].buffer = <<>> /\ Orderly(consumer[k], sent[k]) /\ ~consumer[k].done
  BY DEF Busy, PortInv, Texts, TextsFor, Registered, RegisteredFor
<1>3. Count(consumer[k].buffer, "token") = 0
  BY <1>2, CountEmpty
<1>4. Reached(consumer[k]) = consumer[k].tokens
  BY <1>1, <1>3 DEF Reached
<1>5. consumer[k].tokens + 1 \in 0 .. MaxTokens
  BY <1>1, <1>4, PortBounds
<1>6. b = [consumer[k] EXCEPT !.tokens = @ + 1]
  BY DEF Hear
<1>7. /\ b \in Consumer /\ b.buffer = consumer[k].buffer /\ b.tokens = consumer[k].tokens + 1
      /\ b.listened = consumer[k].listened /\ b.done = consumer[k].done
      /\ b.finished = consumer[k].finished /\ b.cancelled = consumer[k].cancelled
      /\ b.end = consumer[k].end /\ b.cancelWaits = consumer[k].cancelWaits
  BY <1>1, <1>5, <1>6 DEF Consumer
<1>8. Reached(b) = Reached(consumer[k]) + 1 /\ Reached(b) <= sent[k]
  BY <1>1, <1>3, <1>4, <1>7 DEF Reached
<1>9. consumer[k].end = "no"
  BY <1>2, <1>7 DEF Orderly, Consumer
<1>10. Orderly(b, sent[k])
  <2>1. Behind(b.buffer, {"ended", "failed"}, EventKind)
    BY <1>2, <1>7 DEF Orderly
  <2>2. \A m : ~In(b.buffer, m)
    BY <1>2, <1>7, InEmpty
  <2>. QED  BY <1>2, <1>7, <1>8, <1>9, <2>1, <2>2 DEF Orderly
<1>. QED  BY <1>2, <1>7, <1>8, <1>9, <1>10 DEF Heard

\* ... or its controller's buffer.
LEMMA TokenIsBuffered ==
  ASSUME PortInv, NEW k \in Stream, k \in _streams, ~consumer[k].cancelled,
         Busy(consumer[k]), Reached(consumer[k]) < sent[k],
         NEW b, b = Add(consumer[k], "token")
  PROVE  Heard(k, b, Reached(consumer[k]) + 1) /\ Busy(b)
<1>. DEFINE c == consumer[k]
            buffer == Append(c.buffer, "token")
<1>1. /\ c \in Consumer /\ c.tokens \in 0 .. MaxTokens
      /\ c.buffer \in Seq(EventKind)
      /\ sent[k] \in 0 .. MaxTokens
  BY DEF Consumer, PortInv, PortTypeOK, ClientTypeOK
<1>2. Orderly(c, sent[k]) /\ ~c.done
  BY DEF PortInv, Texts, TextsFor, Registered, RegisteredFor
<1>3. /\ buffer \in Seq(EventKind) /\ buffer # <<>>
      /\ Added(c.buffer, "token", buffer)
  BY <1>1, AppendAdds DEF EventKind
<1>4. b = [c EXCEPT !.buffer = buffer]
  BY DEF Add
<1>. HIDE DEF c, buffer
<1>5. /\ b \in Consumer /\ b.buffer = buffer /\ b.tokens = c.tokens
      /\ b.listened = c.listened /\ b.done = c.done /\ b.finished = c.finished
      /\ b.cancelled = c.cancelled /\ b.end = c.end
      /\ b.cancelWaits = c.cancelWaits
  BY <1>1, <1>3, <1>4 DEF Consumer
<1>6. Count(buffer, "token") = Count(c.buffer, "token") + 1
      /\ Count(c.buffer, "token") \in Nat
  BY <1>1, <1>3, PlacesFinite DEF Added
<1>7. Reached(b) = Reached(c) + 1 /\ Reached(b) <= sent[k]
  <2>1. Reached(b) = c.tokens + Count(buffer, "token")
    BY <1>5 DEF Reached
  <2>2. Reached(c) = c.tokens + Count(c.buffer, "token")
    BY DEF Reached
  <2>3. Reached(c) < sent[k] /\ c.tokens \in Int /\ sent[k] \in Int
    BY <1>1, PortBounds DEF c
  <2>. QED  BY <1>6, <2>1, <2>2, <2>3
<1>8. /\ \A m : In(b.buffer, m) <=> In(c.buffer, m) \/ m = "token"
      /\ Behind(b.buffer, {"ended", "failed"}, EventKind)
  <2>1. Behind(c.buffer, {"ended", "failed"}, EventKind)
        /\ \A m \in {"ended", "failed"} : ~In(c.buffer, m)
    BY <1>2 DEF Orderly
  <2>. QED  BY <1>3, <1>5, <2>1 DEF Added
<1>9. Orderly(b, sent[k]) /\ b.cancelled = FALSE
  BY <1>1, <1>2, <1>5, <1>7, <1>8 DEF Orderly, Consumer, c
<1>. QED  BY <1>3, <1>5, <1>7, <1>9 DEF Heard, Busy, c

\* What a stream's last event makes of its consumer.
Last(k, e) ==
    LET over == [consumer[k] EXCEPT !.finished = TRUE, !.done = TRUE]
    IN  IF consumer[k].cancelled THEN over ELSE Add(over, e)

\* A consumer that heard, or buffered, its terminal event.
LEMMA EndIs ==
  ASSUME PortInv, NEW k \in Stream, k \in _streams, NEW e \in {"ended", "failed"},
         \/ e = "failed" \/ consumer[k].cancelled \/ Reached(consumer[k]) = sent[k],
         NEW b, b = Last(k, e)
  PROVE  /\ b \in Consumer /\ Orderly(b, sent[k])
         /\ b.listened /\ b.done /\ b.finished = b.done
         /\ b.cancelled = consumer[k].cancelled
         /\ b.cancelWaits = consumer[k].cancelWaits
<1>. DEFINE c == consumer[k]
            buffer == Append(c.buffer, e)
            over == [consumer[k] EXCEPT !.finished = TRUE, !.done = TRUE]
<1>0. b = IF consumer[k].cancelled THEN over ELSE Add(over, e)
  BY DEF Last
<1>1. /\ c \in Consumer /\ c.buffer \in Seq(EventKind)
  BY DEF Consumer, PortInv, PortTypeOK, ClientTypeOK
<1>2. Orderly(c, sent[k]) /\ ~c.done /\ c.listened
  BY DEF PortInv, Texts, TextsFor, Registered, RegisteredFor
<1>3. /\ buffer \in Seq(EventKind) /\ Added(c.buffer, e, buffer)
  BY <1>1, AppendAdds DEF EventKind
<1>. HIDE DEF c
<1>4. /\ over \in Consumer /\ over.done /\ over.finished = over.done
      /\ over.tokens = c.tokens /\ over.buffer = c.buffer
      /\ over.paused = c.paused
      /\ over.listened = c.listened /\ over.cancelled = c.cancelled
      /\ over.end = c.end /\ over.cancelWaits = c.cancelWaits
  BY <1>1 DEF Consumer, c
<1>. HIDE DEF over
<1>5. Reached(over) = Reached(c) /\ Orderly(over, sent[k])
  BY <1>2, <1>4 DEF Orderly, Reached
<1>6. CASE c.cancelled
  BY <1>0, <1>2, <1>4, <1>5, <1>6 DEF c
<1>7. CASE ~c.cancelled /\ Busy(over)
  <2>1. b = [over EXCEPT !.buffer = buffer]
    BY <1>0, <1>4, <1>7 DEF Add, c
  <2>. HIDE DEF buffer
  <2>2. /\ b \in Consumer /\ b.done /\ b.finished = b.done /\ b.buffer = buffer
        /\ b.tokens = c.tokens /\ b.listened = c.listened
        /\ b.cancelled = c.cancelled
        /\ b.end = c.end /\ b.cancelWaits = c.cancelWaits
    BY <1>3, <1>4, <2>1 DEF Consumer
  <2>3. Count(buffer, "token") = Count(c.buffer, "token")
    <3>1. Count(buffer, "token") = Count(c.buffer, "token") + 0
      BY <1>3 DEF Added
    <3>2. Count(c.buffer, "token") \in Nat
      BY <1>1, PlacesFinite
    <3>. QED  BY <3>1, <3>2
  <2>4. Reached(b) = Reached(c)
    BY <2>2, <2>3 DEF Reached
  <2>5. /\ \A m : In(b.buffer, m) <=> In(c.buffer, m) \/ m = e
        /\ Behind(b.buffer, {"ended", "failed"}, EventKind)
    <3>1. Behind(c.buffer, {"ended", "failed"}, EventKind)
          /\ \A m \in {"ended", "failed"} : ~In(c.buffer, m)
      BY <1>2 DEF Orderly
    <3>. QED  BY <1>3, <2>2, <3>1 DEF Added
  <2>6. ~In(c.buffer, "ended") /\ c.end = "no" /\ Reached(c) <= sent[k]
    BY <1>1, <1>2 DEF Orderly, Consumer
  <2>7. Orderly(b, sent[k])
    BY <1>2, <1>7, <2>2, <2>4, <2>5, <2>6 DEF Orderly, c
  <2>. QED  BY <1>2, <2>2, <2>7 DEF c
<1>8. CASE ~c.cancelled /\ ~Busy(over)
  <2>1. b = [over EXCEPT !.end = e]
    BY <1>0, <1>4, <1>8 DEF Add, Hear, c
  <2>2. /\ b \in Consumer /\ b.done /\ b.finished = b.done /\ b.buffer = c.buffer
        /\ b.tokens = c.tokens /\ b.listened = c.listened
        /\ b.cancelled = c.cancelled
        /\ b.end = e /\ b.cancelWaits = c.cancelWaits
    BY <1>4, <2>1 DEF Consumer
  <2>3. Reached(b) = Reached(c)
    BY <2>2 DEF Reached
  <2>4. c.buffer = <<>> /\ \A m : ~In(c.buffer, m)
    BY <1>4, <1>8, InEmpty DEF Busy
  <2>5. Orderly(b, sent[k])
    BY <1>2, <1>8, <2>2, <2>3, <2>4 DEF Orderly, c
  <2>. QED  BY <1>2, <2>2, <2>5 DEF c
<1>. QED  BY <1>1, <1>6, <1>7, <1>8 DEF Consumer

\* The messages.  The worker's first,
LEMMA ReadyKeeps ==
  ASSUME PortInv, ReceiveReady, NEW h, h = Head(outbox)
  PROVE  PortInv'
<1>1. /\ outbox # <<>> /\ outbox' = Tail(outbox)
      /\ h.do \in {"ready", "notReady"} /\ portsOpen
  BY DEF ReceiveReady, Received, Its
<1>2. /\ h \in Messages /\ OutboxOK(outbox') /\ MoreMessages(outbox, outbox', h)
      /\ \A k \in Stream :
           h.do = "ended" /\ h.id = k => ~In(outbox', Token(k))
      /\ h.do = "reply" /\ h.id = Close => \A m \in Messages : ~In(outbox', m)
  BY <1>1, OutboxTaken
<1>3. /\ _closing' = _closing /\ _closed' = _closed /\ _pending' = _pending
      /\ _streams' = _streams
      /\ consumer' = consumer /\ settled' = settled /\ inbox' = inbox
      /\ worker' = worker
      /\ running' = running /\ sent' = sent
  BY DEF ReceiveReady
<1>4. /\ ready' \in {"no", "ok", "failed"} /\ portsOpen' = (ready' # "failed")
      /\ portsOpen' \in BOOLEAN
      /\ ready = "ok" => ready' = "ok"
      /\ ready # "failed" /\ ready' = "failed" => ready = "no"
  BY DEF ReceiveReady, PortInv, PortTypeOK, ClientTypeOK
<1>5. /\ ready # "failed" /\ ~_closed
  BY <1>1 DEF PortInv, Lives
<1>6. PortTypeOK'
  BY <1>1, <1>2, <1>3, <1>4, <1>5
  DEF PortInv, PortTypeOK, ClientTypeOK, Running, InboxOK, OutboxOK
<1>7. Lives'
  BY <1>1, <1>2, <1>3, <1>4, <1>5
  DEF PortInv, Lives, Running
<1>8. CloseIsLast'
  BY <1>1, <1>2, <1>3, <1>4, <1>5
  DEF PortInv, CloseIsLast, Lives, InboxOK, OutboxOK, MoreCommands, MoreMessages
<1>9. RepliesCome'
  BY <1>1, <1>2, <1>3, <1>4, <1>5
  DEF PortInv, RepliesCome, Lost, MoreCommands, MoreMessages
<1>10. EndsCome'
  BY <1>1, <1>2, <1>3, <1>4, <1>5
  DEF PortInv, EndsCome, Lost, Running, PortTypeOK, ClientTypeOK, MoreCommands,
      MoreMessages
<1>11. Registered'
  BY <1>1, <1>2, <1>3, <1>4, <1>5
  DEF PortInv, Registered, RegisteredFor
<1>12. Once'
  BY <1>1, <1>2, <1>3, <1>4, <1>5
  DEF PortInv, Once, OnceFor, Over, Running, Lives, InboxOK, OutboxOK,
      MoreCommands, MoreMessages
<1>13. Texts'
  BY <1>1, <1>2, <1>3, <1>4, <1>5
  DEF PortInv, Texts, TextsFor, Once, OnceFor, Over, Running, MoreMessages
<1>14. Fed'
  BY <1>1, <1>2, <1>3, <1>4, <1>5
  DEF PortInv, Fed, FedFor, Busy, Running, MoreCommands, MoreMessages
<1>. QED  BY <1>6, <1>7, <1>8, <1>9, <1>10, <1>11, <1>12, <1>13, <1>14 DEF PortInv

\* a reply,
LEMMA ReplyKeeps ==
  ASSUME PortInv, ReceiveReply, NEW h, h = Head(outbox), h.id # Close
  PROVE  PortInv'
<1>1. /\ outbox # <<>> /\ outbox' = Tail(outbox) /\ h.do = "reply" /\ portsOpen
  BY DEF ReceiveReply, Received, Its
<1>2. /\ h \in Messages /\ OutboxOK(outbox') /\ MoreMessages(outbox, outbox', h)
      /\ \A k \in Stream :
           h.do = "ended" /\ h.id = k => ~In(outbox', Token(k))
      /\ h.do = "reply" /\ h.id = Close => \A m \in Messages : ~In(outbox', m)
  BY <1>1, OutboxTaken
<1>3. /\ ready' = ready /\ _closing' = _closing /\ _streams' = _streams
      /\ consumer' = consumer
      /\ inbox' = inbox /\ worker' = worker /\ running' = running /\ sent' = sent
  BY DEF ReceiveReply
<1>4. /\ _pending' = _pending \ {h.id} /\ _closed' = _closed
      /\ portsOpen' = portsOpen
      /\ settled' \in [Request \union {Close} -> {"no", "ok", "failed"}]
      /\ settled[Close] # "no" => settled'[Close] # "no"
  BY <1>1 DEF ReceiveReply, Its, PortInv, PortTypeOK, ClientTypeOK
<1>5. PortTypeOK'
  BY <1>1, <1>2, <1>3, <1>4
  DEF PortInv, PortTypeOK, ClientTypeOK, Running, InboxOK, OutboxOK
<1>6. Lives'
  BY <1>1, <1>2, <1>3, <1>4
  DEF PortInv, Lives, Running
<1>7. CloseIsLast'
  BY <1>1, <1>2, <1>3, <1>4
  DEF PortInv, CloseIsLast, Lives, InboxOK, OutboxOK, MoreCommands, MoreMessages
<1>8. RepliesCome'
  BY <1>1, <1>2, <1>3, <1>4
  DEF PortInv, RepliesCome, Lost, MoreCommands, MoreMessages
<1>9. EndsCome'
  BY <1>1, <1>2, <1>3, <1>4
  DEF PortInv, EndsCome, Lost, Running, PortTypeOK, ClientTypeOK, MoreCommands,
      MoreMessages
<1>10. Registered'
  BY <1>1, <1>2, <1>3, <1>4
  DEF PortInv, Registered, RegisteredFor
<1>11. Once'
  BY <1>1, <1>2, <1>3, <1>4
  DEF PortInv, Once, OnceFor, Over, Running, Lives, InboxOK, OutboxOK,
      MoreCommands, MoreMessages
<1>12. Texts'
  BY <1>1, <1>2, <1>3, <1>4
  DEF PortInv, Texts, TextsFor, Once, OnceFor, Over, Running, MoreMessages
<1>13. Fed'
  BY <1>1, <1>2, <1>3, <1>4
  DEF PortInv, Fed, FedFor, Busy, Running, MoreCommands, MoreMessages
<1>. QED  BY <1>5, <1>6, <1>7, <1>8, <1>9, <1>10, <1>11, <1>12, <1>13 DEF PortInv

\* the reply to close, behind which nothing is,
LEMMA CloseReplyKeeps ==
  ASSUME PortInv, ReceiveReply, NEW h, h = Head(outbox), h.id = Close
  PROVE  PortInv'
<1>1. /\ outbox # <<>> /\ outbox' = Tail(outbox) /\ h.do = "reply" /\ portsOpen
  BY DEF ReceiveReply, Received, Its
<1>2. /\ h \in Messages /\ OutboxOK(outbox') /\ MoreMessages(outbox, outbox', h)
      /\ \A k \in Stream :
           h.do = "ended" /\ h.id = k => ~In(outbox', Token(k))
      /\ h.do = "reply" /\ h.id = Close => \A m \in Messages : ~In(outbox', m)
  BY <1>1, OutboxTaken
<1>3. /\ ready' = ready /\ _closing' = _closing /\ _streams' = _streams
      /\ consumer' = consumer
      /\ inbox' = inbox /\ worker' = worker /\ running' = running /\ sent' = sent
  BY DEF ReceiveReply
<1>4. /\ In(outbox, CloseReply) /\ worker = "gone" /\ Running = {}
      /\ \A r \in Request : ~In(outbox', Message("reply", r)) /\ ~In(outbox, Message("reply", r))
      /\ \A k \in Stream : ~In(outbox', Ended(k)) /\ ~In(outbox, Ended(k))
      /\ \A r \in Request : ~In(inbox, Command("request", r))
      /\ \A k \in Stream : ~In(inbox, Generate(k))
  <2>1. In(outbox, CloseReply)
    BY <1>1, <1>2 DEF MoreMessages
  <2>2. worker = "gone" /\ \A m \in Asking : ~In(inbox, m)
    BY <2>1 DEF PortInv, CloseIsLast
  <2>3. Running = {}
    BY <2>2 DEF PortInv, Lives
  <2>4. /\ \A r \in Request : Command("request", r) \in Asking
        /\ \A k \in Stream : Generate(k) \in Asking
    BY DEF Asking, Commands, Command, Generate
  <2>5. \A m \in Messages : ~In(outbox', m)
    BY <1>1, <1>2
  <2>6. /\ \A r \in Request : ~In(outbox', Message("reply", r))
        /\ \A k \in Stream : ~In(outbox', Ended(k))
    BY <2>5, MessagesAre
  <2>7. h.do # "ended" /\ \A r \in Request : h.id # r
    BY <1>1, PortBounds
  <2>. QED  BY <1>2, <2>1, <2>2, <2>3, <2>4, <2>6, <2>7 DEF MoreMessages
<1>5. _streams = {} /\ _pending \subseteq {Close}
  <2>1. ~Lost
    BY <1>4 DEF Lost
  <2>2. _streams = {}
    BY <1>4, <2>1 DEF PortInv, PortTypeOK, ClientTypeOK, EndsCome
  <2>. QED  BY <1>4, <2>1, <2>2 DEF PortInv, PortTypeOK, ClientTypeOK, RepliesCome
<1>6. /\ _pending' = {} /\ _streams' = {}
      /\ _closed' \in BOOLEAN /\ portsOpen' \in BOOLEAN
      /\ ~_closed /\ (_closed' <=> ~portsOpen')
      /\ settled' \in [Request \union {Close} -> {"no", "ok", "failed"}]
      /\ settled[Close] # "no" => settled'[Close] # "no"
      /\ Close \in _pending => settled'[Close] # "no"
  BY <1>1, <1>3, <1>5
  DEF ReceiveReply, Its, PortInv, PortTypeOK, ClientTypeOK, Lives
<1>7. PortTypeOK'
  BY <1>1, <1>2, <1>3, <1>4, <1>5, <1>6
  DEF PortInv, PortTypeOK, ClientTypeOK, Running, InboxOK, OutboxOK
<1>8. Lives'
  BY <1>1, <1>2, <1>3, <1>4, <1>5, <1>6
  DEF PortInv, Lives, Running
<1>9. CloseIsLast'
  BY <1>1, <1>2, <1>3, <1>4, <1>5, <1>6
  DEF PortInv, CloseIsLast, Lives, InboxOK, OutboxOK, MoreCommands, MoreMessages
<1>10. RepliesCome'
  BY <1>1, <1>2, <1>3, <1>4, <1>5, <1>6
  DEF PortInv, RepliesCome, Lost, MoreCommands, MoreMessages
<1>11. EndsCome'
  BY <1>1, <1>2, <1>3, <1>4, <1>5, <1>6
  DEF PortInv, EndsCome, Lost, Running, PortTypeOK, ClientTypeOK, MoreCommands,
      MoreMessages
<1>12. Registered'
  BY <1>1, <1>2, <1>3, <1>4, <1>5, <1>6
  DEF PortInv, Registered, RegisteredFor
<1>13. Once'
  BY <1>1, <1>2, <1>3, <1>4, <1>5, <1>6
  DEF PortInv, Once, OnceFor, Over, Running, Lives, InboxOK, OutboxOK,
      MoreCommands, MoreMessages
<1>14. Texts'
  BY <1>1, <1>2, <1>3, <1>4, <1>5, <1>6
  DEF PortInv, Texts, TextsFor, Once, OnceFor, Over, Running, MoreMessages
<1>15. Fed'
  BY <1>1, <1>2, <1>3, <1>4, <1>5, <1>6
  DEF PortInv, Fed, FedFor, Busy, Running, MoreCommands, MoreMessages
<1>. QED  BY <1>7, <1>8, <1>9, <1>10, <1>11, <1>12, <1>13, <1>14, <1>15 DEF PortInv

\* a text for a stream that is over or cancelled,
LEMMA TokenForNobody ==
  ASSUME PortInv, ReceiveToken, NEW h, h = Head(outbox),
         h.id \notin _streams \/ consumer[h.id].cancelled, consumer' = consumer, inbox' = inbox
  PROVE  PortInv'
<1>1. /\ outbox # <<>> /\ outbox' = Tail(outbox) /\ h.do = "token" /\ portsOpen
  BY DEF ReceiveToken, Received
<1>2. /\ h \in Messages /\ OutboxOK(outbox') /\ MoreMessages(outbox, outbox', h)
      /\ \A j \in Stream :
           /\ In(outbox', Ended(j)) <=> In(outbox, Ended(j))
           /\ In(outbox', Token(j)) => In(outbox, Token(j))
           /\ Behind(outbox', {Ended(j)}, {Token(j)})
  <2>1. h \in Messages /\ OutboxOK(outbox') /\ MoreMessages(outbox, outbox', h)
    BY <1>1, OutboxTaken
  <2>. QED  BY <1>1, <2>1 DEF OutboxOK, MoreMessages
<1>3. /\ ready' = ready /\ _closing' = _closing /\ _closed' = _closed
      /\ portsOpen' = portsOpen
      /\ _pending' = _pending /\ _streams' = _streams /\ settled' = settled
      /\ worker' = worker
      /\ running' = running /\ sent' = sent
      /\ consumer' = consumer /\ inbox' = inbox
  BY DEF ReceiveToken
<1>4. /\ worker = "gone" => Running = {}
      /\ \A j \in Stream : j \in Running /\ ~consumer[j].cancelled => j # h.id
  <2>1. worker # "up" => Running = {}
    BY DEF PortInv, Lives
  <2>2. worker \in {"starting", "up", "gone"}
    BY DEF PortInv, PortTypeOK
  <2>3. ASSUME NEW j \in Stream, j \in Running, ~consumer[j].cancelled PROVE j # h.id
    BY <2>1, <2>2, <2>3
    DEF PortInv, Once, OnceFor, Over, Registered, RegisteredFor
  <2>. QED  BY <2>1, <2>3
<1>5. PortTypeOK'
  BY <1>1, <1>2, <1>3, <1>4
  DEF PortInv, PortTypeOK, ClientTypeOK, Running, InboxOK, OutboxOK
<1>6. Lives'
  BY <1>1, <1>2, <1>3, <1>4
  DEF PortInv, Lives, Running
<1>7. CloseIsLast'
  BY <1>1, <1>2, <1>3, <1>4
  DEF PortInv, CloseIsLast, Lives, InboxOK, OutboxOK, MoreCommands, MoreMessages
<1>8. RepliesCome'
  BY <1>1, <1>2, <1>3, <1>4
  DEF PortInv, RepliesCome, Lost, MoreCommands, MoreMessages
<1>9. EndsCome'
  BY <1>1, <1>2, <1>3, <1>4
  DEF PortInv, EndsCome, Lost, Running, PortTypeOK, ClientTypeOK, MoreCommands,
      MoreMessages
<1>10. Registered'
  BY <1>3 DEF PortInv, Registered, RegisteredFor
<1>11. Once'
  <2>1. ASSUME NEW j \in Stream PROVE OnceFor(j)'
    BY <1>2, <1>3, <2>1 DEF PortInv, Once, OnceFor, Over, Running
  <2>. QED  BY <2>1 DEF Once
<1>12. Texts'
  BY <1>1, <1>2, <1>3, <1>4
  DEF PortInv, Texts, TextsFor, Once, OnceFor, Over, Running, MoreMessages
<1>13. Fed'
  BY <1>1, <1>2, <1>3, <1>4
  DEF PortInv, Fed, FedFor, Busy, Running, MoreCommands, MoreMessages
<1>. QED  BY <1>5, <1>6, <1>7, <1>8, <1>9, <1>10, <1>11, <1>12, <1>13 DEF PortInv

\* a text for a listener that is behind,
LEMMA TokenBuffered ==
  ASSUME PortInv, ReceiveToken, NEW h, h = Head(outbox),
         NEW k \in Stream, k = Head(outbox).id, k \in _streams, ~consumer[k].cancelled,
         NEW c, Heard(k, c, Reached(consumer[k]) + 1), Busy(c), Set(k, c), inbox' = inbox
  PROVE  PortInv'
<1>1. /\ outbox # <<>> /\ outbox' = Tail(outbox) /\ h.do = "token" /\ portsOpen
  BY DEF ReceiveToken, Received
<1>2. /\ h \in Messages /\ OutboxOK(outbox') /\ MoreMessages(outbox, outbox', h)
      /\ \A j \in Stream :
           /\ In(outbox', Ended(j)) <=> In(outbox, Ended(j))
           /\ In(outbox', Token(j)) => In(outbox, Token(j))
           /\ Behind(outbox', {Ended(j)}, {Token(j)})
  <2>1. h \in Messages /\ OutboxOK(outbox') /\ MoreMessages(outbox, outbox', h)
    BY <1>1, OutboxTaken
  <2>. QED  BY <1>1, <2>1 DEF OutboxOK, MoreMessages
<1>3. /\ ready' = ready /\ _closing' = _closing /\ _closed' = _closed
      /\ portsOpen' = portsOpen
      /\ _pending' = _pending /\ _streams' = _streams /\ settled' = settled
      /\ worker' = worker
      /\ running' = running /\ sent' = sent
      /\ inbox' = inbox
  BY DEF ReceiveToken
<1>4. /\ Reached(consumer[k]) < sent[k] /\ Reached(consumer[k]) \in Nat
      /\ Count(outbox, Token(k)) = Count(outbox', Token(k)) + 1
      /\ Count(outbox', Token(k)) \in Nat
      /\ Reached(consumer[k]) + Count(outbox, Token(k)) = sent[k]
  <2>1. Reached(consumer[k]) + Count(outbox, Token(k)) = sent[k]
    BY DEF PortInv, Texts, TextsFor
  <2>2. Count(outbox, Token(k)) = Count(outbox', Token(k)) + 1
        /\ Count(outbox', Token(k)) \in Nat
    BY <1>1, <1>2 DEF MoreMessages
  <2>3. sent[k] \in Nat /\ Reached(consumer[k]) \in Nat
    BY PortBounds, ReachedIsNat DEF PortInv, PortTypeOK
  <2>. QED  BY <2>1, <2>2, <2>3
<1>5. /\ consumer[k] \in Consumer /\ consumer[k].listened /\ ready = "ok"
  BY DEF PortInv, PortTypeOK, ClientTypeOK, Lives, Registered, RegisteredFor
<1>6. /\ c \in Consumer /\ Orderly(c, sent[k]) /\ Reached(c) = Reached(consumer[k]) + 1
      /\ c.listened /\ c.done = consumer[k].done /\ c.finished = consumer[k].finished
      /\ ~c.cancelled /\ c.cancelWaits = consumer[k].cancelWaits
  BY <1>5 DEF Heard
<1>7. /\ consumer' \in [Stream -> Consumer] /\ consumer'[k] = c
      /\ \A j \in Stream \ {k} : consumer'[j] = consumer[j]
  BY <1>6, SetOne
<1>8. PortTypeOK'
  BY <1>1, <1>2, <1>3, <1>4, <1>5, <1>6, <1>7
  DEF PortInv, PortTypeOK, ClientTypeOK, Running, InboxOK, OutboxOK
<1>9. Lives'
  BY <1>1, <1>2, <1>3, <1>4, <1>5, <1>6, <1>7
  DEF PortInv, Lives, Running
<1>10. CloseIsLast'
  BY <1>1, <1>2, <1>3, <1>4, <1>5, <1>6, <1>7
  DEF PortInv, CloseIsLast, Lives, InboxOK, OutboxOK, MoreCommands, MoreMessages
<1>11. RepliesCome'
  BY <1>1, <1>2, <1>3, <1>4, <1>5, <1>6, <1>7
  DEF PortInv, RepliesCome, Lost, MoreCommands, MoreMessages
<1>12. EndsCome'
  BY <1>1, <1>2, <1>3, <1>4, <1>5, <1>6, <1>7
  DEF PortInv, EndsCome, Lost, Running, PortTypeOK, ClientTypeOK, MoreCommands,
      MoreMessages
<1>13. Registered'
  <2>8. ASSUME NEW j \in Stream, j # k PROVE RegisteredFor(j)'
    BY <1>1, <1>2, <1>3, <1>7, <2>8
    DEF PortInv, Registered, RegisteredFor
  <2>9. RegisteredFor(k)'
    BY <1>1, <1>2, <1>3, <1>4, <1>5, <1>6, <1>7
    DEF PortInv, Registered, RegisteredFor
  <2>. QED  BY <2>8, <2>9 DEF Registered
<1>14. Once'
  <2>8. ASSUME NEW j \in Stream, j # k PROVE OnceFor(j)'
    BY <1>2, <1>3, <1>7, <2>8 DEF PortInv, Once, OnceFor, Over, Running
  <2>9. OnceFor(k)'
    BY <1>2, <1>3, <1>5, <1>6, <1>7 DEF PortInv, Once, OnceFor, Over, Running
  <2>. QED  BY <2>8, <2>9 DEF Once
<1>15. Texts'
  <2>8. ASSUME NEW j \in Stream, j # k PROVE TextsFor(j)'
    BY <1>1, <1>2, <1>3, <1>7, <2>8
    DEF PortInv, Texts, TextsFor, MoreMessages
  <2>9. TextsFor(k)'
    BY <1>3, <1>4, <1>6, <1>7
    DEF TextsFor
  <2>. QED  BY <2>8, <2>9 DEF Texts
<1>16. Fed'
  <2>8. ASSUME NEW j \in Stream, j # k PROVE FedFor(j)'
    BY <1>1, <1>2, <1>3, <1>7, <2>8
    DEF PortInv, Fed, FedFor, Busy, Running, MoreCommands, MoreMessages
  <2>9. FedFor(k)'
    BY <1>1, <1>2, <1>3, <1>4, <1>5, <1>6, <1>7
    DEF PortInv, Fed, FedFor, Busy, Running, MoreCommands, MoreMessages
  <2>. QED  BY <2>8, <2>9 DEF Fed
<1>. QED  BY <1>8, <1>9, <1>10, <1>11, <1>12, <1>13, <1>14, <1>15, <1>16 DEF PortInv

\* a text for one that keeps up: if it goes on its next credit is sent,
LEMMA TokenHeard ==
  ASSUME PortInv, ReceiveToken, NEW h, h = Head(outbox),
         NEW k \in Stream, k = Head(outbox).id, k \in _streams, ~consumer[k].cancelled,
         NEW b, Heard(k, b, Reached(consumer[k]) + 1), b.end = "no",
         NEW reaction \in Reaction,
         NEW c, c = React(b, reaction), Set(k, c), Tells(k, b, reaction)
  PROVE  PortInv'
<1>1. /\ outbox # <<>> /\ outbox' = Tail(outbox) /\ h.do = "token" /\ portsOpen
  BY DEF ReceiveToken, Received
<1>2. /\ h \in Messages /\ OutboxOK(outbox') /\ MoreMessages(outbox, outbox', h)
      /\ \A j \in Stream :
           /\ In(outbox', Ended(j)) <=> In(outbox, Ended(j))
           /\ In(outbox', Token(j)) => In(outbox, Token(j))
           /\ Behind(outbox', {Ended(j)}, {Token(j)})
  <2>1. h \in Messages /\ OutboxOK(outbox') /\ MoreMessages(outbox, outbox', h)
    BY <1>1, OutboxTaken
  <2>. QED  BY <1>1, <2>1 DEF OutboxOK, MoreMessages
<1>3. /\ ready' = ready /\ _closing' = _closing /\ _closed' = _closed
      /\ portsOpen' = portsOpen
      /\ _pending' = _pending /\ _streams' = _streams /\ settled' = settled
      /\ worker' = worker
      /\ running' = running /\ sent' = sent
  BY DEF ReceiveToken
<1>4. /\ Reached(consumer[k]) < sent[k] /\ Reached(consumer[k]) \in Nat
      /\ Count(outbox, Token(k)) = Count(outbox', Token(k)) + 1
      /\ Count(outbox', Token(k)) \in Nat
      /\ Reached(consumer[k]) + Count(outbox, Token(k)) = sent[k]
  <2>1. Reached(consumer[k]) + Count(outbox, Token(k)) = sent[k]
    BY DEF PortInv, Texts, TextsFor
  <2>2. Count(outbox, Token(k)) = Count(outbox', Token(k)) + 1
        /\ Count(outbox', Token(k)) \in Nat
    BY <1>1, <1>2 DEF MoreMessages
  <2>3. sent[k] \in Nat /\ Reached(consumer[k]) \in Nat
    BY PortBounds, ReachedIsNat DEF PortInv, PortTypeOK
  <2>. QED  BY <2>1, <2>2, <2>3
<1>5. /\ consumer[k] \in Consumer /\ consumer[k].listened /\ ready = "ok"
  BY DEF PortInv, PortTypeOK, ClientTypeOK, Lives, Registered, RegisteredFor
<1>6. /\ b \in Consumer /\ Orderly(b, sent[k]) /\ Reached(b) = Reached(consumer[k]) + 1
      /\ b.listened = consumer[k].listened /\ b.done = consumer[k].done
      /\ b.finished = consumer[k].finished /\ ~b.cancelled
      /\ b.cancelWaits = consumer[k].cancelWaits
  BY DEF Heard
<1>7. /\ c \in Consumer /\ Orderly(c, sent[k])
      /\ c.listened /\ c.done = consumer[k].done /\ c.finished = consumer[k].finished
      /\ ~c.cancelled => /\ Reached(c) = Reached(consumer[k]) + 1
                         /\ c.cancelWaits = consumer[k].cancelWaits
      /\ c.cancelled => c.cancelWaits = (~c.finished /\ ~_closed)
      /\ ~c.cancelled /\ ~Busy(c) => reaction = "goOn" /\ b.buffer = <<>>
  <2>1. sent[k] \in Nat
    BY PortBounds DEF PortInv, PortTypeOK
  <2>2. /\ c \in Consumer /\ Orderly(c, sent[k])
        /\ c.listened = b.listened /\ c.done = b.done /\ c.finished = b.finished
        /\ ~c.cancelled => Reached(c) = Reached(b) /\ c.cancelWaits = b.cancelWaits
        /\ c.cancelled => c.cancelWaits = (~b.finished /\ ~_closed)
        /\ ~c.cancelled /\ ~Busy(c) => reaction = "goOn" /\ b.buffer = <<>>
    BY <1>6, <2>1, ReactedIs
  <2>. QED  BY <1>5, <1>6, <2>2
<1>8. /\ consumer' \in [Stream -> Consumer] /\ consumer'[k] = c
      /\ \A j \in Stream \ {k} : consumer'[j] = consumer[j]
  BY <1>7, SetOne
<1>9. /\ InboxOK(inbox')
      /\ \A j \in Stream :
           /\ In(inbox', Generate(j)) <=> In(inbox, Generate(j))
           /\ In(inbox, Command("credit", j)) => In(inbox', Command("credit", j))
      /\ reaction = "goOn" /\ b.buffer = <<>> /\ ~b.finished => In(inbox', Command("credit", k))
      /\ \A r \in Request :
           In(inbox', Command("request", r)) <=> In(inbox, Command("request", r))
      /\ \A m \in Asking : In(inbox', m) => In(inbox, m)
      /\ In(inbox', CloseCommand) => In(inbox, CloseCommand)
  BY <1>6, ReactionTells
<1>10. PortTypeOK'
  BY <1>1, <1>2, <1>3, <1>4, <1>5, <1>6, <1>7, <1>8, <1>9
  DEF PortInv, PortTypeOK, ClientTypeOK, Running, InboxOK, OutboxOK
<1>11. Lives'
  BY <1>1, <1>2, <1>3, <1>4, <1>5, <1>6, <1>7, <1>8, <1>9
  DEF PortInv, Lives, Running
<1>12. CloseIsLast'
  BY <1>1, <1>2, <1>3, <1>4, <1>5, <1>6, <1>7, <1>8, <1>9
  DEF PortInv, CloseIsLast, Lives, InboxOK, OutboxOK, MoreCommands, MoreMessages
<1>13. RepliesCome'
  BY <1>1, <1>2, <1>3, <1>4, <1>5, <1>6, <1>7, <1>8, <1>9
  DEF PortInv, RepliesCome, Lost, MoreCommands, MoreMessages
<1>14. EndsCome'
  BY <1>1, <1>2, <1>3, <1>4, <1>5, <1>6, <1>7, <1>8, <1>9
  DEF PortInv, EndsCome, Lost, Running, PortTypeOK, ClientTypeOK, MoreCommands,
      MoreMessages
<1>15. Registered'
  <2>8. ASSUME NEW j \in Stream, j # k PROVE RegisteredFor(j)'
    BY <1>1, <1>2, <1>3, <1>8, <1>9, <2>8
    DEF PortInv, Registered, RegisteredFor
  <2>9. RegisteredFor(k)'
    BY <1>1, <1>2, <1>3, <1>4, <1>5, <1>6, <1>7, <1>8, <1>9
    DEF PortInv, Registered, RegisteredFor
  <2>. QED  BY <2>8, <2>9 DEF Registered
<1>16. Once'
  <2>8. ASSUME NEW j \in Stream, j # k PROVE OnceFor(j)'
    BY <1>1, <1>2, <1>3, <1>8, <1>9, <2>8
    DEF PortInv, Once, OnceFor, Over, Running, Lives, InboxOK, OutboxOK,
        MoreCommands, MoreMessages
  <2>9. OnceFor(k)'
    BY <1>1, <1>2, <1>3, <1>4, <1>5, <1>6, <1>7, <1>8, <1>9
    DEF PortInv, Once, OnceFor, Over, Running, Lives, InboxOK, OutboxOK,
        MoreCommands, MoreMessages, Registered, RegisteredFor
  <2>. QED  BY <2>8, <2>9 DEF Once
<1>17. Texts'
  <2>8. ASSUME NEW j \in Stream, j # k PROVE TextsFor(j)'
    BY <1>1, <1>2, <1>3, <1>8, <2>8
    DEF PortInv, Texts, TextsFor, MoreMessages
  <2>9. TextsFor(k)'
    BY <1>3, <1>4, <1>7, <1>8
    DEF TextsFor
  <2>. QED  BY <2>8, <2>9 DEF Texts
<1>18. Fed'
  <2>8. ASSUME NEW j \in Stream, j # k PROVE FedFor(j)'
    BY <1>1, <1>2, <1>3, <1>8, <1>9, <2>8
    DEF PortInv, Fed, FedFor, Busy, Running, MoreCommands, MoreMessages
  <2>9. FedFor(k)'
    BY <1>1, <1>2, <1>3, <1>4, <1>5, <1>6, <1>7, <1>8, <1>9
    DEF PortInv, Fed, FedFor, Busy, Running, MoreCommands, MoreMessages,
        Registered, RegisteredFor, Once, OnceFor, Over, Lives
  <2>. QED  BY <2>8, <2>9 DEF Fed
<1>. QED  BY <1>10, <1>11, <1>12, <1>13, <1>14, <1>15, <1>16, <1>17, <1>18 DEF PortInv

\* ReceiveToken in full.
LEMMA TokenKeeps ==
  ASSUME PortInv, ReceiveToken
  PROVE  PortInv'
<1>. DEFINE h == Head(outbox)
            k == h.id
            after == Add(consumer[k], "token")
<1>1. outbox # <<>> /\ outbox' = Tail(outbox) /\ h.do = "token"
  BY DEF ReceiveToken, Received
<1>2. h \in Messages /\ MoreMessages(outbox, outbox', h)
  BY <1>1, OutboxTaken
<1>3. k \in Stream
  BY <1>1, <1>2, MessageIs
<1>4. CASE k \notin _streams \/ consumer[k].cancelled
  BY <1>1, <1>4, TokenForNobody DEF ReceiveToken, Its
<1>5. CASE k \in _streams /\ ~consumer[k].cancelled
  <2>1. Reached(consumer[k]) < sent[k]
    <3>1. Reached(consumer[k]) + Count(outbox, Token(k)) = sent[k]
      BY <1>3, <1>5 DEF PortInv, Texts, TextsFor
    <3>2. Count(outbox, Token(k)) = Count(outbox', Token(k)) + 1
          /\ Count(outbox', Token(k)) \in Nat
      BY <1>1, <1>2, <1>3 DEF MoreMessages
    <3>3. sent[k] \in Nat /\ Reached(consumer[k]) \in Nat
      BY <1>3, PortBounds, ReachedIsNat DEF PortInv, PortTypeOK
    <3>. QED  BY <3>1, <3>2, <3>3
  <2>2. CASE Busy(consumer[k])
    <3>1. Set(k, after) /\ inbox' = inbox
      BY <1>5, <2>2 DEF ReceiveToken, Its
    <3>2. Heard(k, after, Reached(consumer[k]) + 1) /\ Busy(after)
      BY <1>3, <1>5, <2>1, <2>2, TokenIsBuffered
    <3>. HIDE DEF h, k, after
    <3>. QED  BY <1>3, <1>5, <3>1, <3>2, TokenBuffered DEF h, k
  <2>3. CASE ~Busy(consumer[k])
    <3>1. after = Hear(consumer[k], "token")
      BY <2>3 DEF Add
    <3>2. /\ Heard(k, after, Reached(consumer[k]) + 1)
          /\ after.end = "no" /\ after.buffer = <<>>
      BY <1>3, <1>5, <2>1, <2>3, <3>1, TokenIsHeard
    <3>3. PICK reaction \in Reaction :
            /\ Set(k, React(after, reaction))
            /\ inbox' = inbox \o
                 (CASE reaction = "goOn" -> CreditCommand(k, after)
                    [] reaction = "pause" -> <<>>
                    [] reaction = "cancel" -> CancelCommand(k, after))
      BY <1>5, <2>3 DEF ReceiveToken, Its
    <3>4. Tells(k, after, reaction)
      BY <3>2, <3>3 DEF Tells
    <3>5. Set(k, React(after, reaction))
      BY <3>3
    <3>. HIDE DEF h, k, after
    <3>. QED  BY <1>3, <1>5, <3>2, <3>4, <3>5, TokenHeard DEF h, k
  <2>. QED  BY <2>2, <2>3
<1>. QED  BY <1>4, <1>5

\* The end of a stream that is not registered,
LEMMA EndForNobody ==
  ASSUME PortInv, ReceiveTerminal, NEW h, h = Head(outbox), h.id \notin _streams
  PROVE  PortInv'
<1>1. /\ outbox # <<>> /\ outbox' = Tail(outbox) /\ h.do = "ended"
      /\ _streams' = _streams \ {h.id}
  BY DEF ReceiveTerminal, Received, Its
<1>2. /\ h \in Messages /\ OutboxOK(outbox') /\ MoreMessages(outbox, outbox', h)
      /\ h.id \in Stream /\ In(outbox, Ended(h.id)) /\ ~In(outbox', Token(h.id))
      /\ \A j \in Stream :
           /\ In(outbox', Ended(j)) => In(outbox, Ended(j))
           /\ j # h.id => (In(outbox', Ended(j)) <=> In(outbox, Ended(j)))
           /\ In(outbox', Token(j)) <=> In(outbox, Token(j))
           /\ Behind(outbox', {Ended(j)}, {Token(j)})
  <2>1. /\ h \in Messages /\ OutboxOK(outbox') /\ MoreMessages(outbox, outbox', h)
        /\ \A j \in Stream :
             h.do = "ended" /\ h.id = j => ~In(outbox', Token(j))
    BY <1>1, OutboxTaken
  <2>2. h.id \in Stream
    BY <1>1, <2>1, MessageIs
  <2>. QED  BY <1>1, <2>1, <2>2 DEF OutboxOK, MoreMessages
<1>3. /\ ready' = ready /\ _closing' = _closing /\ _closed' = _closed
      /\ portsOpen' = portsOpen
      /\ _pending' = _pending /\ _streams' = _streams /\ consumer' = consumer
      /\ settled' = settled
      /\ inbox' = inbox /\ worker' = worker /\ running' = running
      /\ sent' = sent /\ _streams' = _streams
  BY <1>1 DEF ReceiveTerminal, Its
<1>4. PortTypeOK'
  BY <1>1, <1>2, <1>3
  DEF PortInv, PortTypeOK, ClientTypeOK, Running, InboxOK, OutboxOK
<1>5. Lives'
  BY <1>1, <1>2, <1>3
  DEF PortInv, Lives, Running
<1>6. CloseIsLast'
  BY <1>1, <1>2, <1>3
  DEF PortInv, CloseIsLast, Lives, InboxOK, OutboxOK, MoreCommands, MoreMessages
<1>7. RepliesCome'
  BY <1>1, <1>2, <1>3
  DEF PortInv, RepliesCome, Lost, MoreCommands, MoreMessages
<1>8. EndsCome'
  BY <1>1, <1>2, <1>3
  DEF PortInv, EndsCome, Lost, Running, PortTypeOK, ClientTypeOK, MoreCommands,
      MoreMessages
<1>9. Registered'
  BY <1>3 DEF PortInv, Registered, RegisteredFor
<1>10. Once'
  <2>1. ASSUME NEW j \in Stream PROVE OnceFor(j)'
    BY <1>2, <1>3, <2>1 DEF PortInv, Once, OnceFor, Over, Running
  <2>. QED  BY <2>1 DEF Once
<1>11. Texts'
  BY <1>1, <1>2, <1>3
  DEF PortInv, Texts, TextsFor, Once, OnceFor, Over, Running, MoreMessages
<1>12. Fed'
  BY <1>1, <1>2, <1>3
  DEF PortInv, Fed, FedFor, Busy, Running, MoreCommands, MoreMessages
<1>. QED  BY <1>4, <1>5, <1>6, <1>7, <1>8, <1>9, <1>10, <1>11, <1>12 DEF PortInv

\* ... and of one that is: all its texts came before.
LEMMA EndHeard ==
  ASSUME PortInv, ReceiveTerminal, NEW h, h = Head(outbox),
         NEW k, k = h.id, k \in _streams,
         NEW c, c = Last(k, "ended"), Set(k, c)
  PROVE  PortInv'
<1>1. /\ outbox # <<>> /\ outbox' = Tail(outbox) /\ h.do = "ended"
      /\ _streams' = _streams \ {h.id}
  BY DEF ReceiveTerminal, Received, Its
<1>2. /\ h \in Messages /\ OutboxOK(outbox') /\ MoreMessages(outbox, outbox', h)
      /\ h.id \in Stream /\ In(outbox, Ended(h.id)) /\ ~In(outbox', Token(h.id))
      /\ \A j \in Stream :
           /\ In(outbox', Ended(j)) => In(outbox, Ended(j))
           /\ j # h.id => (In(outbox', Ended(j)) <=> In(outbox, Ended(j)))
           /\ In(outbox', Token(j)) <=> In(outbox, Token(j))
           /\ Behind(outbox', {Ended(j)}, {Token(j)})
  <2>1. /\ h \in Messages /\ OutboxOK(outbox') /\ MoreMessages(outbox, outbox', h)
        /\ \A j \in Stream :
             h.do = "ended" /\ h.id = j => ~In(outbox', Token(j))
    BY <1>1, OutboxTaken
  <2>2. h.id \in Stream
    BY <1>1, <2>1, MessageIs
  <2>. QED  BY <1>1, <2>1, <2>2 DEF OutboxOK, MoreMessages
<1>3. /\ ready' = ready /\ _closing' = _closing /\ _closed' = _closed
      /\ portsOpen' = portsOpen
      /\ _pending' = _pending /\ settled' = settled /\ inbox' = inbox
      /\ worker' = worker
      /\ running' = running /\ sent' = sent
  BY DEF ReceiveTerminal
<1>4. /\ k \in Stream /\ k \notin _streams' /\ k \notin Running
      /\ ~In(inbox, Generate(k))
      /\ consumer[k].listened /\ ready = "ok"
  BY <1>1, <1>2 DEF PortInv, Once, OnceFor, Registered, RegisteredFor, Lives
<1>5. /\ c \in Consumer /\ Orderly(c, sent[k])
      /\ c.listened /\ c.done /\ c.finished = c.done
      /\ c.cancelled = consumer[k].cancelled
      /\ c.cancelWaits = consumer[k].cancelWaits
  <2>1. ~consumer[k].cancelled => Reached(consumer[k]) = sent[k]
    <3>1. Count(outbox, Token(k)) = 0
      <4>1. ~In(outbox, Token(k))
        BY <1>2
      <4>. QED  BY <4>1, CountNone DEF PortInv, PortTypeOK
    <3>2. Reached(consumer[k]) \in Nat
      BY <1>4, ReachedIsNat
    <3>3. ~consumer[k].cancelled => Reached(consumer[k]) + Count(outbox, Token(k)) = sent[k]
      BY <1>4 DEF PortInv, Texts, TextsFor
    <3>. QED  BY <3>1, <3>2, <3>3
  <2>2. k \in Stream /\ k \in _streams
    BY <1>4
  <2>. QED  BY <1>4, <2>1, <2>2, EndIs
<1>6. /\ consumer' \in [Stream -> Consumer] /\ consumer'[k] = c
      /\ \A j \in Stream \ {k} : consumer'[j] = consumer[j]
  BY <1>4, <1>5, SetOne
<1>7. PortTypeOK'
  BY <1>1, <1>2, <1>3, <1>4, <1>5, <1>6
  DEF PortInv, PortTypeOK, ClientTypeOK, Running, InboxOK, OutboxOK
<1>8. Lives'
  BY <1>1, <1>2, <1>3, <1>4, <1>5, <1>6
  DEF PortInv, Lives, Running
<1>9. CloseIsLast'
  BY <1>1, <1>2, <1>3, <1>4, <1>5, <1>6
  DEF PortInv, CloseIsLast, Lives, InboxOK, OutboxOK, MoreCommands, MoreMessages
<1>10. RepliesCome'
  BY <1>1, <1>2, <1>3, <1>4, <1>5, <1>6
  DEF PortInv, RepliesCome, Lost, MoreCommands, MoreMessages
<1>11. EndsCome'
  BY <1>1, <1>2, <1>3, <1>4, <1>5, <1>6
  DEF PortInv, EndsCome, Lost, Running, PortTypeOK, ClientTypeOK, MoreCommands,
      MoreMessages
<1>12. Registered'
  <2>8. ASSUME NEW j \in Stream, j # k PROVE RegisteredFor(j)'
    BY <1>1, <1>2, <1>3, <1>6, <2>8
    DEF PortInv, Registered, RegisteredFor
  <2>9. RegisteredFor(k)'
    BY <1>1, <1>2, <1>3, <1>4, <1>5, <1>6
    DEF PortInv, Registered, RegisteredFor
  <2>. QED  BY <2>8, <2>9 DEF Registered
<1>13. Once'
  <2>8. ASSUME NEW j \in Stream, j # k PROVE OnceFor(j)'
    BY <1>2, <1>3, <1>6, <2>8 DEF PortInv, Once, OnceFor, Over, Running
  <2>9. OnceFor(k)'
    BY <1>2, <1>3, <1>4, <1>5, <1>6 DEF PortInv, Once, OnceFor, Over, Running
  <2>. QED  BY <2>8, <2>9 DEF Once
<1>14. Texts'
  <2>8. ASSUME NEW j \in Stream, j # k PROVE TextsFor(j)'
    BY <1>1, <1>2, <1>3, <1>6, <2>8
    DEF PortInv, Texts, TextsFor, MoreMessages
  <2>9. TextsFor(k)'
    BY <1>1, <1>3, <1>4, <1>5, <1>6 DEF TextsFor
  <2>. QED  BY <2>8, <2>9 DEF Texts
<1>15. Fed'
  <2>8. ASSUME NEW j \in Stream, j # k PROVE FedFor(j)'
    BY <1>2, <1>3, <1>6, <2>8 DEF PortInv, Fed, FedFor, Running
  <2>9. FedFor(k)'
    BY <1>2, <1>3, <1>4 DEF PortInv, Once, OnceFor, FedFor, Running
  <2>. QED  BY <2>8, <2>9 DEF Fed
<1>. QED  BY <1>7, <1>8, <1>9, <1>10, <1>11, <1>12, <1>13, <1>14, <1>15 DEF PortInv

\* ReceiveTerminal in full.
LEMMA TerminalKeeps ==
  ASSUME PortInv, ReceiveTerminal
  PROVE  PortInv'
<1>. DEFINE k == Head(outbox).id
<1>1. CASE k \notin _streams
  BY <1>1, EndForNobody
<1>2. CASE k \in _streams
  <2>1. Set(k, Last(k, "ended"))
    BY <1>2 DEF ReceiveTerminal, Its, Last
  <2>. QED  BY <1>2, <2>1, EndHeard
<1>. QED  BY <1>1, <1>2

\* The notice that the worker ended may overtake its last messages.
LEMMA WorkerEndedKeeps ==
  ASSUME PortInv, _workerEnded
  PROVE  PortInv'
<1>1. /\ worker = "gone" /\ portsOpen /\ _closed' = TRUE /\ portsOpen' = FALSE
      /\ _pending' = {} /\ _streams' = {}
      /\ ready' = (IF ready = "no" THEN "failed" ELSE ready)
  BY DEF _workerEnded
<1>2. /\ _closing' = _closing /\ inbox' = inbox /\ outbox' = outbox
      /\ worker' = worker
      /\ running' = running /\ sent' = sent
  BY DEF _workerEnded
<1>3. /\ settled' \in [Request \union {Close} -> {"no", "ok", "failed"}]
      /\ settled[Close] # "no" \/ Close \in _pending => settled'[Close] # "no"
  BY DEF _workerEnded, FailedRequests, PortInv, PortTypeOK, ClientTypeOK
<1>4. Running = {} /\ Running' = {} /\ (ready = "no" => ~_closing)
  BY <1>1, <1>2 DEF PortInv, Lives, Running
<1>5. \A k \in Stream :
        /\ k \notin _streams => consumer'[k] = consumer[k]
        /\ k \in _streams => consumer'[k] = FailedConsumer(consumer[k])
  BY DEF _workerEnded, FailedStreams
<1>6. \A k \in _streams :
        /\ consumer'[k] \in Consumer /\ Orderly(consumer'[k], sent[k])
        /\ consumer'[k].listened /\ consumer'[k].done
        /\ consumer'[k].finished = consumer'[k].done
  <2>1. ASSUME NEW k \in Stream, k \in _streams
        PROVE  /\ FailedConsumer(consumer[k]) \in Consumer
               /\ Orderly(FailedConsumer(consumer[k]), sent[k])
               /\ FailedConsumer(consumer[k]).listened
               /\ FailedConsumer(consumer[k]).done
               /\ FailedConsumer(consumer[k]).finished =
                    FailedConsumer(consumer[k]).done
    <3>1. FailedConsumer(consumer[k]) = Last(k, "failed")
      BY DEF FailedConsumer, Last
    <3>. QED  BY <2>1, <3>1, EndIs
  <2>. QED  BY <1>5, <2>1 DEF PortInv, PortTypeOK, ClientTypeOK
<1>7. consumer' \in [Stream -> Consumer]
  <2>1. \A k \in Stream : consumer'[k] \in Consumer
    BY <1>5, <1>6 DEF PortInv, PortTypeOK, ClientTypeOK
  <2>2. consumer' = [k \in Stream |-> consumer'[k]]
    BY DEF _workerEnded, FailedStreams
  <2>. QED  BY <2>1, <2>2
<1>8. PortTypeOK'
  BY <1>1, <1>2, <1>3, <1>4, <1>5, <1>6, <1>7
  DEF PortInv, PortTypeOK, ClientTypeOK, Running, InboxOK, OutboxOK
<1>9. Lives'
  BY <1>1, <1>2, <1>3, <1>4, <1>5, <1>6, <1>7
  DEF PortInv, Lives, Running
<1>10. CloseIsLast'
  BY <1>1, <1>2, <1>3, <1>4, <1>5, <1>6, <1>7
  DEF PortInv, CloseIsLast, Lives, InboxOK, OutboxOK, MoreCommands, MoreMessages
<1>11. RepliesCome'
  BY <1>1, <1>2, <1>3, <1>4, <1>5, <1>6, <1>7
  DEF PortInv, RepliesCome, Lost, MoreCommands, MoreMessages
<1>12. EndsCome'
  BY <1>1, <1>2, <1>3, <1>4, <1>5, <1>6, <1>7
  DEF PortInv, EndsCome, Lost, Running, PortTypeOK, ClientTypeOK, MoreCommands,
      MoreMessages
<1>13. Registered'
  <2>1. ASSUME NEW k \in Stream PROVE RegisteredFor(k)'
    BY <1>1, <1>5, <1>6 DEF PortInv, Registered, RegisteredFor
  <2>. QED  BY <2>1 DEF Registered
<1>14. Once'
  <2>1. ASSUME NEW k \in Stream PROVE OnceFor(k)'
    <3>1. OnceFor(k)
      BY DEF PortInv, Once
    <3>2. CASE k \in _streams
      BY <1>1, <1>2, <1>4, <1>6, <3>1, <3>2 DEF OnceFor, Over
    <3>3. CASE k \notin _streams
      BY <1>1, <1>2, <1>4, <1>5, <3>1, <3>3 DEF OnceFor, Over
    <3>. QED  BY <3>2, <3>3
  <2>. QED  BY <2>1 DEF Once
<1>15. Texts'
  <2>1. ASSUME NEW k \in Stream PROVE TextsFor(k)'
    BY <1>1, <1>2, <1>5, <1>6 DEF PortInv, Texts, TextsFor
  <2>. QED  BY <2>1 DEF Texts
<1>16. Fed'
  BY <1>1, <1>2, <1>3, <1>4, <1>5, <1>6, <1>7
  DEF PortInv, Fed, FedFor, Busy, Running, MoreCommands, MoreMessages
<1>. QED  BY <1>8, <1>9, <1>10, <1>11, <1>12, <1>13, <1>14, <1>15, <1>16 DEF PortInv

\* A stutter keeps everything.
LEMMA NothingKeeps ==
  ASSUME PortInv, UNCHANGED vars
  PROVE  PortInv'
<1>1. /\ ready' = ready /\ _closing' = _closing /\ _closed' = _closed
      /\ portsOpen' = portsOpen
      /\ _pending' = _pending /\ _streams' = _streams /\ consumer' = consumer
      /\ settled' = settled
      /\ inbox' = inbox /\ outbox' = outbox /\ worker' = worker
      /\ running' = running
      /\ sent' = sent
  BY DEF vars, main
<1>2. PortTypeOK'
  BY <1>1
  DEF PortInv, PortTypeOK, ClientTypeOK, Running, InboxOK, OutboxOK
<1>3. Lives'
  BY <1>1
  DEF PortInv, Lives, Running
<1>4. CloseIsLast'
  BY <1>1
  DEF PortInv, CloseIsLast, Lives, InboxOK, OutboxOK, MoreCommands, MoreMessages
<1>5. RepliesCome'
  BY <1>1
  DEF PortInv, RepliesCome, Lost, MoreCommands, MoreMessages
<1>6. EndsCome'
  BY <1>1
  DEF PortInv, EndsCome, Lost, Running, PortTypeOK, ClientTypeOK, MoreCommands,
      MoreMessages
<1>7. Registered'
  BY <1>1 DEF PortInv, Registered, RegisteredFor
<1>8. Once'
  BY <1>1
  DEF PortInv, Once, OnceFor, Over, Running, Lives, InboxOK, OutboxOK,
      MoreCommands, MoreMessages
<1>9. Texts'
  BY <1>1
  DEF PortInv, Texts, TextsFor, Once, OnceFor, Over, Running, MoreMessages
<1>10. Fed'
  BY <1>1
  DEF PortInv, Fed, FedFor, Busy, Running, MoreCommands, MoreMessages
<1>. QED  BY <1>2, <1>3, <1>4, <1>5, <1>6, <1>7, <1>8, <1>9, <1>10 DEF PortInv

-----------------------------------------------------------------------------
(* The theorems.                                                           *)

LEMMA InvInit == Init => PortInv
<1>. SUFFICES ASSUME Init PROVE PortInv
  OBVIOUS
<1>. DEFINE c == NewConsumer
<1>1. /\ ready = "no" /\ _closing = FALSE /\ _closed = FALSE /\ portsOpen = TRUE
      /\ _pending = {} /\ _streams = {} /\ inbox = <<>> /\ outbox = <<>>
      /\ worker = "starting"
  BY DEF Init
<1>2. /\ \A k \in Stream : consumer[k] = c /\ sent[k] = 0
      /\ consumer = [k \in Stream |-> c] /\ sent = [k \in Stream |-> 0]
      /\ settled = [r \in Request \union {Close} |-> "no"]
  BY DEF Init
<1>3. running = [i \in {} |-> NewOperation] /\ Running = {}
  BY DEF Init, Running
<1>4. /\ c \in Consumer /\ Orderly(c, 0) /\ Reached(c) = 0
      /\ ~c.listened /\ ~c.cancelled /\ ~c.done /\ c.finished = c.done
  <2>1. c \in Consumer
    BY PortBounds DEF NewConsumer, Consumer
  <2>2. /\ c.buffer = <<>> /\ c.tokens = 0 /\ c.end = "no" /\ ~c.listened
        /\ ~c.cancelled /\ ~c.done /\ c.finished = c.done
    BY DEF NewConsumer
  <2>3. Reached(c) = 0
    BY <2>2, CountEmpty DEF Reached
  <2>4. \A S, T : Behind(<<>>, S, T)
    BY DEF Behind
  <2>5. Orderly(c, 0)
    BY <2>2, <2>3, <2>4, InEmpty DEF Orderly
  <2>. QED  BY <2>1, <2>2, <2>3, <2>5
<1>5. /\ \A m : ~In(inbox, m) /\ ~In(outbox, m)
      /\ \A S, T : Behind(inbox, S, T) /\ Behind(outbox, S, T)
  BY <1>1, InEmpty DEF Behind
<1>6. ClientTypeOK
  BY <1>1, <1>2, <1>4 DEF ClientTypeOK
<1>7. PortTypeOK
  <2>1. /\ inbox \in Seq(Commands) /\ outbox \in Seq(Messages)
        /\ worker \in {"starting", "up", "gone"}
        /\ Running \subseteq Stream /\ IsFiniteSet(Running)
    BY <1>1, <1>3, FS_EmptySet
  <2>2. running \in [Running -> [credit : BOOLEAN, cancelRequested : BOOLEAN,
                                 final : BOOLEAN]]
    BY <1>3
  <2>3. sent \in [Stream -> 0 .. MaxTokens]
    BY <1>2, PortBounds
  <2>. QED  BY <1>6, <2>1, <2>2, <2>3 DEF PortTypeOK
<1>8. Lives /\ CloseIsLast
  BY <1>1, <1>2, <1>3, <1>4, <1>5 DEF Lives, CloseIsLast
<1>9. RepliesCome /\ EndsCome
  BY <1>1 DEF RepliesCome, EndsCome
<1>10. Registered
  BY <1>1, <1>2, <1>4 DEF Registered, RegisteredFor
<1>11. Once
  BY <1>1, <1>2, <1>3, <1>4, <1>5 DEF Once, OnceFor, Over
<1>12. Texts
  BY <1>1, <1>2, <1>4 DEF Texts, TextsFor
<1>13. Fed
  BY <1>3 DEF Fed, FedFor
<1>. QED  BY <1>7, <1>8, <1>9, <1>10, <1>11, <1>12, <1>13 DEF PortInv

LEMMA NextKeeps == PortInv /\ [Next]_vars => PortInv'
<1>. SUFFICES ASSUME PortInv, [Next]_vars PROVE PortInv'
  OBVIOUS
<1>1. ASSUME NEW r \in Request, _request(r) PROVE PortInv'
  <2>1. CASE ~_closed /\ ~_closing
    BY <1>1, <2>1, RequestKeeps
  <2>2. CASE _closed \/ _closing
    BY <1>1, <2>2, RequestFails
  <2>. QED  BY <2>1, <2>2
<1>2. ASSUME NEW k \in Stream, onListen(k) PROVE PortInv'
  <2>1. CASE ~_closed /\ ~_closing
    BY <1>2, <2>1, ListenKeeps
  <2>2. CASE _closed \/ _closing
    BY <1>2, <2>2, ListenFails
  <2>. QED  BY <2>1, <2>2
<1>3. ASSUME NEW k \in Stream, pause(k) PROVE PortInv'
  BY <1>3, PauseKeeps
<1>4. ASSUME NEW k \in Stream, resume(k) PROVE PortInv'
  BY <1>4, ResumeKeeps
<1>5. ASSUME NEW k \in Stream, onCancel(k) PROVE PortInv'
  BY <1>5, CancelKeeps
<1>6. CASE close
  <2>1. CASE _closed
    BY <1>6, <2>1, CloseAgainKeeps
  <2>2. CASE ~_closed
    BY <1>6, <2>2, CloseKeeps
  <2>. QED  BY <2>1, <2>2
<1>7. CASE ReceiveReady
  BY <1>7, ReadyKeeps
<1>8. CASE ReceiveReply
  <2>1. CASE Head(outbox).id = Close
    BY <1>8, <2>1, CloseReplyKeeps
  <2>2. CASE Head(outbox).id # Close
    BY <1>8, <2>2, ReplyKeeps
  <2>. QED  BY <2>1, <2>2
<1>9. CASE ReceiveToken
  BY <1>9, TokenKeeps
<1>10. CASE ReceiveTerminal
  BY <1>10, TerminalKeeps
<1>11. CASE _workerEnded
  BY <1>11, WorkerEndedKeeps
<1>12. ASSUME NEW k \in Stream, Flush(k) PROVE PortInv'
  BY <1>12, FlushedKeeps
<1>13. CASE _workerMain
  BY <1>13, StartKeeps
<1>14. CASE WorkerReplies
  BY <1>14, RepliesKeep
<1>15. CASE WorkerGenerates
  <2>. DEFINE h == Head(inbox)
  <2>1. \/ /\ running' = [k \in Running \union {h.id} |->
                            IF k \in Running THEN running[k] ELSE NewOperation]
           /\ outbox' = outbox
        \/ outbox' = outbox \o <<Message("ended", h.id)>> /\ running' = running
    BY <1>15 DEF WorkerGenerates, Say, Whom
  <2>2. CASE outbox' = outbox /\ running' = [k \in Running \union {h.id} |->
                            IF k \in Running THEN running[k] ELSE NewOperation]
    BY <1>15, <2>2, BeginsKeeps
  <2>3. CASE outbox' = outbox \o <<Message("ended", h.id)>> /\ running' = running
    BY <1>15, <2>3, RefusesKeep
  <2>. QED  BY <2>1, <2>2, <2>3
<1>16. CASE WorkerIsTold
  BY <1>16, ToldKeeps
<1>17. CASE WorkerCloses
  BY <1>17, ClosesKeeps
<1>18. ASSUME NEW k \in Stream, WorkerSends(k) PROVE PortInv'
  BY <1>18, SendsKeep
<1>19. ASSUME NEW k \in Stream, WorkerFinal(k) PROVE PortInv'
  BY <1>19, FinalKeeps
<1>20. ASSUME NEW k \in Stream, WorkerEnds(k) PROVE PortInv'
  BY <1>20, EndsKeep
<1>21. CASE WorkerDies
  BY <1>21, DiesKeeps
<1>22. CASE UNCHANGED vars
  BY <1>22, NothingKeeps
<1>. QED
  BY <1>1, <1>2, <1>3, <1>4, <1>5, <1>6, <1>7, <1>8, <1>9, <1>10, <1>11, <1>12,
     <1>13, <1>14, <1>15, <1>16, <1>17, <1>18, <1>19, <1>20, <1>21, <1>22
  DEF Next, Call, Receive, Worker

\* In every reachable state what the backend waits for is on its way or lost,
\* and what reached a consumer adds up with what is in the port.
THEOREM PortsAgree == Spec => []PortInv
BY InvInit, NextKeeps, PTL DEF Spec

\* Nobody is left waiting (native_backend.dart, _workerEnded and the reply to
\* close): with the receive ports closed no request is pending, no stream is
\* registered and every consumer that listened has its end.
THEOREM NobodyIsLeftWaiting == Spec => []NobodyWaits
<1>1. PortInv => NobodyWaits
  BY DEF PortInv, PortTypeOK, Lives, Registered, RegisteredFor, NobodyWaits
<1>. QED  BY <1>1, PortsAgree, PTL

\* A cancellation whose future is complete has cleaned up (onCancel): the worker
\* is gone, or neither runs the stream's operation nor will be told to start it.
THEOREM CancelAlwaysCleans == Spec => []CancelMeansCleaned
<1>1. PortInv => CancelMeansCleaned
  <2>. SUFFICES ASSUME PortInv, NEW k \in Stream, consumer[k].cancelled,
                       consumer[k].done \/ ~consumer[k].cancelWaits,
                       worker # "gone"
                PROVE  /\ k \notin Running
                       /\ \A i \in DOMAIN inbox : inbox[i] # Command("generate", k)
    BY DEF CancelMeansCleaned
  <2>1. Over(k)
    BY DEF PortInv, Once, OnceFor
  <2>2. DOMAIN inbox = 1 .. Len(inbox)
    BY DEF PortInv, PortTypeOK
  <2>. QED  BY <2>1, <2>2 DEF Over, In, Generate
<1>. QED  BY <1>1, PortsAgree, PTL

\* Pausing loses no text (onPause, onResume and the controller's buffer): a
\* listener that the worker's terminal event reached heard every text sent.
THEOREM TextsAreNotDropped == Spec => []NoTextDropped
<1>1. PortInv => NoTextDropped
  <2>. SUFFICES ASSUME PortInv, NEW k \in Stream, consumer[k].end = "ended"
                PROVE  consumer[k].tokens = sent[k]
    BY DEF NoTextDropped
  <2>1. Orderly(consumer[k], sent[k]) /\ consumer[k] \in Consumer
    BY DEF PortInv, Texts, TextsFor, PortTypeOK, ClientTypeOK
  <2>2. consumer[k].buffer = <<>> /\ Reached(consumer[k]) = sent[k]
    BY <2>1 DEF Orderly
  <2>3. consumer[k].tokens \in Nat
    BY <2>1, PortBounds DEF Consumer
  <2>. QED  BY <2>2, <2>3, CountEmpty DEF Reached
<1>. QED  BY <1>1, PortsAgree, PTL

\* A consumer that keeps up is never starved (onListen, onResume, token): the
\* worker has its credit, or a credit or a text of it is on its way.
THEOREM ConsumersAreNeverStarved == Spec => []NeverStarved
<1>1. PortInv => NeverStarved
  <2>. SUFFICES ASSUME PortInv, NEW k \in Stream, k \in Running, portsOpen,
                       ~consumer[k].cancelled, ~Busy(consumer[k])
                PROVE  \/ running[k].credit
                       \/ \E i \in DOMAIN inbox : inbox[i] = Command("credit", k)
                       \/ \E i \in DOMAIN outbox : outbox[i] = Message("token", k)
    BY DEF NeverStarved
  <2>1. \/ running[k].credit
        \/ In(inbox, Command("credit", k))
        \/ In(outbox, Token(k))
    BY DEF PortInv, Fed, FedFor
  <2>2. DOMAIN inbox = 1 .. Len(inbox) /\ DOMAIN outbox = 1 .. Len(outbox)
    BY DEF PortInv, PortTypeOK
  <2>. QED  BY <2>1, <2>2 DEF In, Token
<1>. QED  BY <1>1, PortsAgree, PTL


=============================================================================
