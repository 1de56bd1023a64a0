--------------------------- MODULE LrlmBridgeProofs ---------------------------
(***************************************************************************)
(* Proofs about the callback bridge, for every number of ids, threads,     *)
(* events and bytes.  First what the helpers do to one Operation, then     *)
(* that every action keeps the inductive invariant, then what the sums     *)
(* over the queues come to.                                                *)
(***************************************************************************)
EXTENDS LrlmBridge, WellFoundedInduction, TLAPS

LEMMA SizesAreNat ==
  \A size \in {0} \union TextSize \union ErrorSize : size \in Nat
<1>1. \A size \in 1 .. (MaxBytes + 1) : size \in Nat
  BY BoundsAssumption
<1>. QED  BY <1>1, BoundsAssumption

\* bytes is the sum of the queued sizes, without a sum: f lists the partial
\* sums.  Without it nothing says that take cannot make bytes negative.
Sized(op) ==
    \E f \in [0 .. Len(op.queue) -> Nat] :
        /\ f[0] = 0
        /\ f[Len(op.queue)] = op.bytes
        /\ \A i \in 1 .. Len(op.queue) : f[i] = f[i - 1] + op.queue[i].size
        /\ \A i, j \in 0 .. Len(op.queue) : i <= j => f[i] <= f[j]

Fits(op) ==
    /\ Len(op.queue) <= MaxEvents
    /\ ~op.final => Len(op.queue) <= MaxEvents - 1

Sound(op) == op \in Operation /\ Sized(op) /\ Fits(op)

LEMMA NewSound == Sound(NewOperation)
<1>. USE BoundsAssumption
<1>1. NewOperation \in Operation
  BY DEF NewOperation, Operation
<1>2. Fits(NewOperation)
  BY DEF NewOperation, Fits
<1>3. Sized(NewOperation)
  <2>. DEFINE f == [i \in 0 .. 0 |-> 0]
  <2>1. /\ f \in [0 .. Len(NewOperation.queue) -> Nat]
        /\ f[0] = 0
        /\ f[Len(NewOperation.queue)] = NewOperation.bytes
        /\ \A i \in 1 .. Len(NewOperation.queue) :
             f[i] = f[i - 1] + NewOperation.queue[i].size
        /\ \A i, j \in 0 .. Len(NewOperation.queue) : i <= j => f[i] <= f[j]
    BY DEF NewOperation
  <2>. QED  BY <2>1 DEF Sized
<1>. QED  BY <1>1, <1>2, <1>3 DEF Sound

\* Clear leaves nothing to count.
LEMMA ClearSound ==
  ASSUME NEW op, Sound(op)
  PROVE  /\ Sound(Clear(op))
         /\ Clear(op).queue = <<>>
         /\ Clear(op).bytes = 0
         /\ Clear(op).cancelled = op.cancelled
         /\ Clear(op).overflow = op.overflow
         /\ Clear(op).final = op.final
         /\ Clear(op).started = op.started
         /\ Clear(op).terminal_taken = op.terminal_taken
<1>. USE BoundsAssumption
<1>. DEFINE c == Clear(op)
<1>1. /\ c \in Operation
      /\ c.queue = <<>>
      /\ c.bytes = 0
      /\ c.cancelled = op.cancelled
      /\ c.overflow = op.overflow
      /\ c.final = op.final
      /\ c.started = op.started
      /\ c.terminal_taken = op.terminal_taken
  <2>1. op \in Operation /\ <<>> \in Seq(Event) /\ 0 \in 0 .. MaxBytes
    BY DEF Sound
  <2>2. c \in Operation
    BY <2>1 DEF Clear, Operation
  <2>. QED  BY <2>1, <2>2 DEF Clear, Operation
<1>2. Fits(c)
  BY <1>1 DEF Fits
<1>3. Sized(c)
  <2>. DEFINE f == [i \in 0 .. 0 |-> 0]
  <2>. HIDE DEF c
  <2>1. /\ f \in [0 .. Len(c.queue) -> Nat]
        /\ f[0] = 0
        /\ f[Len(c.queue)] = c.bytes
        /\ \A i \in 1 .. Len(c.queue) : f[i] = f[i - 1] + c.queue[i].size
        /\ \A i, j \in 0 .. Len(c.queue) : i <= j => f[i] <= f[j]
    BY <1>1
  <2>. QED  BY <2>1 DEF Sized
<1>. QED  BY <1>1, <1>2, <1>3 DEF Sound

\* Push appends and keeps the count exact.
LEMMA PushSized ==
  ASSUME NEW op \in Operation, Sized(op), NEW e \in Event,
         op.bytes + e.size <= MaxBytes
  PROVE  /\ Push(op, e) \in Operation
         /\ Sized(Push(op, e))
         /\ Push(op, e).queue = Append(op.queue, e)
         /\ Push(op, e).cancelled = op.cancelled
         /\ Push(op, e).overflow = op.overflow
         /\ Push(op, e).final = op.final
         /\ Push(op, e).started = op.started
         /\ Push(op, e).terminal_taken = op.terminal_taken
<1>. USE BoundsAssumption
<1>. DEFINE p == Push(op, e)
            n == Len(op.queue)
<1>1. /\ p \in Operation
      /\ p.queue = Append(op.queue, e)
      /\ p.bytes = op.bytes + e.size
      /\ p.cancelled = op.cancelled
      /\ p.overflow = op.overflow
      /\ p.final = op.final
      /\ p.started = op.started
      /\ p.terminal_taken = op.terminal_taken
  <2>1. /\ Append(op.queue, e) \in Seq(Event)
        /\ op.bytes + e.size \in 0 .. MaxBytes
    BY DEF Operation, Event
  <2>2. p \in Operation
    BY <2>1 DEF Push, Operation
  <2>. QED  BY <2>1, <2>2 DEF Push, Operation
<1>2. Sized(p)
  <2>1. PICK f \in [0 .. n -> Nat] :
             /\ f[0] = 0
             /\ f[n] = op.bytes
             /\ \A i \in 1 .. n : f[i] = f[i - 1] + op.queue[i].size
             /\ \A i, j \in 0 .. n : i <= j => f[i] <= f[j]
    BY DEF Sized
  <2>. DEFINE g == [i \in 0 .. n + 1 |-> IF i = n + 1 THEN p.bytes ELSE f[i]]
  <2>2. n \in Nat /\ op.bytes \in Nat /\ p.bytes \in Nat /\ e.size \in Nat
    BY <1>1 DEF Operation, Event
  <2>3. Len(p.queue) = n + 1 /\ p.queue[n + 1] = e
    BY <1>1 DEF Operation
  <2>4. \A i \in 1 .. n : p.queue[i] = op.queue[i]
    BY <1>1 DEF Operation
  <2>. HIDE DEF p, n
  <2>5. g \in [0 .. n + 1 -> Nat] /\ g[0] = 0 /\ g[n + 1] = p.bytes
    BY <2>1, <2>2
  <2>6. \A i \in 1 .. n + 1 : g[i] = g[i - 1] + p.queue[i].size
    <3>1. TAKE i \in 1 .. n + 1
    <3>2. CASE i = n + 1
      BY <1>1, <2>1, <2>2, <2>3, <3>2
    <3>3. CASE i # n + 1
      <4>1. i \in 1 .. n /\ i - 1 \in 0 .. n
        BY <2>2, <3>3
      <4>2. g[i] = f[i] /\ g[i - 1] = f[i - 1]
        BY <2>2, <4>1
      <4>. QED  BY <2>1, <2>4, <4>1, <4>2
    <3>. QED  BY <3>2, <3>3
  <2>7. \A i, j \in 0 .. n + 1 : i <= j => g[i] <= g[j]
    <3>1. \A i \in 0 .. n : f[i] <= p.bytes
      BY <1>1, <2>1, <2>2
    <3>. QED  BY <2>1, <2>2, <3>1
  <2>. QED  BY <2>3, <2>5, <2>6, <2>7 DEF Sized
<1>. QED  BY <1>1, <1>2

\* take removes the front and can afford its size.
LEMMA TakenSound ==
  ASSUME NEW op, Sound(op), op.queue # <<>>
  PROVE  /\ TakenOperation(op) \in Operation
         /\ Sized(TakenOperation(op))
         /\ TakenOperation(op).queue = Tail(op.queue)
         /\ Head(op.queue) \in Event
         /\ TakenOperation(op).cancelled = op.cancelled
         /\ TakenOperation(op).overflow = op.overflow
         /\ TakenOperation(op).final = op.final
         /\ TakenOperation(op).started = op.started
         /\ TakenOperation(op).terminal_taken
              = (op.terminal_taken \/ ~IsText(Head(op.queue)))
         /\ Len(TakenOperation(op).queue) = Len(op.queue) - 1
         /\ \A i \in 1 .. Len(op.queue) - 1 :
              TakenOperation(op).queue[i] = op.queue[i + 1]
<1>. USE BoundsAssumption
<1>. DEFINE p == TakenOperation(op)
            n == Len(op.queue)
            e == Head(op.queue)
<1>1. /\ n \in Nat \ {0}
      /\ e \in Event
      /\ e = op.queue[1]
      /\ op.bytes \in 0 .. MaxBytes
      /\ e.size \in 0 .. MaxBytes
  <2>1. op.queue \in Seq(Event) /\ op.bytes \in 0 .. MaxBytes
    BY DEF Sound, Operation
  <2>2. n \in Nat \ {0} /\ e \in Event /\ e = op.queue[1]
    BY <2>1
  <2>3. e.size \in 0 .. MaxBytes
    BY <2>2 DEF Event
  <2>. QED  BY <2>1, <2>2, <2>3
<1>2. PICK f \in [0 .. n -> Nat] :
           /\ f[0] = 0
           /\ f[n] = op.bytes
           /\ \A i \in 1 .. n : f[i] = f[i - 1] + op.queue[i].size
           /\ \A i, j \in 0 .. n : i <= j => f[i] <= f[j]
  BY DEF Sound, Sized
<1>3. f[1] = e.size /\ e.size <= op.bytes
  <2>1. 1 \in 1 .. n /\ 1 \in 0 .. n /\ n \in 0 .. n /\ 1 - 1 = 0
    BY <1>1
  <2>2. f[1] = f[0] + op.queue[1].size
    BY <1>2, <2>1
  <2>3. f[1] = e.size
    BY <1>1, <1>2, <2>2
  <2>. QED  BY <1>1, <1>2, <2>1, <2>3
<1>4. p \in Operation
  <2>1. /\ op \in Operation
        /\ Tail(op.queue) \in Seq(Event)
        /\ op.bytes - e.size \in 0 .. MaxBytes
        /\ (op.terminal_taken \/ ~IsText(e)) \in BOOLEAN
    BY <1>1, <1>3 DEF Sound, Operation
  <2>. QED  BY <2>1 DEF TakenOperation, Operation
<1>5. /\ p.queue = Tail(op.queue)
      /\ p.bytes = op.bytes - e.size
      /\ p.cancelled = op.cancelled
      /\ p.overflow = op.overflow
      /\ p.final = op.final
      /\ p.started = op.started
      /\ p.terminal_taken = (op.terminal_taken \/ ~IsText(e))
  <2>1. op \in Operation
    BY DEF Sound
  <2>2. /\ p.queue = Tail(op.queue)
        /\ p.bytes = op.bytes - e.size
        /\ p.cancelled = op.cancelled
        /\ p.overflow = op.overflow
        /\ p.final = op.final
        /\ p.started = op.started
    BY <2>1 DEF TakenOperation, Operation
  <2>3. p.terminal_taken = (op.terminal_taken \/ ~IsText(e))
    BY <2>1 DEF TakenOperation, Operation
  <2>. QED  BY <2>2, <2>3
<1>6. Len(p.queue) = n - 1 /\ \A i \in 1 .. n - 1 : p.queue[i] = op.queue[i + 1]
  BY <1>5 DEF Sound, Operation
<1>7. Sized(p)
  <2>. DEFINE g == [i \in 0 .. n - 1 |-> f[i + 1] - f[1]]
  <2>. HIDE DEF p, n, e
  <2>1. \A i \in 0 .. n - 1 : i + 1 \in 0 .. n /\ f[i + 1] >= f[1] /\ f[1] \in Nat
    BY <1>1, <1>2
  <2>2. g \in [0 .. n - 1 -> Nat] /\ g[0] = 0
    BY <1>1, <1>2, <2>1
  <2>3. g[n - 1] = p.bytes
    BY <1>1, <1>2, <1>3, <1>5
  <2>4. \A i \in 1 .. n - 1 : g[i] = g[i - 1] + p.queue[i].size
    <3>1. TAKE i \in 1 .. n - 1
    <3>2. f[i + 1] = f[i] + op.queue[i + 1].size /\ p.queue[i] = op.queue[i + 1]
      <4>1. i + 1 \in 1 .. n /\ i + 1 - 1 = i
        BY <1>1
      <4>2. f[i + 1] = f[i + 1 - 1] + op.queue[i + 1].size
        BY <1>2, <4>1
      <4>. QED  BY <1>6, <4>1, <4>2
    <3>3. i + 1 \in 0 .. n /\ i \in 0 .. n - 1 /\ i - 1 \in 0 .. n - 1 /\ i - 1 + 1 = i
      BY <1>1
    <3>4. g[i] = f[i + 1] - f[1] /\ g[i - 1] = f[i - 1 + 1] - f[1]
      BY <3>3
    <3>5. p.queue[i].size \in Nat
      <4>1. p.queue \in Seq(Event) /\ i \in 1 .. Len(p.queue)
        BY <1>4, <1>6 DEF Operation
      <4>2. p.queue[i] \in Event
        BY <4>1
      <4>. QED  BY <4>2 DEF Event
    <3>6. f[1] \in Nat /\ f[i] \in Nat /\ f[i + 1] \in Nat
      BY <1>1, <1>2, <3>3
    <3>7. f[i + 1] - f[1] = f[i] - f[1] + p.queue[i].size
      BY <3>2, <3>5, <3>6
    <3>8. f[i + 1] - f[1] \in Int /\ f[i] - f[1] \in Int
      BY <3>6
    <3>. HIDE DEF g
    <3>. QED  BY <3>3, <3>4, <3>5, <3>7, <3>8
  <2>5. \A i, j \in 0 .. n - 1 : i <= j => g[i] <= g[j]
    BY <1>1, <1>2, <2>1
  <2>. QED  BY <1>6, <2>2, <2>3, <2>4, <2>5 DEF Sized
<1>. QED  BY <1>1, <1>4, <1>5, <1>6, <1>7

-----------------------------------------------------------------------------
(* Finish, Callback and cancel.                                            *)

\* What nobody touches after construction but the named helper.
SameFlags(op, p) ==
    /\ p.cancelled = op.cancelled
    /\ p.started = op.started
    /\ p.terminal_taken = op.terminal_taken

\* Finish appends one terminal, behind the texts it keeps.  It keeps none that
\* the operation gave up on, and all of them if it has no message.
LEMMA FinishSound ==
  ASSUME NEW op, Sound(op), ~op.final,
         NEW id \in Id, NEW kind \in {Complete, Error}, NEW error \in Nat
  PROVE  LET p == Finish(op, id, kind, error) IN
         /\ Sound(p)
         /\ p.final
         /\ SameFlags(op, p)
         /\ p.overflow = op.overflow
         /\ \E q \in {<<>>, op.queue}, e \in Event :
              /\ p.queue = Append(q, e)
              /\ e.kind = FinishKind(op, kind)
              /\ Lossy(op) => q = <<>>
              /\ error = 0 /\ ~Lossy(op) => q = op.queue
<1>. USE BoundsAssumption
<1>. DEFINE size == FinishSize(op, error)
            e    == [id |-> id, kind |-> FinishKind(op, kind),
                     size |-> size, n |-> 0]
            drop == \/ op.cancelled
                    \/ op.overflow
                    \/ op.bytes > MaxBytes - size
            kept == IF drop THEN Clear(op) ELSE op
            mid  == Push(kept, e)
            p    == Finish(op, id, kind, error)
<1>1. /\ op \in Operation
      /\ op.bytes \in 0 .. MaxBytes
      /\ op.cancelled \in BOOLEAN /\ op.overflow \in BOOLEAN
      /\ op.queue \in Seq(Event)
      /\ Len(op.queue) <= MaxEvents - 1
  BY DEF Sound, Operation, Fits
<1>2. size \in 0 .. MaxBytes
  BY <1>1 DEF FinishSize
<1>3. FinishKind(op, kind) \in TerminalKind
  BY <1>1 DEF FinishKind, TerminalKind
<1>4. e \in Event /\ e.size = size /\ e.kind = FinishKind(op, kind)
  BY <1>2, <1>3 DEF Event
<1>5. p = [mid EXCEPT !.final = TRUE]
  BY DEF Finish
<1>6. /\ Sound(kept) /\ SameFlags(op, kept)
      /\ kept.overflow = op.overflow
      /\ kept.final = op.final
      /\ kept.queue = IF drop THEN <<>> ELSE op.queue
      /\ kept.bytes = IF drop THEN 0 ELSE op.bytes
  <2>1. CASE drop
    BY <2>1, ClearSound DEF SameFlags
  <2>2. CASE ~drop
    BY <2>2 DEF SameFlags
  <2>. QED  BY <2>1, <2>2
<1>7. kept.bytes + e.size <= MaxBytes
  BY <1>1, <1>2, <1>4, <1>6
<1>8. /\ mid \in Operation /\ Sized(mid) /\ SameFlags(op, mid)
      /\ mid.overflow = op.overflow
      /\ mid.queue = Append(kept.queue, e)
  <2>. HIDE DEF kept, e, mid, drop, size
  <2>1. kept \in Operation /\ Sized(kept)
    BY <1>6 DEF Sound
  <2>2. /\ Push(kept, e) \in Operation
        /\ Sized(Push(kept, e))
        /\ Push(kept, e).queue = Append(kept.queue, e)
        /\ Push(kept, e).cancelled = kept.cancelled
        /\ Push(kept, e).overflow = kept.overflow
        /\ Push(kept, e).started = kept.started
        /\ Push(kept, e).terminal_taken = kept.terminal_taken
    BY <1>4, <1>7, <2>1, PushSized
  <2>. QED  BY <1>6, <2>2 DEF SameFlags, mid
<1>9. /\ p \in Operation /\ SameFlags(op, p)
      /\ p.final = TRUE
      /\ p.overflow = op.overflow
      /\ p.queue = mid.queue
      /\ p.bytes = mid.bytes
  <2>. HIDE DEF mid, p
  <2>. QED  BY <1>5, <1>8 DEF Operation, SameFlags
<1>10. Sized(p)
  <2>. HIDE DEF mid, p
  <2>. QED  BY <1>8, <1>9 DEF Sized
<1>11. Fits(p)
  <2>. HIDE DEF mid, p, kept, e, drop, size
  <2>1. kept.queue \in Seq(Event) /\ Len(kept.queue) <= MaxEvents - 1
    BY <1>1, <1>6
  <2>. QED  BY <1>4, <1>8, <1>9, <2>1 DEF Fits
<1>12. error = 0 /\ ~Lossy(op) => ~drop
  BY <1>1 DEF Lossy, FinishSize
<1>13. Lossy(op) => drop
  BY DEF Lossy
<1>. HIDE DEF mid, p, e, drop, size
<1>. QED
  BY <1>1, <1>4, <1>6, <1>8, <1>9, <1>10, <1>11, <1>12, <1>13 DEF Sound, p

\* A text is queued as it is, or it is what overruns the queue, or it comes too
\* late to be wanted.
LEMMA OfferSound ==
  ASSUME NEW op, Sound(op), ~op.final,
         NEW id \in Id, NEW size \in {0} \union TextSize, NEW n \in Nat
  PROVE  LET p == Offer(op, id, size, n) IN
         /\ Sound(p)
         /\ ~p.final
         /\ SameFlags(op, p)
         /\ \/ (size = 0 \/ Lossy(op)) /\ p = op
            \/ /\ size # 0 /\ ~Lossy(op)
               /\ p.queue = <<>> /\ p.overflow
            \/ /\ size # 0 /\ ~Lossy(op)
               /\ p.overflow = op.overflow
               /\ \E e \in Event : /\ p.queue = Append(op.queue, e)
                                   /\ IsText(e) /\ e.n = n
<1>. USE BoundsAssumption
<1>. DEFINE p == Offer(op, id, size, n)
            full == \/ Len(op.queue) >= MaxEvents - 1
                    \/ size > MaxBytes - op.bytes
            e == [id |-> id, kind |-> TextKind, size |-> size, n |-> n]
<1>1. /\ op \in Operation
      /\ op.bytes \in 0 .. MaxBytes
      /\ op.queue \in Seq(Event)
      /\ Len(op.queue) \in Nat
      /\ size \in Nat
  <2>1. op \in Operation /\ op.bytes \in 0 .. MaxBytes /\ op.queue \in Seq(Event)
    BY DEF Sound, Operation
  <2>2. size \in Nat
    OBVIOUS
  <2>. QED  BY <2>1, <2>2
<1>2. CASE size = 0 \/ Lossy(op)
  <2>1. p = op
    BY <1>2 DEF Offer, Lossy
  <2>. QED  BY <1>2, <2>1 DEF SameFlags
<1>3. CASE size # 0 /\ ~Lossy(op) /\ full
  <2>. DEFINE c == Clear(op)
  <2>1. p = [c EXCEPT !.overflow = TRUE]
    BY <1>3 DEF Offer, Lossy
  <2>2. Sound(c) /\ SameFlags(op, c) /\ c.queue = <<>> /\ c.final = op.final
    BY ClearSound DEF SameFlags
  <2>. HIDE DEF c, p
  <2>3. /\ p \in Operation /\ SameFlags(op, p)
        /\ p.queue = c.queue /\ p.bytes = c.bytes
        /\ p.overflow = TRUE /\ p.final = op.final
    BY <2>1, <2>2 DEF Sound, Operation, SameFlags
  <2>4. Sized(p) /\ Fits(p)
    BY <2>2, <2>3 DEF Sound, Sized, Fits
  <2>. QED  BY <1>3, <2>2, <2>3, <2>4 DEF Sound, p
<1>4. CASE size # 0 /\ ~Lossy(op) /\ ~full
  <2>1. p = Push(op, e)
    BY <1>4 DEF Offer, Lossy
  <2>2. /\ e \in Event /\ IsText(e) /\ e.n = n
        /\ op.bytes + e.size <= MaxBytes
    BY <1>1, <1>4 DEF Event, IsText
  <2>. HIDE DEF e, p
  <2>3. /\ p \in Operation /\ Sized(p) /\ SameFlags(op, p)
        /\ p.overflow = op.overflow /\ p.final = op.final
        /\ p.queue = Append(op.queue, e)
    BY <1>1, <2>1, <2>2, PushSized DEF Sound, SameFlags
  <2>4. Fits(p)
    BY <1>1, <1>4, <2>2, <2>3 DEF Fits
  <2>. QED  BY <1>4, <2>2, <2>3, <2>4 DEF Sound, p
<1>. QED  BY <1>2, <1>3, <1>4

\* What one registered operation's queue says of its history: t texts were
\* produced, r were taken, and x is the terminal taken.
Story(op, t, r, x) ==
    LET n == Len(op.queue) IN
    /\ x \in TerminalKind \union {Open}
    /\ op.terminal_taken <=> x # Open
    /\ op.terminal_taken => op.final /\ n = 0
    /\ \A i \in 1 .. n - 1 : IsText(op.queue[i])
    /\ n > 0 => (op.final <=> ~IsText(op.queue[n]))
    /\ n > 0 /\ op.final =>
         (op.queue[n].kind \in {Cancelled, Backpressure} <=> Lossy(op))
    /\ op.final /\ ~op.terminal_taken => n > 0
    /\ \A i \in 1 .. n :
         IsText(op.queue[i]) => op.queue[i].n = r + i /\ ~Lossy(op)
    /\ ~Lossy(op) => r + QueuedTexts(op) <= t
    /\ Lossy(op) \/ Failed(op, x) \/ r + QueuedTexts(op) = t

LEMMA FinishStory ==
  ASSUME NEW op, Sound(op), ~op.final,
         NEW id \in Id, NEW kind \in {Complete, Error}, NEW error \in Nat,
         kind = Complete => error = 0,
         NEW t \in Nat, NEW r \in Nat, NEW x, Story(op, t, r, x)
  PROVE  Story(Finish(op, id, kind, error), t, r, x)
<1>. DEFINE p == Finish(op, id, kind, error)
            n == Len(op.queue)
<1>1. /\ Sound(p) /\ p.final /\ SameFlags(op, p) /\ p.overflow = op.overflow
  BY FinishSound
<1>2. PICK q \in {<<>>, op.queue}, e \in Event :
         /\ p.queue = Append(q, e)
         /\ e.kind = FinishKind(op, kind)
         /\ Lossy(op) => q = <<>>
         /\ error = 0 /\ ~Lossy(op) => q = op.queue
  BY FinishSound
<1>3. /\ op.queue \in Seq(Event) /\ n \in Nat
      /\ op.cancelled \in BOOLEAN /\ op.overflow \in BOOLEAN
      /\ op.terminal_taken \in BOOLEAN
  <2>1. op \in Operation
    BY DEF Sound
  <2>2. op.queue \in Seq(Event)
    BY <2>1 DEF Operation
  <2>. QED  BY <2>1, <2>2 DEF Operation
<1>4. /\ ~op.terminal_taken /\ x = Open
      /\ \A i \in 1 .. n : IsText(op.queue[i])
  BY <1>3 DEF Story
<1>5. /\ Len(p.queue) = Len(q) + 1
      /\ p.queue[Len(q) + 1] = e
      /\ \A i \in 1 .. Len(q) : p.queue[i] = q[i]
      /\ Len(q) \in Nat
  BY <1>2, <1>3
<1>6. /\ ~IsText(e)
      /\ e.kind \in {Cancelled, Backpressure} <=> Lossy(op)
      /\ ~Lossy(op) => e.kind = kind
  BY <1>2, <1>3 DEF FinishKind, IsText, Lossy, TextKind, Complete, Error,
                    Cancelled, Backpressure
<1>7. Lossy(p) = Lossy(op) /\ ~p.terminal_taken
  BY <1>1, <1>4 DEF Lossy, SameFlags
<1>8. QueuedTexts(p) = Len(q) /\ QueuedTexts(op) = n
  BY <1>1, <1>3, <1>4, <1>5, <1>7 DEF QueuedTexts
<1>9. \A i \in 1 .. Len(q) : IsText(p.queue[i])
  BY <1>2, <1>4, <1>5
<1>10. \A i \in 1 .. Len(q) : p.queue[i].n = r + i /\ ~Lossy(p)
  BY <1>2, <1>4, <1>5, <1>7 DEF Story
<1>11. ~Lossy(p) => r + QueuedTexts(p) <= t
  BY <1>2, <1>3, <1>5, <1>7, <1>8 DEF Story
<1>12. Lossy(p) \/ Failed(p, x) \/ r + QueuedTexts(p) = t
  <2>1. CASE Lossy(op)
    BY <1>7, <2>1
  <2>2. CASE ~Lossy(op) /\ kind = Error
    BY <1>5, <1>6, <2>2 DEF Failed
  <2>3. CASE ~Lossy(op) /\ kind = Complete
    <3>1. q = op.queue
      BY <1>2, <2>3
    <3>2. ~Failed(op, x)
      BY <1>4 DEF Failed, IsText, TextKind, Error, Open
    <3>. QED  BY <1>8, <2>3, <3>1, <3>2 DEF Story
  <2>. QED  BY <2>1, <2>2, <2>3
<1>. HIDE DEF p, n
<1>13. \A i \in 1 .. Len(p.queue) :
         IsText(p.queue[i]) => p.queue[i].n = r + i /\ ~Lossy(p)
  BY <1>5, <1>6, <1>10
<1>14. x \in TerminalKind \union {Open}
  BY DEF Story
<1>. QED
  BY <1>1, <1>4, <1>5, <1>6, <1>7, <1>9, <1>11, <1>12, <1>13, <1>14 DEF Story, p

\* Offering text number t + 1 keeps the story, one text longer.
LEMMA OfferStory ==
  ASSUME NEW op, Sound(op), ~op.final,
         NEW id \in Id, NEW size \in {0} \union TextSize,
         NEW t \in Nat, NEW r \in Nat, NEW x, Story(op, t, r, x)
  PROVE  Story(Offer(op, id, size, t + 1), IF size = 0 THEN t ELSE t + 1, r, x)
<1>. DEFINE p == Offer(op, id, size, t + 1)
            n == Len(op.queue)
<1>. t + 1 \in Nat
  OBVIOUS
<1>1. Sound(p) /\ ~p.final /\ SameFlags(op, p)
  BY OfferSound
<1>2. /\ op.queue \in Seq(Event) /\ n \in Nat
      /\ op.terminal_taken \in BOOLEAN
  <2>1. op \in Operation
    BY DEF Sound
  <2>2. op.queue \in Seq(Event)
    BY <2>1 DEF Operation
  <2>. QED  BY <2>1, <2>2 DEF Operation
<1>3. /\ ~op.terminal_taken /\ x = Open
      /\ \A i \in 1 .. n : IsText(op.queue[i])
  BY <1>2 DEF Story
<1>4. ~Failed(op, x) /\ QueuedTexts(op) = n
  BY <1>2, <1>3 DEF Failed, IsText, TextKind, Error, Open, QueuedTexts
<1>5. CASE (size = 0 \/ Lossy(op)) /\ p = op
  <2>. HIDE DEF p
  <2>. QED  BY <1>4, <1>5 DEF Story, p
<1>6. CASE size # 0 /\ ~Lossy(op) /\ p.queue = <<>> /\ p.overflow
  <2>. HIDE DEF p
  <2>1. ~p.terminal_taken /\ Lossy(p) /\ Len(p.queue) = 0
    BY <1>1, <1>3, <1>6 DEF SameFlags, Lossy
  <2>2. x \in TerminalKind \union {Open}
    BY DEF Story
  <2>. QED  BY <1>1, <1>3, <1>6, <2>1, <2>2 DEF Story, p
<1>7. CASE /\ size # 0 /\ ~Lossy(op)
           /\ p.overflow = op.overflow
           /\ \E e \in Event : /\ p.queue = Append(op.queue, e)
                               /\ IsText(e) /\ e.n = t + 1
  <2>1. PICK e \in Event : p.queue = Append(op.queue, e) /\ IsText(e) /\ e.n = t + 1
    BY <1>7
  <2>. HIDE DEF p
  <2>2. /\ Len(p.queue) = n + 1
        /\ p.queue[n + 1] = e
        /\ \A i \in 1 .. n : p.queue[i] = op.queue[i]
    BY <1>2, <2>1
  <2>3. ~Lossy(p) /\ ~p.terminal_taken
    BY <1>1, <1>3, <1>7 DEF SameFlags, Lossy
  <2>4. r + n = t
    BY <1>4, <1>7 DEF Story
  <2>5. QueuedTexts(p) = n + 1
    BY <1>1, <1>2, <2>2 DEF QueuedTexts
  <2>6. \A i \in 1 .. n + 1 : IsText(p.queue[i]) /\ p.queue[i].n = r + i
    <3>1. ASSUME NEW i \in 1 .. n
          PROVE  IsText(p.queue[i]) /\ p.queue[i].n = r + i
      BY <1>3, <2>2 DEF Story
    <3>2. IsText(p.queue[n + 1]) /\ p.queue[n + 1].n = r + (n + 1)
      BY <1>2, <2>1, <2>2, <2>4
    <3>. HIDE DEF n
    <3>3. \A i \in 1 .. n + 1 : i \in 1 .. n \/ i = n + 1
      BY <1>2
    <3>. QED  BY <3>1, <3>2, <3>3
  <2>7. x \in TerminalKind \union {Open}
    BY DEF Story
  <2>. HIDE DEF n
  <2>8. /\ \A i \in 1 .. n + 1 :
              IsText(p.queue[i]) => p.queue[i].n = r + i /\ ~Lossy(p)
        /\ r + QueuedTexts(p) = t + 1
        /\ r + QueuedTexts(p) <= t + 1
    BY <1>2, <2>3, <2>4, <2>5, <2>6
  <2>9. /\ \A i \in 1 .. n + 1 - 1 : IsText(p.queue[i])
        /\ IsText(p.queue[n + 1])
    BY <1>2, <2>6
  <2>. QED
    BY <1>1, <1>2, <1>3, <1>7, <2>2, <2>3, <2>7, <2>8, <2>9 DEF Story, p
<1>8. \/ (size = 0 \/ Lossy(op)) /\ p = op
      \/ /\ size # 0 /\ ~Lossy(op)
         /\ p.queue = <<>> /\ p.overflow
      \/ /\ size # 0 /\ ~Lossy(op)
         /\ p.overflow = op.overflow
         /\ \E e \in Event : /\ p.queue = Append(op.queue, e)
                             /\ IsText(e) /\ e.n = t + 1
  BY OfferSound
<1>. QED  BY <1>5, <1>6, <1>7, <1>8

\* The runtime is heard if its chunk carries a text that Callback looks at.
Heard(op, chunk) == ~op.final /\ chunk.error = 0 /\ chunk.text > 0

LEMMA ReceiveSound ==
  ASSUME NEW op, Sound(op),
         NEW id \in Id, NEW chunk \in Chunk, NEW n \in Nat
  PROVE  LET p == Receive(op, id, chunk, n) IN
         /\ Sound(p)
         /\ SameFlags(op, p)
         /\ op.final => p = op
         /\ op.overflow => p.overflow
         /\ p.overflow => op.overflow \/ Heard(op, chunk)
<1>. USE BoundsAssumption
<1>. DEFINE p == Receive(op, id, chunk, n)
            q == Offer(op, id, chunk.text, n)
<1>1. /\ chunk.text \in {0} \union TextSize /\ chunk.text \in Nat
      /\ chunk.error \in Nat
      /\ chunk.final \in BOOLEAN
      /\ 0 \in Nat
      /\ Error \in {Complete, Error} /\ Complete \in {Complete, Error}
  <2>1. /\ chunk.text \in {0} \union TextSize
        /\ chunk.error \in {0} \union ErrorSize
        /\ chunk.final \in BOOLEAN
    BY DEF Chunk
  <2>2. chunk.text \in Nat /\ chunk.error \in Nat
    BY <2>1, SizesAreNat
  <2>. QED  BY <2>1, <2>2
<1>2. CASE op.final
  <2>1. p = op
    BY <1>2 DEF Receive
  <2>. QED  BY <2>1 DEF SameFlags
<1>3. CASE ~op.final /\ chunk.error > 0
  <2>1. p = Finish(op, id, Error, chunk.error)
    BY <1>3 DEF Receive
  <2>2. Sound(p) /\ SameFlags(op, p) /\ p.overflow = op.overflow
    BY <1>1, <1>3, <2>1, FinishSound
  <2>. QED  BY <1>3, <2>2
<1>4. CASE ~op.final /\ ~(chunk.error > 0)
  <2>1. p = IF chunk.final THEN Finish(q, id, Complete, 0) ELSE q
    BY <1>4 DEF Receive
  <2>2. /\ Sound(q) /\ ~q.final /\ SameFlags(op, q)
        /\ op.overflow => q.overflow
        /\ q.overflow => op.overflow \/ Heard(op, chunk)
    <3>1. /\ Sound(q) /\ ~q.final /\ SameFlags(op, q)
          /\ \/ (chunk.text = 0 \/ Lossy(op)) /\ q = op
             \/ /\ chunk.text # 0 /\ ~Lossy(op)
                /\ q.queue = <<>> /\ q.overflow
             \/ /\ chunk.text # 0 /\ ~Lossy(op)
                /\ q.overflow = op.overflow
      BY <1>1, <1>4, OfferSound
    <3>2. chunk.text # 0 => Heard(op, chunk)
      BY <1>1, <1>4 DEF Heard
    <3>. HIDE DEF q
    <3>. QED  BY <3>1, <3>2
  <2>3. CASE chunk.final
    <3>. HIDE DEF p, q
    <3>1. /\ Sound(p) /\ SameFlags(q, p) /\ p.overflow = q.overflow
      BY <1>1, <2>1, <2>2, <2>3, FinishSound
    <3>. QED  BY <1>4, <2>2, <3>1 DEF SameFlags, p
  <2>4. CASE ~chunk.final
    <3>. HIDE DEF p, q
    <3>. QED  BY <1>1, <1>4, <2>1, <2>2, <2>4 DEF p
  <2>. QED  BY <2>3, <2>4
<1>. QED  BY <1>2, <1>3, <1>4

LEMMA ReceiveStory ==
  ASSUME NEW op, Sound(op), NEW id \in Id, NEW chunk \in Chunk,
         NEW t \in Nat, NEW r \in Nat, NEW x, Story(op, t, r, x)
  PROVE  Story(Receive(op, id, chunk, t + 1),
               IF Heard(op, chunk) THEN t + 1 ELSE t, r, x)
<1>. USE BoundsAssumption
<1>. DEFINE p == Receive(op, id, chunk, t + 1)
            q == Offer(op, id, chunk.text, t + 1)
            u == IF Heard(op, chunk) THEN t + 1 ELSE t
<1>1. /\ chunk.text \in {0} \union TextSize /\ chunk.text \in Nat
      /\ chunk.error \in Nat
      /\ chunk.final \in BOOLEAN
      /\ 0 \in Nat /\ t + 1 \in Nat /\ u \in Nat
      /\ Error \in {Complete, Error} /\ Complete \in {Complete, Error}
      /\ Error # Complete
  <2>1. /\ chunk.text \in {0} \union TextSize
        /\ chunk.error \in {0} \union ErrorSize
        /\ chunk.final \in BOOLEAN
    BY DEF Chunk
  <2>2. chunk.text \in Nat /\ chunk.error \in Nat
    BY <2>1, SizesAreNat
  <2>3. t + 1 \in Nat /\ u \in Nat
    OBVIOUS
  <2>. QED  BY <2>1, <2>2, <2>3 DEF Error, Complete
<1>2. CASE op.final
  BY <1>2 DEF Receive, Heard
<1>3. CASE ~op.final /\ chunk.error > 0
  <2>1. p = Finish(op, id, Error, chunk.error) /\ u = t
    BY <1>1, <1>3 DEF Receive, Heard
  <2>2. Story(p, t, r, x)
    BY <1>1, <1>3, <2>1, FinishStory
  <2>. QED  BY <2>1, <2>2
<1>4. CASE ~op.final /\ ~(chunk.error > 0)
  <2>1. p = IF chunk.final THEN Finish(q, id, Complete, 0) ELSE q
    BY <1>4 DEF Receive
  <2>2. Sound(q) /\ ~q.final
    BY <1>1, <1>4, OfferSound
  <2>3. Story(q, u, r, x)
    <3>1. u = IF chunk.text = 0 THEN t ELSE t + 1
      BY <1>1, <1>4 DEF Heard
    <3>2. Story(q, IF chunk.text = 0 THEN t ELSE t + 1, r, x)
      BY <1>1, <1>4, OfferStory
    <3>. HIDE DEF u
    <3>. QED  BY <3>1, <3>2
  <2>4. CASE chunk.final
    <3>. HIDE DEF p, q, u
    <3>1. Story(Finish(q, id, Complete, 0), u, r, x)
      BY <1>1, <2>2, <2>3, FinishStory
    <3>. QED  BY <2>1, <2>4, <3>1 DEF p, u
  <2>5. CASE ~chunk.final
    <3>. HIDE DEF q, u
    <3>. QED  BY <2>1, <2>3, <2>5 DEF u
  <2>. QED  BY <2>4, <2>5
<1>. QED  BY <1>2, <1>3, <1>4

\* cancel empties the queue and, if the runtime was done, leaves a terminal.
LEMMA CancelStory ==
  ASSUME NEW op, Sound(op), ~op.cancelled, ~op.terminal_taken, NEW id \in Id,
         NEW t \in Nat, NEW r \in Nat, NEW x, Story(op, t, r, x)
  PROVE  LET p == CancelledOperation(op, id) IN
         /\ Sound(p)
         /\ p.cancelled
         /\ p.overflow = op.overflow
         /\ p.final = op.final
         /\ p.started = op.started
         /\ Story(p, t, r, x)
<1>. USE BoundsAssumption
<1>. DEFINE p == CancelledOperation(op, id)
            c == Clear(op)
            d == [c EXCEPT !.cancelled = TRUE]
            e == [id |-> id, kind |-> Cancelled, size |-> 0, n |-> 0]
<1>1. /\ Sound(c) /\ c.queue = <<>> /\ c.bytes = 0
      /\ c.overflow = op.overflow /\ c.final = op.final
      /\ c.started = op.started /\ c.terminal_taken = op.terminal_taken
  BY ClearSound
<1>2. /\ d \in Operation /\ d.cancelled
      /\ d.queue = <<>> /\ d.bytes = 0
      /\ d.overflow = op.overflow /\ d.final = op.final
      /\ d.started = op.started /\ d.terminal_taken = op.terminal_taken
  <2>. HIDE DEF c
  <2>. QED  BY <1>1 DEF Sound, Operation
<1>3. Sized(d)
  <2>. HIDE DEF c, d
  <2>. QED  BY <1>1, <1>2 DEF Sound, Sized
<1>4. p = IF op.final THEN Push(d, e) ELSE d
  BY DEF CancelledOperation
<1>5. /\ e \in Event /\ ~IsText(e) /\ e.size = 0
      /\ e.kind \in {Cancelled, Backpressure}
  BY DEF Event, IsText, TextKind, TerminalKind, Complete, Error, Cancelled,
         Backpressure
<1>6. x = Open /\ x \in TerminalKind \union {Open}
  BY DEF Story
<1>7. Lossy(d)
  BY <1>2 DEF Lossy
<1>. HIDE DEF d, e, p
<1>8. CASE op.final
  <2>1. d.bytes + e.size <= MaxBytes
    BY <1>2, <1>5
  <2>2. /\ p \in Operation /\ Sized(p)
        /\ p.queue = Append(d.queue, e)
        /\ p.cancelled = d.cancelled /\ p.overflow = d.overflow
        /\ p.final = d.final /\ p.started = d.started
        /\ p.terminal_taken = d.terminal_taken
    BY <1>2, <1>3, <1>4, <1>5, <1>8, <2>1, PushSized
  <2>3. Len(p.queue) = 1 /\ p.queue[1] = e
    BY <1>2, <1>5, <2>2
  <2>4. Fits(p) /\ Lossy(p)
    BY <1>2, <1>7, <1>8, <2>2, <2>3 DEF Fits, Lossy
  <2>5. Story(p, t, r, x)
    BY <1>2, <1>5, <1>6, <1>8, <2>2, <2>3, <2>4 DEF Story
  <2>. QED  BY <1>2, <2>2, <2>4, <2>5 DEF Sound, p
<1>9. CASE ~op.final
  <2>1. p = d
    BY <1>4, <1>9
  <2>2. Len(d.queue) = 0
    BY <1>2
  <2>3. Fits(d) /\ Story(d, t, r, x)
    BY <1>2, <1>6, <1>7, <1>9, <2>2 DEF Fits, Story
  <2>. QED  BY <1>2, <1>3, <2>1, <2>3 DEF Sound, p
<1>. QED  BY <1>8, <1>9

\* take yields the next text of a stream that gave none up, or the terminal.
LEMMA TakenStory ==
  ASSUME NEW op, Sound(op), op.queue # <<>>,
         NEW t \in Nat, NEW r \in Nat, NEW x, Story(op, t, r, x)
  PROVE  LET p == TakenOperation(op)
             e == Head(op.queue) IN
         /\ Sound(p)
         /\ p.cancelled = op.cancelled /\ p.overflow = op.overflow
         /\ p.final = op.final /\ p.started = op.started
         /\ e \in Event
         /\ x = Open
         /\ IsText(e) => e.n = r + 1 /\ r < t /\ ~Lossy(op)
         /\ ~IsText(e) => /\ op.final
                          /\ e.kind = Complete => r = t
                          /\ e.kind \in {Cancelled, Backpressure} <=> Lossy(op)
         /\ Story(p, t, IF IsText(e) THEN e.n ELSE r,
                        IF IsText(e) THEN x ELSE e.kind)
<1>. USE BoundsAssumption
<1>. DEFINE p == TakenOperation(op)
            e == Head(op.queue)
            n == Len(op.queue)
<1>1. /\ op \in Operation /\ op.queue \in Seq(Event) /\ n \in Nat \ {0}
      /\ e = op.queue[1]
  <2>1. op \in Operation /\ op.queue \in Seq(Event)
    BY DEF Sound, Operation
  <2>. QED  BY <2>1
<1>2. /\ p \in Operation /\ Sized(p)
      /\ p.queue = Tail(op.queue)
      /\ e \in Event
      /\ p.cancelled = op.cancelled /\ p.overflow = op.overflow
      /\ p.final = op.final /\ p.started = op.started
      /\ p.terminal_taken = (op.terminal_taken \/ ~IsText(e))
      /\ Len(p.queue) = n - 1
      /\ \A i \in 1 .. n - 1 : p.queue[i] = op.queue[i + 1]
  BY TakenSound
<1>. HIDE DEF p, e
<1>3. Sound(p)
  BY <1>1, <1>2 DEF Sound, Fits
<1>4. /\ ~op.terminal_taken /\ x = Open
      /\ Lossy(p) = Lossy(op)
  BY <1>1, <1>2 DEF Story, Lossy
<1>5. \A i \in 1 .. n - 1 : IsText(op.queue[i])
  BY DEF Story
<1>6. CASE IsText(e)
  <2>1. e.n = r + 1 /\ ~Lossy(op)
    BY <1>1, <1>6 DEF Story
  <2>2. op.final => n >= 2
    BY <1>1, <1>6 DEF Story
  <2>3. ~p.terminal_taken
    BY <1>2, <1>4, <1>6
  <2>4. QueuedTexts(p) = QueuedTexts(op) - 1 /\ QueuedTexts(op) >= 1
        /\ QueuedTexts(op) \in Int
    <3>1. CASE op.final
      <4>1. QueuedTexts(op) = n - 1 /\ QueuedTexts(p) = n - 1 - 1
        BY <1>2, <1>4, <2>3, <3>1 DEF QueuedTexts
      <4>. QED  BY <1>1, <2>2, <3>1, <4>1
    <3>2. CASE ~op.final
      <4>1. QueuedTexts(op) = n - 0 /\ QueuedTexts(p) = n - 1 - 0
        BY <1>2, <3>2 DEF QueuedTexts
      <4>. QED  BY <1>1, <4>1
    <3>. QED  BY <3>1, <3>2
  <2>5. r + QueuedTexts(op) <= t /\ r < t
    BY <2>1, <2>4 DEF Story
  <2>6. /\ \A i \in 1 .. n - 1 - 1 : IsText(p.queue[i])
        /\ n - 1 > 0 => p.queue[n - 1] = op.queue[n]
    BY <1>1, <1>2, <1>5
  <2>7. \A i \in 1 .. n - 1 :
           IsText(p.queue[i]) => p.queue[i].n = e.n + i /\ ~Lossy(p)
    <3>1. TAKE i \in 1 .. n - 1
    <3>2. p.queue[i] = op.queue[i + 1] /\ i + 1 \in 1 .. n
      BY <1>1, <1>2
    <3>3. IsText(op.queue[i + 1]) => op.queue[i + 1].n = r + (i + 1)
      BY <3>2 DEF Story
    <3>. QED  BY <1>4, <2>1, <3>2, <3>3
  <2>8. Failed(op, x) => Failed(p, x)
    <3>1. x # Error /\ e.kind # Error
      BY <1>4, <1>6 DEF Open, Error, IsText, TextKind
    <3>2. SUFFICES ASSUME NEW i \in 1 .. n, op.queue[i].kind = Error
                   PROVE  Failed(p, x)
      BY <3>1 DEF Failed
    <3>3. i # 1 /\ i - 1 \in 1 .. n - 1
      BY <1>1, <3>1, <3>2
    <3>4. p.queue[i - 1] = op.queue[i]
      BY <1>2, <3>3
    <3>. QED  BY <1>2, <3>2, <3>3, <3>4 DEF Failed
  <2>9. Story(p, t, e.n, x)
    <3>1. /\ ~Lossy(p) => e.n + QueuedTexts(p) <= t
          /\ Lossy(p) \/ Failed(p, x) \/ e.n + QueuedTexts(p) = t
      BY <1>4, <2>1, <2>4, <2>5, <2>8 DEF Story
    <3>2. x \in TerminalKind \union {Open}
      BY DEF Story
    <3>3. /\ n - 1 > 0 => (p.final <=> ~IsText(p.queue[n - 1]))
          /\ n - 1 > 0 /\ p.final =>
               (p.queue[n - 1].kind \in {Cancelled, Backpressure} <=> Lossy(p))
      BY <1>1, <1>2, <1>4, <2>6 DEF Story
    <3>4. p.final /\ ~p.terminal_taken => n - 1 > 0
      BY <1>1, <1>2, <2>2
    <3>. QED
      BY <1>2, <1>4, <2>3, <2>6, <2>7, <3>1, <3>2, <3>3, <3>4 DEF Story
  <2>. QED  BY <1>2, <1>3, <1>4, <1>6, <2>1, <2>5, <2>9 DEF p, e
<1>7. CASE ~IsText(e)
  <2>1. n = 1
    <3>. HIDE DEF n
    <3>1. n # 1 => 1 \in 1 .. n - 1
      BY <1>1
    <3>. QED  BY <1>1, <1>5, <1>7, <3>1
  <2>2. op.final /\ (e.kind \in {Cancelled, Backpressure} <=> Lossy(op))
    BY <1>1, <1>7, <2>1 DEF Story
  <2>3. QueuedTexts(op) = 0
    BY <1>4, <2>1, <2>2 DEF QueuedTexts
  <2>4. e.kind = Complete => r = t
    <3>1. ASSUME e.kind = Complete PROVE ~Lossy(op) /\ ~Failed(op, x)
      BY <1>1, <1>4, <2>1, <2>2, <3>1
         DEF Failed, Complete, Cancelled, Backpressure, Error, Open
    <3>. QED  BY <2>3, <3>1 DEF Story
  <2>5. e.kind \in TerminalKind /\ e.kind # Open
    BY <1>2, <1>7 DEF Event, IsText, TerminalKind, Complete, Error, Cancelled,
                      Backpressure, Open
  <2>6. Len(p.queue) = 0 /\ p.terminal_taken /\ p.final
    <3>1. p.terminal_taken /\ p.final
      BY <1>2, <1>7, <2>2
    <3>2. Len(p.queue) = 0
      BY <1>2, <2>1
    <3>. QED  BY <3>1, <3>2
  <2>7. /\ QueuedTexts(p) = 0
        /\ Failed(op, x) => Failed(p, e.kind)
    <3>1. QueuedTexts(p) = 0
      <4>1. QueuedTexts(p) = Len(p.queue) - 0
        BY <2>6 DEF QueuedTexts
      <4>. QED  BY <2>6, <4>1
    <3>2. Failed(op, x) => e.kind = Error
      BY <1>1, <1>4, <2>1 DEF Failed, Open, Error
    <3>. QED  BY <3>1, <3>2 DEF Failed
  <2>8. Story(p, t, r, e.kind)
    <3>1. /\ ~Lossy(p) => r + QueuedTexts(p) <= t
          /\ Lossy(p) \/ Failed(p, e.kind) \/ r + QueuedTexts(p) = t
      BY <1>4, <2>3, <2>7 DEF Story
    <3>. QED  BY <2>5, <2>6, <3>1 DEF Story
  <2>. QED  BY <1>2, <1>3, <1>4, <1>7, <2>2, <2>4, <2>8 DEF p, e
<1>. QED  BY <1>6, <1>7

-----------------------------------------------------------------------------
(* The inductive invariant.                                                *)

\* An id that create has not given out.
Unused(id) ==
    /\ id \notin operations
    /\ object[id] = NewOperation
    /\ texts[id] = 0 /\ read[id] = 0 /\ outcome[id] = Open
    /\ \A t \in Thread : callback[t] # id

AllSound     == \A id \in Id : Sound(object[id])
AllStories   == \A id \in operations :
                    Story(object[id], texts[id], read[id], outcome[id])
AllUnused    == \A id \in Id : next_id # 0 /\ id >= next_id => Unused(id)
StartingHeld == starting # NoId => starting \in operations

Inv == TypeOK /\ AllSound /\ AllStories /\ AllUnused /\ StartingHeld

LEMMA StoreSound ==
  ASSUME TypeOK, AllSound, NEW id \in Id, NEW op, Sound(op), Store(id, op)
  PROVE  /\ object' \in [Id -> Operation]
         /\ live_events' \in Int
         /\ object'[id] = op
         /\ \A j \in Id \ {id} : object'[j] = object[j]
         /\ AllSound'
<1>1. op \in Operation /\ object \in [Id -> Operation] /\ live_events \in Int
  BY DEF TypeOK, Sound
<1>2. /\ object' = [object EXCEPT ![id] = op]
      /\ live_events' = live_events + Len(op.queue) - Len(object[id].queue)
  BY DEF Store
<1>3. Len(op.queue) \in Nat /\ Len(object[id].queue) \in Nat
  <2>1. op.queue \in Seq(Event) /\ object[id].queue \in Seq(Event)
    BY <1>1 DEF Operation
  <2>. QED  BY <2>1
<1>4. object'[id] = op /\ \A j \in Id \ {id} : object'[j] = object[j]
  BY <1>1, <1>2
<1>5. \A j \in Id : Sound(object'[j])
  BY <1>4 DEF AllSound
<1>. QED  BY <1>1, <1>2, <1>3, <1>4, <1>5 DEF AllSound

LEMMA InitInv == Init => Inv
<1>. SUFFICES ASSUME Init PROVE Inv
  OBVIOUS
<1>. USE BoundsAssumption DEF Init
<1>1. TypeOK
  <2>1. NewOperation \in Operation
    BY NewSound DEF Sound
  <2>. QED  BY <2>1 DEF TypeOK, Id, NoId, Open
<1>2. AllSound
  BY NewSound DEF AllSound
<1>3. AllStories /\ AllUnused /\ StartingHeld
  BY DEF AllStories, AllUnused, Unused, StartingHeld, Id, NoId
<1>. QED  BY <1>1, <1>2, <1>3 DEF Inv

\* A step that changes one used operation and its history leaves the ids that
\* were not given out alone.
LEMMA UnusedKept ==
  ASSUME AllUnused, NEW id \in Id, ~Unused(id),
         next_id' = next_id, operations' \subseteq operations,
         \A j \in Id \ {id} : /\ object'[j] = object[j]
                              /\ texts'[j] = texts[j]
                              /\ read'[j] = read[j]
                              /\ outcome'[j] = outcome[j],
         \A t \in Thread : callback'[t] \in {callback[t], id, NoId}
  PROVE  AllUnused'
<1>. SUFFICES ASSUME NEW j \in Id, next_id # 0 /\ j >= next_id
              PROVE  Unused(j)'
  BY DEF AllUnused
<1>1. Unused(j) /\ j # id /\ j # NoId
  BY DEF AllUnused, Id, NoId
<1>. QED  BY <1>1 DEF Unused

LEMMA UsedIfKnown ==
  ASSUME NEW id \in Id, id \in operations \/ \E t \in Thread : callback[t] = id
  PROVE  ~Unused(id)
BY DEF Unused

LEMMA CreateInv == Inv /\ lrlm_operation_create => Inv'
<1>. SUFFICES ASSUME Inv, lrlm_operation_create PROVE Inv'
  OBVIOUS
<1>. USE BoundsAssumption DEF Inv, lrlm_operation_create, history
<1>1. next_id \in Id /\ next_id' \in Id \union {0}
  BY DEF TypeOK, Id
<1>2. TypeOK'
  BY <1>1 DEF TypeOK
<1>3. AllSound' /\ StartingHeld'
  BY DEF AllSound, StartingHeld
<1>4. Unused(next_id)
  BY <1>1 DEF AllUnused, Id
<1>5. AllStories'
  <2>1. Story(NewOperation, 0, 0, Open)
    <3>1. Len(NewOperation.queue) = 0 /\ QueuedTexts(NewOperation) = 0
      BY DEF NewOperation, QueuedTexts
    <3>. QED  BY <3>1 DEF Story, NewOperation, Open
  <2>. QED  BY <1>4, <2>1 DEF AllStories, Unused
<1>6. AllUnused'
  <2>. SUFFICES ASSUME NEW id \in Id, next_id' # 0, id >= next_id'
                PROVE  Unused(id)'
    BY DEF AllUnused
  <2>1. next_id' = next_id + 1 /\ id >= next_id /\ id # next_id
    BY <1>1 DEF Id
  <2>. QED  BY <2>1 DEF AllUnused, Unused
<1>. QED  BY <1>2, <1>3, <1>5, <1>6

LEMMA StartInv ==
  ASSUME Inv, NEW id \in Id, StartBegin(id) PROVE Inv'
<1>. USE DEF Inv
<1>. DEFINE op == [object[id] EXCEPT !.started = TRUE]
<1>1. /\ Sound(object[id])
      /\ Story(object[id], texts[id], read[id], outcome[id])
      /\ id \in operations
      /\ Store(id, op)
  BY DEF StartBegin, AllSound, AllStories
<1>2. /\ op \in Operation
      /\ op.queue = object[id].queue /\ op.bytes = object[id].bytes
      /\ op.cancelled = object[id].cancelled /\ op.overflow = object[id].overflow
      /\ op.final = object[id].final
      /\ op.terminal_taken = object[id].terminal_taken
  <2>1. object[id] \in Operation
    BY <1>1 DEF Sound
  <2>. QED  BY <2>1 DEF Operation
<1>. HIDE DEF op
<1>3. Sound(op) /\ Story(op, texts[id], read[id], outcome[id])
  BY <1>1, <1>2 DEF Sound, Sized, Fits, Story, Lossy, Failed, QueuedTexts
<1>4. /\ object' \in [Id -> Operation] /\ live_events' \in Int
      /\ object'[id] = op /\ AllSound'
      /\ \A j \in Id \ {id} : object'[j] = object[j]
  BY <1>1, <1>3, StoreSound
<1>5. TypeOK'
  BY <1>4 DEF TypeOK, StartBegin, history
<1>6. AllStories'
  BY <1>3, <1>4 DEF AllStories, StartBegin, history, TypeOK
<1>7. AllUnused'
  BY <1>1, <1>4, UnusedKept, UsedIfKnown DEF StartBegin, history
<1>8. StartingHeld'
  BY <1>1 DEF StartingHeld, StartBegin
<1>. QED  BY <1>4, <1>5, <1>6, <1>7, <1>8

LEMMA StartOkInv == Inv /\ StartOk => Inv'
BY DEF Inv, StartOk, history, TypeOK, AllSound, AllStories, AllUnused, Unused,
       StartingHeld

LEMMA StartFailedInv ==
  ASSUME Inv, NEW error \in ErrorSize, StartFailed(error) PROVE Inv'
<1>. USE BoundsAssumption DEF Inv
<1>. DEFINE id == starting
            op == Finish(object[id], id, Error, error)
<1>1. /\ id \in Id /\ id \in operations
      /\ Sound(object[id])
      /\ Story(object[id], texts[id], read[id], outcome[id])
      /\ texts[id] \in Nat /\ read[id] \in Nat
      /\ Store(id, op)
      /\ error \in Nat
  BY SizesAreNat DEF StartFailed, AllSound, AllStories, StartingHeld, TypeOK
<1>. HIDE DEF id
<1>2. Sound(op) /\ Story(op, texts[id], read[id], outcome[id])
  <2>1. CASE object[id].final
    BY <1>1, <2>1 DEF Finish
  <2>2. CASE ~object[id].final
    BY <1>1, <2>2, FinishSound, FinishStory DEF Error, Complete
  <2>. QED  BY <2>1, <2>2
<1>. HIDE DEF op
<1>3. /\ object' \in [Id -> Operation] /\ live_events' \in Int
      /\ object'[id] = op /\ AllSound'
      /\ \A j \in Id \ {id} : object'[j] = object[j]
  BY <1>1, <1>2, StoreSound
<1>4. TypeOK' /\ StartingHeld'
  BY <1>3 DEF TypeOK, StartFailed, history, StartingHeld
<1>5. AllStories'
  BY <1>2, <1>3 DEF AllStories, StartFailed, history, TypeOK
<1>6. AllUnused'
  BY <1>1, <1>3, UnusedKept, UsedIfKnown DEF StartFailed, history
<1>. QED  BY <1>3, <1>4, <1>5, <1>6

LEMMA CancelInv ==
  ASSUME Inv, NEW id \in Id, lrlm_operation_cancel(id) PROVE Inv'
<1>. USE DEF Inv
<1>. DEFINE op == CancelledOperation(object[id], id)
<1>1. /\ id \in operations
      /\ Sound(object[id])
      /\ Story(object[id], texts[id], read[id], outcome[id])
      /\ texts[id] \in Nat /\ read[id] \in Nat
      /\ ~object[id].cancelled /\ ~object[id].terminal_taken
      /\ Store(id, op)
  BY DEF lrlm_operation_cancel, AllSound, AllStories, TypeOK
<1>2. Sound(op) /\ Story(op, texts[id], read[id], outcome[id])
  BY <1>1, CancelStory
<1>. HIDE DEF op
<1>3. /\ object' \in [Id -> Operation] /\ live_events' \in Int
      /\ object'[id] = op /\ AllSound'
      /\ \A j \in Id \ {id} : object'[j] = object[j]
  BY <1>1, <1>2, StoreSound
<1>4. TypeOK' /\ StartingHeld'
  BY <1>3 DEF TypeOK, lrlm_operation_cancel, history, StartingHeld
<1>5. AllStories'
  BY <1>2, <1>3 DEF AllStories, lrlm_operation_cancel, history, TypeOK
<1>6. AllUnused'
  BY <1>1, <1>3, UnusedKept, UsedIfKnown DEF lrlm_operation_cancel, history
<1>. QED  BY <1>3, <1>4, <1>5, <1>6

LEMMA TakeInv ==
  ASSUME Inv, NEW id \in Id, lrlm_operation_take(id) PROVE Inv'
<1>. USE DEF Inv
<1>. DEFINE op == TakenOperation(object[id])
            e  == Head(object[id].queue)
            r  == IF IsText(e) THEN e.n ELSE read[id]
            x  == IF IsText(e) THEN outcome[id] ELSE e.kind
<1>1. /\ id \in operations
      /\ Sound(object[id])
      /\ Story(object[id], texts[id], read[id], outcome[id])
      /\ texts[id] \in Nat /\ read[id] \in Nat
      /\ object[id].queue # <<>>
  BY DEF lrlm_operation_take, AllSound, AllStories, TypeOK
<1>2. /\ Sound(op) /\ Story(op, texts[id], r, x)
      /\ e \in Event
  BY <1>1, TakenStory
<1>3. /\ object' = [object EXCEPT ![id] = op]
      /\ held' = e
      /\ read' = [read EXCEPT ![id] = r]
      /\ outcome' = [outcome EXCEPT ![id] = x]
      /\ texts' = texts
      /\ UNCHANGED <<next_id, operations, callback, starting, live_events>>
  BY DEF lrlm_operation_take, TypeOK
<1>4. r \in Nat /\ x \in TerminalKind \union {Open}
  <2>1. r \in Nat
    BY <1>1, <1>2 DEF Event
  <2>2. x \in TerminalKind \union {Open}
    BY <1>2 DEF Story
  <2>. QED  BY <2>1, <2>2
<1>. HIDE DEF op, e, r, x
<1>5. TypeOK'
  BY <1>2, <1>3, <1>4 DEF TypeOK, Sound
<1>6. /\ object'[id] = op /\ read'[id] = r /\ outcome'[id] = x
      /\ \A j \in Id \ {id} : /\ object'[j] = object[j]
                              /\ texts'[j] = texts[j]
                              /\ read'[j] = read[j]
                              /\ outcome'[j] = outcome[j]
  BY <1>3 DEF TypeOK
<1>7. AllSound' /\ StartingHeld'
  BY <1>2, <1>3, <1>6 DEF AllSound, StartingHeld
<1>8. AllStories'
  BY <1>2, <1>3, <1>6 DEF AllStories, TypeOK
<1>9. AllUnused'
  BY <1>1, <1>3, <1>6, UnusedKept, UsedIfKnown
<1>. QED  BY <1>5, <1>7, <1>8, <1>9

LEMMA EventDeleteInv == Inv /\ lrlm_event_delete => Inv'
BY DEF Inv, lrlm_event_delete, history, TypeOK, AllSound, AllStories, AllUnused,
       Unused, StartingHeld

LEMMA DeleteInv ==
  ASSUME Inv, NEW id \in Id, lrlm_operation_delete(id) PROVE Inv'
<1>. USE DEF Inv
<1>1. /\ id \in operations /\ starting = NoId
      /\ operations' = operations \ {id}
      /\ UNCHANGED <<next_id, callback, starting, held, texts, read, outcome>>
  BY DEF lrlm_operation_delete, history
<1>2. /\ object' \in [Id -> Operation] /\ live_events' \in Int
      /\ AllSound'
      /\ \A j \in Id \ {id} : object'[j] = object[j]
  <2>1. CASE \E t \in Thread : callback[t] = id
    BY <2>1 DEF lrlm_operation_delete, TypeOK, AllSound
  <2>2. CASE ~\E t \in Thread : callback[t] = id
    <3>1. Store(id, Clear(object[id]))
      BY <2>2 DEF lrlm_operation_delete, Release
    <3>2. Sound(Clear(object[id]))
      BY ClearSound DEF AllSound
    <3>. QED  BY <3>1, <3>2, StoreSound
  <2>. QED  BY <2>1, <2>2
<1>3. TypeOK' /\ StartingHeld'
  BY <1>1, <1>2 DEF TypeOK, StartingHeld
<1>4. AllStories'
  BY <1>1, <1>2 DEF AllStories, TypeOK
<1>5. AllUnused'
  BY <1>1, <1>2, UnusedKept, UsedIfKnown
<1>. QED  BY <1>2, <1>3, <1>4, <1>5

LEMMA FindInv ==
  ASSUME Inv, NEW t \in Thread, NEW id \in Id, CallbackFind(t, id) PROVE Inv'
<1>. USE DEF Inv
<1>1. /\ id \in operations
      /\ UNCHANGED <<next_id, operations, object, starting, held, live_events,
                     texts, read, outcome>>
      /\ callback' = [callback EXCEPT ![t] = id]
      /\ \A u \in Thread : callback'[u] \in {callback[u], id, NoId}
  BY DEF CallbackFind, history, TypeOK
<1>2. TypeOK' /\ AllSound' /\ AllStories' /\ StartingHeld'
  BY <1>1 DEF TypeOK, AllSound, AllStories, StartingHeld
<1>3. AllUnused'
  BY <1>1, UnusedKept, UsedIfKnown
<1>. QED  BY <1>2, <1>3

\* What a callback leaves behind, for the invariant and for the refinement.
LEMMA RunEffect ==
  ASSUME Inv, NEW t \in Thread, NEW chunk \in Chunk, CallbackRun(t, chunk)
  PROVE  LET id == callback[t]
             n  == IF Heard(object[id], chunk) THEN texts[id] + 1 ELSE texts[id]
             op == Receive(object[id], id, chunk, texts[id] + 1)
             p  == object'[id]
         IN  /\ id \in Id /\ ~Unused(id) /\ n \in Nat
             /\ UNCHANGED <<next_id, operations, starting, held, read, outcome>>
             /\ texts' = [texts EXCEPT ![id] = n]
             /\ \A u \in Thread : callback'[u] \in {callback[u], NoId}
             /\ object' \in [Id -> Operation] /\ live_events' \in Int
             /\ AllSound'
             /\ \A j \in Id \ {id} : object'[j] = object[j]
             /\ p.cancelled = object[id].cancelled
             /\ object[id].overflow => p.overflow
             /\ p.overflow =>
                  object[id].overflow \/ Heard(object[id], chunk)
             /\ object[id].final => p.final
             /\ id \in operations => p = op
<1>. USE DEF Inv
<1>. DEFINE id == callback[t]
            op == Receive(object[id], id, chunk, texts[id] + 1)
            n  == IF Heard(object[id], chunk) THEN texts[id] + 1 ELSE texts[id]
<1>1. /\ id \in Id /\ id # NoId /\ texts[id] \in Nat /\ texts[id] + 1 \in Nat
      /\ Sound(object[id])
  BY DEF CallbackRun, TypeOK, AllSound
<1>2. ~Unused(id) /\ n \in Nat
  BY <1>1 DEF Unused
<1>3. /\ UNCHANGED <<next_id, operations, starting, held, read, outcome>>
      /\ callback' = [callback EXCEPT ![t] = NoId]
  BY DEF CallbackRun
<1>4. texts' = [texts EXCEPT ![id] = n]
  BY <1>1 DEF CallbackRun, Heard, TypeOK
<1>5. PICK keeps \in BOOLEAN :
         /\ Store(id, IF keeps THEN op ELSE Clear(op))
         /\ id \in operations => keeps
  BY DEF CallbackRun, Release
<1>6. /\ Sound(op) /\ SameFlags(object[id], op)
      /\ object[id].final => op = object[id]
      /\ object[id].overflow => op.overflow
      /\ op.overflow => object[id].overflow \/ Heard(object[id], chunk)
  BY <1>1, ReceiveSound
<1>. HIDE DEF op
<1>. DEFINE p == IF keeps THEN op ELSE Clear(op)
<1>7. /\ Sound(p)
      /\ p.cancelled = op.cancelled /\ p.overflow = op.overflow
      /\ p.final = op.final
  BY <1>6, ClearSound
<1>8. Store(id, p)
  BY <1>5
<1>9. id \in operations => p = op
  BY <1>5
<1>. HIDE DEF p
<1>10. /\ object' \in [Id -> Operation] /\ live_events' \in Int
       /\ object'[id] = p /\ AllSound'
       /\ \A j \in Id \ {id} : object'[j] = object[j]
  BY <1>1, <1>7, <1>8, StoreSound
<1>11. \A u \in Thread : callback'[u] \in {callback[u], NoId}
  BY <1>3 DEF TypeOK
<1>12. /\ p.cancelled = object[id].cancelled
       /\ object[id].overflow => p.overflow
       /\ p.overflow => object[id].overflow \/ Heard(object[id], chunk)
       /\ object[id].final => p.final
  BY <1>6, <1>7 DEF SameFlags
<1>. HIDE DEF id, n
<1>13. /\ object'[id].cancelled = object[id].cancelled
       /\ object[id].overflow => object'[id].overflow
       /\ object'[id].overflow => object[id].overflow \/ Heard(object[id], chunk)
       /\ object[id].final => object'[id].final
       /\ id \in operations => object'[id] = op
  BY <1>9, <1>10, <1>12
<1>. QED  BY <1>1, <1>2, <1>3, <1>4, <1>10, <1>11, <1>13 DEF id, n, op

LEMMA RunInv ==
  ASSUME Inv, NEW t \in Thread, NEW chunk \in Chunk, CallbackRun(t, chunk)
  PROVE  Inv'
<1>. USE DEF Inv
<1>. DEFINE id == callback[t]
            n  == IF Heard(object[id], chunk) THEN texts[id] + 1 ELSE texts[id]
            op == Receive(object[id], id, chunk, texts[id] + 1)
<1>1. /\ id \in Id /\ ~Unused(id) /\ n \in Nat
      /\ UNCHANGED <<next_id, operations, starting, held, read, outcome>>
      /\ texts' = [texts EXCEPT ![id] = n]
      /\ \A u \in Thread : callback'[u] \in {callback[u], NoId}
      /\ object' \in [Id -> Operation] /\ live_events' \in Int
      /\ AllSound'
      /\ \A j \in Id \ {id} : object'[j] = object[j]
      /\ id \in operations => object'[id] = op
  BY RunEffect
<1>2. id \in operations => Story(op, n, read[id], outcome[id])
  BY <1>1, ReceiveStory DEF AllSound, AllStories, TypeOK
<1>3. callback' \in [Thread -> Id \union {NoId}]
  BY DEF CallbackRun, TypeOK
<1>. HIDE DEF id, n, op
<1>4. /\ texts'[id] = n
      /\ \A j \in Id \ {id} : texts'[j] = texts[j]
      /\ texts' \in [Id -> Nat]
  BY <1>1 DEF TypeOK
<1>5. TypeOK' /\ StartingHeld'
  BY <1>1, <1>3, <1>4 DEF TypeOK, StartingHeld
<1>6. AllStories'
  BY <1>1, <1>2, <1>4 DEF AllStories, TypeOK
<1>7. AllUnused'
  BY <1>1, <1>4, UnusedKept
<1>. QED  BY <1>1, <1>5, <1>6, <1>7

LEMMA StepInv == Inv /\ [Next]_vars => Inv'
<1>. SUFFICES ASSUME Inv, [Next]_vars PROVE Inv'
  OBVIOUS
<1>1. CASE lrlm_operation_create
  BY <1>1, CreateInv
<1>2. CASE StartOk
  BY <1>2, StartOkInv
<1>3. CASE \E error \in ErrorSize : StartFailed(error)
  BY <1>3, StartFailedInv
<1>4. CASE lrlm_event_delete
  BY <1>4, EventDeleteInv
<1>5. CASE \E id \in Id : StartBegin(id)
  BY <1>5, StartInv
<1>6. CASE \E id \in Id : lrlm_operation_cancel(id)
  BY <1>6, CancelInv
<1>7. CASE \E id \in Id : lrlm_operation_take(id)
  BY <1>7, TakeInv
<1>8. CASE \E id \in Id : lrlm_operation_delete(id)
  BY <1>8, DeleteInv
<1>9. CASE \E id \in Id, t \in Thread : CallbackFind(t, id)
  BY <1>9, FindInv
<1>10. CASE \E t \in Thread, chunk \in Chunk : CallbackRun(t, chunk)
  BY <1>10, RunInv
<1>11. CASE UNCHANGED vars
  BY <1>11 DEF vars, Inv, TypeOK, AllSound, AllStories, AllUnused, Unused,
               StartingHeld
<1>. QED
  BY <1>1, <1>2, <1>3, <1>4, <1>5, <1>6, <1>7, <1>8, <1>9, <1>10, <1>11 DEF Next

THEOREM Invariance == Spec => []Inv
BY InitInv, StepInv, PTL DEF Spec

\* Every variable keeps its type; in particular the byte count of an operation
\* is never negative and never above kMaxBytes, so `kMaxBytes - op->bytes` in
\* Callback does not wrap.
THEOREM TypeCorrect == Spec => []TypeOK
<1>1. Inv => TypeOK
  BY DEF Inv
<1>. QED  BY <1>1, Invariance, PTL

\* The queue never exceeds kMaxEvents, and holds a full kMaxEvents only if a
\* terminal is among them.
THEOREM QueueNeverOverruns == Spec => []QueueBounded
<1>1. Inv => QueueBounded
  BY DEF Inv, AllSound, Sound, Fits, QueueBounded
<1>. QED  BY <1>1, Invariance, PTL

\* Whatever the runtime's threads and the worker do, every queue stays within
\* kMaxEvents and kMaxBytes and the bridge's state is well formed.
THEOREM StaysWithinBounds == Spec => []WithinBounds
<1>1. TypeOK /\ QueueBounded => WithinBounds
  BY DEF WithinBounds
<1>. QED  BY <1>1, TypeCorrect, QueueNeverOverruns, PTL

\* A final operation has exactly one terminal, still queued as the last event
\* or already taken.
THEOREM ExactlyOneTerminal == Spec => []OneTerminal
<1>1. Inv => OneTerminal
  <2>. SUFFICES ASSUME Inv, NEW id \in operations,
                       Story(object[id], texts[id], read[id], outcome[id])
                PROVE  LET op == object[id]
                           n  == Len(op.queue)
                       IN  /\ \A i \in 1 .. n - 1 : IsText(op.queue[i])
                           /\ op.terminal_taken => op.final /\ n = 0
                           /\ n > 0 => (op.final <=> ~IsText(op.queue[n]))
                           /\ op.final /\ ~op.terminal_taken => n > 0
    BY DEF Inv, AllStories, OneTerminal
  <2>. QED  BY DEF Story
<1>. QED  BY <1>1, Invariance, PTL

\* No text is skipped, repeated or reordered between the runtime and the worker
\* unless the operation was cancelled, overflowed or failed.
THEOREM NothingSkipped == Spec => []Gapless
<1>1. Inv => Gapless
  <2>. SUFFICES ASSUME Inv, NEW id \in operations,
                       Story(object[id], texts[id], read[id], outcome[id])
                PROVE
        LET op == object[id] IN
        /\ \A i \in 1 .. Len(op.queue) :
              IsText(op.queue[i]) => op.queue[i].n = read[id] + i /\ ~Lossy(op)
        /\ \/ Lossy(op)
           \/ Failed(op, outcome[id])
           \/ read[id] + QueuedTexts(op) = texts[id]
    BY DEF Inv, AllStories, Gapless
  <2>. QED  BY DEF Story
<1>. QED  BY <1>1, Invariance, PTL

\* An operation enters the registry new and unreferenced, whatever callbacks of
\* older operations are still running.
THEOREM IdsNeverReused == Spec => FreshId
<1>. DEFINE Fresh == \A id \in operations' \ operations :
                        /\ object[id] = NewOperation
                        /\ \A t \in Thread : callback[t] # id
<1>1. Inv /\ [Next]_vars => Fresh
  <2>. SUFFICES ASSUME Inv, [Next]_vars, NEW id \in operations' \ operations
                PROVE  Unused(id)
    BY DEF Unused
  <2>1. lrlm_operation_create
    BY DEF Next, vars, lrlm_operation_create, StartOk, StartFailed,
           lrlm_event_delete, StartBegin, lrlm_operation_cancel,
           lrlm_operation_take, lrlm_operation_delete, CallbackFind, CallbackRun
  <2>2. id = next_id /\ next_id # 0 /\ next_id \in Id
    BY <2>1 DEF lrlm_operation_create, Inv, TypeOK
  <2>. QED  BY <2>2 DEF Inv, AllUnused, Id
<1>2. Inv /\ [Next]_vars => [Fresh]_vars
  BY <1>1
<1>. QED  BY <1>2, Invariance, PTL DEF Spec, FreshId

-----------------------------------------------------------------------------
(* Sums.                                                                   *)

\* Induction over the natural numbers, for a set instead of a predicate: a
\* smallest counterexample would have a predecessor that is none.
LEMMA Induction ==
  ASSUME NEW S \in SUBSET Nat, 0 \in S, \A n \in S : n + 1 \in S
  PROVE  \A n \in Nat : n \in S
<1>. SUFFICES ASSUME Nat \ S # {} PROVE FALSE
  OBVIOUS
<1>. DEFINE R == OpToRel(<, Nat)
<1>1. IsWellFoundedOn(R, Nat)
  BY NatLessThanWellFounded
<1>2. \A x, y \in Nat : <<y, x>> \in R <=> y < x
  BY DEF OpToRel
<1>. HIDE DEF R
<1>3. PICK x \in Nat \ S : \A y \in Nat \ S : ~ (<<y, x>> \in R)
  <2>1. Nat \ S \subseteq Nat
    OBVIOUS
  <2>. QED  BY <1>1, <2>1, WFMin
<1>4. x # 0 /\ x - 1 \in Nat /\ x - 1 < x
  BY <1>3
<1>5. x - 1 \in S
  BY <1>2, <1>3, <1>4
<1>6. x - 1 + 1 = x
  BY <1>3
<1>. QED  BY <1>3, <1>5, <1>6

\* f lists what the first 0, 1, .. n of the numbers add up to.
PartialSums(f, size, n) ==
    /\ f \in [0 .. n -> Nat]
    /\ f[0] = 0
    /\ \A i \in 1 .. n : f[i] = f[i - 1] + size[i]

LEMMA SumExists ==
  ASSUME NEW size, NEW m \in Nat, \A i \in 1 .. m : size[i] \in Nat
  PROVE  \E f : PartialSums(f, size, m)
<1>. DEFINE S == {n \in Nat : n <= m => \E f : PartialSums(f, size, n)}
<1>1. 0 \in S
  <2>1. PartialSums([i \in 0 .. 0 |-> 0], size, 0)
    BY DEF PartialSums
  <2>. QED  BY <2>1
<1>2. ASSUME NEW n \in S PROVE n + 1 \in S
  <2>. SUFFICES ASSUME n + 1 <= m PROVE \E f : PartialSums(f, size, n + 1)
    OBVIOUS
  <2>1. PICK f : PartialSums(f, size, n)
    OBVIOUS
  <2>. DEFINE g == [i \in 0 .. n + 1 |-> IF i = n + 1 THEN f[n] + size[n + 1] ELSE f[i]]
  <2>2. size[n + 1] \in Nat /\ f[n] \in Nat /\ f[0] = 0
    BY <2>1 DEF PartialSums
  <2>3. g \in [0 .. n + 1 -> Nat] /\ g[0] = 0
    BY <2>1, <2>2 DEF PartialSums
  <2>4. \A i \in 1 .. n + 1 : g[i] = g[i - 1] + size[i]
    <3>1. TAKE i \in 1 .. n + 1
    <3>2. CASE i = n + 1
      <4>1. g[i] = f[n] + size[i] /\ i - 1 = n /\ g[n] = f[n]
        BY <3>2
      <4>. QED  BY <4>1
    <3>3. CASE i # n + 1
      <4>1. i \in 1 .. n /\ i - 1 \in 0 .. n
        BY <3>3
      <4>2. g[i] = f[i] /\ g[i - 1] = f[i - 1]
        BY <4>1
      <4>. QED  BY <2>1, <4>1, <4>2 DEF PartialSums
    <3>. QED  BY <3>2, <3>3
  <2>5. PartialSums(g, size, n + 1)
    BY <2>3, <2>4 DEF PartialSums
  <2>. QED  BY <2>5
<1>3. \A i \in Nat : i \in S
  <2>. HIDE DEF S
  <2>1. S \in SUBSET Nat
    BY DEF S
  <2>. QED  BY <1>1, <1>2, <2>1, Induction
<1>. QED  BY <1>3

LEMMA SumIs ==
  ASSUME NEW n \in Nat, NEW size, NEW f, PartialSums(f, size, n)
  PROVE  SumOf(size, n) = f[n]
<1>. DEFINE sum == CHOOSE s : s = [i \in 0 .. n |-> IF i = 0 THEN 0 ELSE s[i - 1] + size[i]]
<1>1. f = [i \in 0 .. n |-> IF i = 0 THEN 0 ELSE f[i - 1] + size[i]]
  BY DEF PartialSums
<1>2. sum = [i \in 0 .. n |-> IF i = 0 THEN 0 ELSE sum[i - 1] + size[i]]
  BY <1>1
<1>3. SumOf(size, n) = sum[n]
  BY DEF SumOf
<1>. HIDE DEF sum
<1>4. sum[n] = f[n]
  <2>. DEFINE S == {i \in Nat : i <= n => sum[i] = f[i]}
  <2>1. 0 \in S
    BY <1>2 DEF PartialSums
  <2>2. ASSUME NEW i \in S PROVE i + 1 \in S
    <3>1. CASE i + 1 <= n
      <4>1. i + 1 \in 1 .. n /\ i + 1 - 1 = i /\ f[i] = sum[i]
        BY <3>1
      <4>2. f[i + 1] = f[i + 1 - 1] + size[i + 1] /\ sum[i + 1] = sum[i + 1 - 1] + size[i + 1]
        BY <1>2, <4>1 DEF PartialSums
      <4>. QED  BY <4>1, <4>2
    <3>. QED  BY <3>1
  <2>3. \A i \in Nat : i \in S
    <3>. HIDE DEF S
    <3>1. S \in SUBSET Nat
      BY DEF S
    <3>. QED  BY <2>1, <2>2, <3>1, Induction
  <2>. QED  BY <2>3
<1>. QED  BY <1>3, <1>4

\* A sum whose last number is left out, and one whose numbers are all 0.
LEMMA SumStep ==
  ASSUME NEW n \in Nat, NEW size, \A i \in 1 .. n : size[i] \in Nat
  PROVE  /\ SumOf(size, n) \in Nat
         /\ n > 0 => SumOf(size, n) = SumOf(size, n - 1) + size[n]
         /\ n = 0 => SumOf(size, n) = 0
<1>1. PICK f : PartialSums(f, size, n)
  BY SumExists
<1>2. SumOf(size, n) = f[n]
  BY <1>1, SumIs
<1>3. ASSUME n > 0 PROVE SumOf(size, n) = SumOf(size, n - 1) + size[n]
  <2>. DEFINE g == [i \in 0 .. n - 1 |-> f[i]]
  <2>1. PartialSums(g, size, n - 1) /\ g[n - 1] = f[n - 1]
    BY <1>1, <1>3 DEF PartialSums
  <2>. HIDE DEF g
  <2>2. SumOf(size, n - 1) = g[n - 1]
    BY <1>3, <2>1, SumIs
  <2>3. f[n] = f[n - 1] + size[n]
    BY <1>1, <1>3 DEF PartialSums
  <2>. QED  BY <1>2, <2>1, <2>2, <2>3
<1>. QED  BY <1>1, <1>2, <1>3 DEF PartialSums

LEMMA SumOfNothing ==
  ASSUME NEW n \in Nat, NEW size, \A i \in 1 .. n : size[i] = 0
  PROVE  SumOf(size, n) = 0
<1>. DEFINE f == [i \in 0 .. n |-> 0]
<1>1. PartialSums(f, size, n) /\ f[n] = 0
  BY DEF PartialSums
<1>. QED  BY <1>1, SumIs

\* Two lists of numbers that differ in one place.
LEMMA SumChanged ==
  ASSUME NEW n \in Nat, NEW old, NEW new, NEW k \in 1 .. n,
         \A i \in 1 .. n : old[i] \in Nat /\ new[i] \in Nat,
         \A i \in 1 .. n : i # k => new[i] = old[i]
  PROVE  SumOf(new, n) = SumOf(old, n) + new[k] - old[k]
<1>1. PICK f : PartialSums(f, old, n)
  BY SumExists
<1>2. PICK g : PartialSums(g, new, n)
  BY SumExists
<1>3. SumOf(old, n) = f[n] /\ SumOf(new, n) = g[n]
  BY <1>1, <1>2, SumIs
<1>4. \A i \in 0 .. n : f[i] \in Nat /\ g[i] \in Nat
  BY <1>1, <1>2 DEF PartialSums
<1>. DEFINE S == {i \in Nat : i <= n =>
                    g[i] = IF i < k THEN f[i] ELSE f[i] + new[k] - old[k]}
<1>5. 0 \in S
  BY <1>1, <1>2 DEF PartialSums
<1>6. ASSUME NEW i \in S PROVE i + 1 \in S
  <2>. SUFFICES ASSUME i + 1 <= n
                PROVE  g[i + 1] = IF i + 1 < k THEN f[i + 1]
                                  ELSE f[i + 1] + new[k] - old[k]
    OBVIOUS
  <2>1. i + 1 \in 1 .. n /\ i + 1 - 1 = i /\ i \in 0 .. n
    OBVIOUS
  <2>2. \A j \in 1 .. n : f[j] = f[j - 1] + old[j] /\ g[j] = g[j - 1] + new[j]
    BY <1>1, <1>2 DEF PartialSums
  <2>3. f[i + 1] = f[i] + old[i + 1] /\ g[i + 1] = g[i] + new[i + 1]
    BY <2>1, <2>2
  <2>4. f[i] \in Nat /\ g[i] \in Nat /\ old[i + 1] \in Nat /\ new[i + 1] \in Nat
        /\ old[k] \in Nat /\ new[k] \in Nat
    BY <1>4, <2>1
  <2>5. g[i] = IF i < k THEN f[i] ELSE f[i] + new[k] - old[k]
    BY <2>1
  <2>. HIDE DEF S
  <2>6. CASE i + 1 = k
    BY <2>1, <2>3, <2>4, <2>5, <2>6
  <2>7. CASE i + 1 # k
    <3>1. new[i + 1] = old[i + 1]
      BY <2>1, <2>7
    <3>2. CASE i + 1 < k
      BY <2>1, <2>3, <2>4, <2>5, <3>1, <3>2
    <3>3. CASE i + 1 > k
      BY <2>1, <2>3, <2>4, <2>5, <3>1, <3>3
    <3>. QED  BY <2>1, <2>7, <3>2, <3>3
  <2>. QED  BY <2>6, <2>7
<1>7. \A i \in Nat : i \in S
  <2>. HIDE DEF S
  <2>1. S \in SUBSET Nat
    BY DEF S
  <2>. QED  BY <1>5, <1>6, <2>1, Induction
<1>8. g[n] = IF n < k THEN f[n] ELSE f[n] + new[k] - old[k]
  BY <1>7
<1>. QED  BY <1>3, <1>8

-----------------------------------------------------------------------------
(* Accounts: the byte counts, the events, the operations' last words.      *)

LEMMA SizedIsExact ==
  ASSUME NEW op \in Operation, Sized(op)
  PROVE  op.bytes = SumOf([i \in DOMAIN op.queue |-> op.queue[i].size], Len(op.queue))
<1>. DEFINE size == [i \in DOMAIN op.queue |-> op.queue[i].size]
            n == Len(op.queue)
<1>1. op.queue \in Seq(Event)
  BY DEF Operation
<1>2. n \in Nat /\ DOMAIN op.queue = 1 .. n
  BY <1>1
<1>3. PICK f \in [0 .. n -> Nat] :
        /\ f[0] = 0 /\ f[n] = op.bytes
        /\ \A i \in 1 .. n : f[i] = f[i - 1] + op.queue[i].size
  BY DEF Sized
<1>4. PartialSums(f, size, n)
  BY <1>2, <1>3 DEF PartialSums
<1>. HIDE DEF size, n
<1>5. SumOf(size, n) = f[n]
  BY <1>2, <1>4, SumIs
<1>. QED  BY <1>3, <1>5 DEF size, n

\* The byte count of every operation is the size of the events it has queued.
THEOREM BytesAreExact == Spec => []BytesExact
<1>1. Inv => BytesExact
  <2>. SUFFICES ASSUME Inv, NEW id \in Id
                PROVE  object[id].bytes =
                         SumOf([i \in DOMAIN object[id].queue |-> object[id].queue[i].size],
                               Len(object[id].queue))
    BY DEF BytesExact
  <2>1. object[id] \in Operation /\ Sized(object[id])
    BY DEF Inv, AllSound, Sound
  <2>. QED  BY <2>1, SizedIsExact
<1>. QED  BY <1>1, Invariance, PTL

\* Only an operation that somebody owns has a queue.
Released == \A id \in Id : Owned(id) \/ object[id].queue = <<>>

Lengths == [id \in Id |-> Len(object[id].queue)]

Counted == live_events = SumOf(Lengths, MaxId) + (IF held = NoEvent THEN 0 ELSE 1)

\* Nothing comes from an operation, and nothing ends it, before it is started.
Begun ==
    /\ \A id \in Id : object[id].final => object[id].started
    /\ starting # NoId => object[starting].started
    /\ \A t \in Thread : callback[t] # NoId => object[callback[t]].started

\* Nothing is added to an operation that was read to its complete end.
AllRead ==
    \A id \in Id : outcome[id] = Complete => object[id].final /\ read[id] = texts[id]

Ledger == Released /\ Counted /\ Begun /\ AllRead

LEMMA LengthsAreNat ==
  ASSUME TypeOK
  PROVE  \A id \in Id : Lengths[id] = Len(object[id].queue) /\ Lengths[id] \in Nat
<1>. TAKE id \in Id
<1>1. object[id].queue \in Seq(Event)
  BY DEF TypeOK, Operation
<1>. QED  BY <1>1 DEF Lengths

\* One operation's queue changes.
LEMMA LengthChanged ==
  ASSUME TypeOK, TypeOK', NEW id \in Id,
         \A j \in Id \ {id} : object'[j].queue = object[j].queue
  PROVE  SumOf(Lengths, MaxId)'
           = SumOf(Lengths, MaxId) + Len(object'[id].queue) - Len(object[id].queue)
<1>1. /\ \A i \in 1 .. MaxId : Lengths[i] \in Nat /\ Lengths'[i] \in Nat
      /\ \A i \in 1 .. MaxId : i # id => Lengths'[i] = Lengths[i]
      /\ Lengths[id] = Len(object[id].queue) /\ Lengths'[id] = Len(object'[id].queue)
  <2>1. \A j \in Id : Lengths[j] = Len(object[j].queue) /\ Lengths[j] \in Nat
    BY LengthsAreNat
  <2>2. \A j \in Id : Lengths'[j] = Len(object'[j].queue) /\ Lengths'[j] \in Nat
    <3>. TAKE j \in Id
    <3>1. object'[j].queue \in Seq(Event)
      BY DEF TypeOK, Operation
    <3>. QED  BY <3>1 DEF Lengths
  <2>. QED  BY <2>1, <2>2 DEF Id
<1>2. MaxId \in Nat /\ id \in 1 .. MaxId
  BY BoundsAssumption DEF Id
<1>. PICK old : old = Lengths
  OBVIOUS
<1>. PICK new : new = Lengths'
  OBVIOUS
<1>3. SumOf(new, MaxId) = SumOf(old, MaxId) + new[id] - old[id]
  BY <1>1, <1>2, SumChanged
<1>4. SumOf(Lengths, MaxId)' = SumOf(new, MaxId)
  OBVIOUS
<1>. QED  BY <1>1, <1>3, <1>4

LEMMA SumIsNat == ASSUME TypeOK PROVE SumOf(Lengths, MaxId) \in Nat
<1>1. \A i \in 1 .. MaxId : Lengths[i] \in Nat
  BY LengthsAreNat DEF Id
<1>2. MaxId \in Nat
  BY BoundsAssumption
<1>. HIDE DEF Lengths
<1>3. PICK f : PartialSums(f, Lengths, MaxId)
  BY <1>1, <1>2, SumExists
<1>. QED  BY <1>2, <1>3, SumIs DEF PartialSums

\* A step that stores one operation.
LEMMA StoreKeepsLedger ==
  ASSUME TypeOK, TypeOK', Ledger, NEW id \in Id, NEW op, Sound(op), Store(id, op),
         held' = held,
         object[id].final => op.final,
         object[id].started => op.started,
         op.final => op.started,
         \A j \in Id \ {id} : Owned(j) => Owned(j)',
         Owned(id)' \/ op.queue = <<>>,
         starting' \in {starting, NoId} \/ (starting' = id /\ op.started),
         \A t \in Thread : callback'[t] \in {callback[t], NoId},
         outcome' = outcome, read' = read,
         \A j \in Id : outcome[j] = Complete => texts'[j] = texts[j]
  PROVE  Ledger'
<1>1. /\ object'[id] = op /\ \A j \in Id \ {id} : object'[j] = object[j]
      /\ live_events' = live_events + Len(op.queue) - Len(object[id].queue)
  BY DEF Store, TypeOK
<1>2. Released'
  BY <1>1 DEF Ledger, Released
<1>3. Counted'
  <2>1. SumOf(Lengths, MaxId)'
          = SumOf(Lengths, MaxId) + Len(object'[id].queue) - Len(object[id].queue)
    BY <1>1, LengthChanged
  <2>2. SumOf(Lengths, MaxId) \in Nat /\ live_events \in Int
    BY SumIsNat DEF TypeOK
  <2>3. Len(op.queue) \in Nat /\ Len(object[id].queue) \in Nat
    <3>1. op.queue \in Seq(Event) /\ object[id].queue \in Seq(Event)
      BY DEF Sound, TypeOK, Operation
    <3>. QED  BY <3>1
  <2>4. PICK h \in {0, 1} : h = IF held = NoEvent THEN 0 ELSE 1
    OBVIOUS
  <2>5. live_events = SumOf(Lengths, MaxId) + h
    BY <2>4 DEF Ledger, Counted
  <2>6. live_events' = live_events + Len(op.queue) - Len(object[id].queue)
        /\ SumOf(Lengths, MaxId)'
              = SumOf(Lengths, MaxId) + Len(op.queue) - Len(object[id].queue)
    BY <1>1, <2>1
  <2>. DEFINE new == Len(op.queue)
              old == Len(object[id].queue)
              sum == SumOf(Lengths, MaxId)
  <2>7. live_events' = sum' + h
    <3>1. /\ new \in Nat /\ old \in Nat /\ sum \in Nat /\ live_events = sum + h
          /\ live_events' = live_events + new - old /\ sum' = sum + new - old
      BY <2>2, <2>3, <2>5, <2>6
    <3>. HIDE DEF new, old, sum
    <3>. QED  BY <3>1
  <2>8. h = IF held' = NoEvent THEN 0 ELSE 1
    BY <2>4
  <2>. QED  BY <2>7, <2>8 DEF Counted
<1>4. Begun'
  <2>1. \A j \in Id : object[j].started => object'[j].started
    BY <1>1
  <2>2. \A j \in Id : object'[j].final => object'[j].started
    BY <1>1, <2>1 DEF Ledger, Begun
  <2>3. \A t \in Thread : callback'[t] # NoId => object'[callback'[t]].started
    <3>. SUFFICES ASSUME NEW t \in Thread, callback'[t] # NoId
                  PROVE  object'[callback'[t]].started
      OBVIOUS
    <3>1. callback'[t] = callback[t] /\ callback[t] \in Id
      BY DEF TypeOK
    <3>2. object[callback[t]].started
      BY <3>1 DEF Ledger, Begun
    <3>. QED  BY <2>1, <3>1, <3>2
  <2>4. starting' # NoId => object'[starting'].started
    <3>1. CASE starting' = id /\ op.started
      BY <1>1, <3>1
    <3>2. CASE starting' = starting /\ starting # NoId
      BY <2>1, <3>2 DEF Ledger, Begun, TypeOK
    <3>. QED  BY <3>1, <3>2
  <2>. QED  BY <2>2, <2>3, <2>4 DEF Begun
<1>5. AllRead'
  BY <1>1 DEF Ledger, AllRead
<1>. QED  BY <1>2, <1>3, <1>4, <1>5 DEF Ledger

LEMMA LedgerInit == Init => Ledger
<1>. SUFFICES ASSUME Init PROVE Ledger
  OBVIOUS
<1>1. \A id \in Id : object[id] = NewOperation
  BY DEF Init
<1>2. Released /\ Begun /\ AllRead
  BY <1>1 DEF Init, Released, Begun, AllRead, NewOperation, NoId, Complete, Open
<1>3. \A i \in 1 .. MaxId : Lengths[i] = 0
  BY <1>1 DEF Lengths, Id, NewOperation
<1>4. SumOf(Lengths, MaxId) = 0
  <2>. HIDE DEF Lengths
  <2>. QED  BY <1>3, SumOfNothing, BoundsAssumption
<1>5. live_events = 0 /\ held = NoEvent
  BY DEF Init
<1>. QED  BY <1>2, <1>4, <1>5 DEF Counted, Ledger

\* A step that leaves the operations and what was taken of them alone.
LEMMA QuietLedger ==
  ASSUME Ledger, TypeOK,
         UNCHANGED <<object, held, live_events, texts, read, outcome>>,
         operations \subseteq operations',
         starting' \in {starting, NoId},
         \A t \in Thread : \/ callback'[t] = callback[t]
                           \/ /\ callback[t] = NoId /\ callback'[t] \in operations
                              /\ object[callback'[t]].started
  PROVE  Ledger'
<1>1. \A id \in Id : Owned(id) => Owned(id)'
  BY DEF Owned, Id, NoId
<1>2. Released' /\ Begun' /\ AllRead'
  BY <1>1 DEF Ledger, Released, Begun, AllRead
<1>3. Lengths' = Lengths
  BY DEF Lengths
<1>. QED  BY <1>2, <1>3 DEF Ledger, Counted

LEMMA StartLedger ==
  ASSUME Inv, Inv', Ledger, NEW id \in Id, StartBegin(id)
  PROVE  Ledger'
<1>. DEFINE op == [object[id] EXCEPT !.started = TRUE]
<1>1. /\ id \in operations /\ Store(id, op) /\ starting' = id
      /\ UNCHANGED <<operations, callback, held, texts, read, outcome>>
  BY DEF StartBegin, history
<1>2. object[id] \in Operation
  BY DEF Inv, TypeOK
<1>3. op.started /\ op.final = object[id].final
  BY <1>2 DEF Operation
<1>4. Sound(op)
  BY <1>1 DEF Inv, AllSound, Store, TypeOK
<1>. HIDE DEF op
<1>. QED  BY <1>1, <1>3, <1>4, StoreKeepsLedger DEF Inv, Owned

LEMMA StartFailedLedger ==
  ASSUME Inv, Inv', Ledger, NEW error \in ErrorSize, StartFailed(error)
  PROVE  Ledger'
<1>. DEFINE id == starting
            op == Finish(object[id], id, Error, error)
<1>1. /\ id \in Id /\ id \in operations /\ Store(id, op) /\ starting' = NoId
      /\ UNCHANGED <<operations, callback, held, texts, read, outcome>>
      /\ error \in Nat /\ Sound(object[id]) /\ object[id].started
  BY SizesAreNat
     DEF StartFailed, history, Inv, TypeOK, StartingHeld, AllSound, Ledger, Begun
<1>2. Sound(op) /\ op.started
  <2>1. CASE object[id].final
    BY <1>1, <2>1 DEF Finish
  <2>2. CASE ~object[id].final
    BY <1>1, <2>2, FinishSound DEF SameFlags, Error, Complete
  <2>. QED  BY <2>1, <2>2
<1>3. object[id].final => op.final
  BY DEF Finish
<1>. HIDE DEF op, id
<1>. QED  BY <1>1, <1>2, <1>3, StoreKeepsLedger DEF Inv, Owned

LEMMA CancelLedger ==
  ASSUME Inv, Inv', Ledger, NEW id \in Id, lrlm_operation_cancel(id)
  PROVE  Ledger'
<1>. DEFINE op == CancelledOperation(object[id], id)
<1>1. /\ id \in operations /\ Store(id, op)
      /\ ~object[id].cancelled /\ ~object[id].terminal_taken
      /\ UNCHANGED <<operations, callback, starting, held, texts, read, outcome>>
      /\ texts[id] \in Nat /\ read[id] \in Nat
      /\ Sound(object[id]) /\ Story(object[id], texts[id], read[id], outcome[id])
  BY DEF lrlm_operation_cancel, history, Inv, TypeOK, AllSound, AllStories
<1>2. /\ Sound(op) /\ op.final = object[id].final /\ op.started = object[id].started
  BY <1>1, CancelStory
<1>. HIDE DEF op
<1>3. object[id].final => object[id].started
  BY DEF Ledger, Begun
<1>. QED  BY <1>1, <1>2, <1>3, StoreKeepsLedger DEF Inv, Owned

LEMMA TakeLedger ==
  ASSUME Inv, Inv', Ledger, NEW id \in Id, lrlm_operation_take(id)
  PROVE  Ledger'
<1>. DEFINE op == TakenOperation(object[id])
            e  == Head(object[id].queue)
<1>1. /\ id \in operations /\ object[id].queue # <<>>
      /\ held = NoEvent /\ held' = e
      /\ object' = [object EXCEPT ![id] = op]
      /\ read' = [read EXCEPT ![id] = IF IsText(e) THEN e.n ELSE @]
      /\ outcome' = [outcome EXCEPT ![id] = IF IsText(e) THEN @ ELSE e.kind]
      /\ UNCHANGED <<operations, callback, starting, live_events, texts>>
      /\ texts[id] \in Nat /\ read[id] \in Nat
      /\ Sound(object[id]) /\ Story(object[id], texts[id], read[id], outcome[id])
  BY DEF lrlm_operation_take, Inv, TypeOK, AllSound, AllStories
<1>2. /\ op.final = object[id].final /\ op.started = object[id].started
      /\ e \in Event
      /\ outcome[id] = Open
      /\ ~IsText(e) => object[id].final /\ (e.kind = Complete => read[id] = texts[id])
  BY <1>1, TakenStory
<1>3. Len(op.queue) = Len(object[id].queue) - 1
  BY <1>1, TakenSound
<1>. HIDE DEF op, e
<1>4. /\ object'[id] = op /\ \A j \in Id \ {id} : object'[j] = object[j]
      /\ \A j \in Id \ {id} : outcome'[j] = outcome[j] /\ read'[j] = read[j]
      /\ outcome'[id] = IF IsText(e) THEN outcome[id] ELSE e.kind
      /\ ~IsText(e) => read'[id] = read[id]
  BY <1>1 DEF Inv, TypeOK
<1>5. Released'
  BY <1>1, <1>4 DEF Ledger, Released, Owned
<1>6. Counted'
  <2>1. SumOf(Lengths, MaxId)'
          = SumOf(Lengths, MaxId) + Len(object'[id].queue) - Len(object[id].queue)
    BY <1>4, LengthChanged DEF Inv
  <2>2. SumOf(Lengths, MaxId) \in Nat
    BY SumIsNat DEF Inv
  <2>3. Len(object[id].queue) \in Nat
    <3>1. object[id].queue \in Seq(Event)
      BY <1>1 DEF Sound, Operation
    <3>. QED  BY <3>1
  <2>4. live_events = SumOf(Lengths, MaxId) + 0 /\ live_events' = live_events
    BY <1>1 DEF Ledger, Counted
  <2>5. held' # NoEvent
    BY <1>1, <1>2 DEF Event, NoEvent, Id, NoId
  <2>. QED  BY <1>3, <1>4, <2>1, <2>2, <2>3, <2>4, <2>5 DEF Counted
<1>7. Begun'
  BY <1>1, <1>2, <1>4 DEF Ledger, Begun, Inv, TypeOK
<1>8. AllRead'
  BY <1>1, <1>2, <1>4 DEF Ledger, AllRead, Open, Complete
<1>. QED  BY <1>5, <1>6, <1>7, <1>8 DEF Ledger

LEMMA DeleteLedger ==
  ASSUME Inv, Inv', Ledger, NEW id \in Id, lrlm_operation_delete(id)
  PROVE  Ledger'
<1>1. /\ id \in operations /\ operations' = operations \ {id}
      /\ UNCHANGED <<callback, starting, held, texts, read, outcome>>
      /\ Sound(object[id])
  BY DEF lrlm_operation_delete, history, Inv, AllSound
<1>2. CASE \E t \in Thread : callback[t] = id
  <2>1. \A j \in Id : Owned(j) => Owned(j)'
    BY <1>1, <1>2 DEF Owned
  <2>2. UNCHANGED <<object, live_events>>
    BY <1>2 DEF lrlm_operation_delete
  <2>3. Released' /\ Begun' /\ AllRead'
    BY <1>1, <2>1, <2>2 DEF Ledger, Released, Begun, AllRead
  <2>4. Lengths' = Lengths
    BY <2>2 DEF Lengths
  <2>. QED  BY <1>1, <2>2, <2>3, <2>4 DEF Ledger, Counted
<1>3. CASE ~\E t \in Thread : callback[t] = id
  <2>1. Store(id, Clear(object[id]))
    BY <1>3 DEF lrlm_operation_delete, Release
  <2>. DEFINE op == Clear(object[id])
  <2>2. /\ Sound(op) /\ op.queue = <<>>
        /\ op.final = object[id].final /\ op.started = object[id].started
    BY <1>1, ClearSound
  <2>3. object[id].final => object[id].started
    BY DEF Ledger, Begun
  <2>4. \A j \in Id \ {id} : Owned(j) => Owned(j)'
    BY <1>1 DEF Owned
  <2>. HIDE DEF op
  <2>. QED  BY <1>1, <2>1, <2>2, <2>3, <2>4, StoreKeepsLedger DEF Inv, op
<1>. QED  BY <1>2, <1>3

LEMMA RunLedger ==
  ASSUME Inv, Inv', Ledger, NEW t \in Thread, NEW chunk \in Chunk, CallbackRun(t, chunk)
  PROVE  Ledger'
<1>0. PICK id \in Id : id = callback[t] /\ id # NoId
  BY DEF CallbackRun, Inv, TypeOK
<1>. DEFINE op == Receive(object[id], id, chunk, texts[id] + 1)
<1>1. /\ texts[id] + 1 \in Nat /\ Sound(object[id])
      /\ object[id].started
  BY <1>0 DEF Inv, TypeOK, AllSound, Ledger, Begun
<1>2. /\ UNCHANGED <<operations, starting, held, read, outcome>>
      /\ callback' = [callback EXCEPT ![t] = NoId]
      /\ ~object[id].final \/ texts' = texts
      /\ \A j \in Id \ {id} : texts'[j] = texts[j]
  BY <1>0 DEF CallbackRun, Inv, TypeOK
<1>3. PICK keeps \in BOOLEAN :
         /\ Store(id, IF keeps THEN op ELSE Clear(op))
         /\ keeps => \/ id \in operations
                     \/ \E u \in Thread \ {t} : callback[u] = id
  BY <1>0 DEF CallbackRun, Release
<1>4. Sound(op) /\ op.started /\ (object[id].final => op.final)
  BY <1>1, ReceiveSound DEF SameFlags
<1>. HIDE DEF op
<1>. DEFINE p == IF keeps THEN op ELSE Clear(op)
<1>5. /\ Sound(p) /\ p.started /\ (object[id].final => p.final)
      /\ keeps \/ p.queue = <<>>
  BY <1>4, ClearSound
<1>6. Store(id, p)
  BY <1>3
<1>. HIDE DEF p
<1>7. /\ \A u \in Thread \ {t} : callback'[u] = callback[u]
      /\ \A u \in Thread : callback'[u] \in {callback[u], NoId}
      /\ callback[t] = id
  BY <1>0, <1>2 DEF Inv, TypeOK
<1>8. keeps => Owned(id)'
  <2>1. CASE id \in operations
    BY <1>2, <2>1 DEF Owned
  <2>2. ASSUME NEW u \in Thread \ {t}, callback[u] = id
        PROVE  Owned(id)'
    BY <1>7, <2>2 DEF Owned
  <2>. QED  BY <1>3, <2>1, <2>2
<1>a. \A j \in Id \ {id} : Owned(j) => Owned(j)'
  <2>. SUFFICES ASSUME NEW j \in Id \ {id}, Owned(j)
                PROVE  Owned(j)'
    OBVIOUS
  <2>1. CASE j \in operations
    BY <1>2, <2>1 DEF Owned
  <2>2. ASSUME NEW u \in Thread, callback[u] = j
        PROVE  Owned(j)'
    BY <1>7, <2>2 DEF Owned
  <2>. QED  BY <2>1, <2>2 DEF Owned
<1>9. \A j \in Id : outcome[j] = Complete => texts'[j] = texts[j]
  BY <1>2 DEF Ledger, AllRead
<1>b. id \in Id /\ held' = held /\ starting' = starting /\ outcome' = outcome
      /\ read' = read /\ TypeOK /\ TypeOK'
  BY <1>1, <1>2 DEF Inv
<1>c. /\ object[id].started => p.started
      /\ p.final => p.started
      /\ Owned(id)' \/ p.queue = <<>>
  BY <1>5, <1>8
<1>. QED  BY <1>5, <1>6, <1>7, <1>9, <1>a, <1>b, <1>c, StoreKeepsLedger

LEMMA LedgerStep == Inv /\ Ledger /\ [Next]_vars => Ledger'
<1>. SUFFICES ASSUME Inv, Ledger, [Next]_vars PROVE Ledger'
  OBVIOUS
<1>0. Inv'
  BY StepInv
<1>. TypeOK
  BY DEF Inv
<1>1. CASE lrlm_operation_create
  BY <1>1, QuietLedger DEF lrlm_operation_create, history
<1>2. CASE StartOk
  BY <1>2, QuietLedger DEF StartOk, history
<1>3. CASE \E error \in ErrorSize : StartFailed(error)
  BY <1>0, <1>3, StartFailedLedger
<1>4. CASE lrlm_event_delete
  <2>1. /\ held # NoEvent /\ held' = NoEvent /\ live_events' = live_events - 1
        /\ UNCHANGED <<operations, object, callback, starting, texts, read, outcome>>
    BY <1>4 DEF lrlm_event_delete, history
  <2>2. Released' /\ Begun' /\ AllRead'
    BY <2>1 DEF Ledger, Released, Begun, AllRead, Owned
  <2>3. Lengths' = Lengths
    BY <2>1 DEF Lengths
  <2>4. live_events = SumOf(Lengths, MaxId) + 1 /\ SumOf(Lengths, MaxId) \in Nat
    BY <2>1, SumIsNat DEF Ledger, Counted
  <2>. QED  BY <2>1, <2>2, <2>3, <2>4 DEF Ledger, Counted
<1>5. CASE \E id \in Id : StartBegin(id)
  BY <1>0, <1>5, StartLedger
<1>6. CASE \E id \in Id : lrlm_operation_cancel(id)
  BY <1>0, <1>6, CancelLedger
<1>7. CASE \E id \in Id : lrlm_operation_take(id)
  BY <1>0, <1>7, TakeLedger
<1>8. CASE \E id \in Id : lrlm_operation_delete(id)
  BY <1>0, <1>8, DeleteLedger
<1>9. ASSUME NEW id \in Id, NEW t \in Thread, CallbackFind(t, id)
      PROVE  Ledger'
  <2>1. /\ callback[t] = NoId /\ id \in operations /\ object[id].started
        /\ callback' = [callback EXCEPT ![t] = id]
        /\ UNCHANGED <<operations, object, starting, held, live_events, texts, read,
                       outcome>>
    BY <1>9 DEF CallbackFind, history
  <2>2. \A u \in Thread : callback'[u] = IF u = t THEN id ELSE callback[u]
    BY <2>1 DEF TypeOK
  <2>. QED  BY <2>1, <2>2, QuietLedger
<1>10. CASE \E t \in Thread, chunk \in Chunk : CallbackRun(t, chunk)
  BY <1>0, <1>10, RunLedger
<1>11. CASE UNCHANGED vars
  BY <1>11, QuietLedger DEF vars
<1>. QED
  BY <1>1, <1>2, <1>3, <1>4, <1>5, <1>6, <1>7, <1>8, <1>9, <1>10, <1>11 DEF Next

THEOREM LedgerInvariance == Spec => [](Inv /\ Ledger)
<1>1. Init => Inv /\ Ledger
  BY InitInv, LedgerInit
<1>2. Inv /\ Ledger /\ [Next]_vars => (Inv /\ Ledger)'
  BY StepInv, LedgerStep
<1>. QED  BY <1>1, <1>2, PTL DEF Spec

\* Every event that exists is in the queue of an operation that somebody owns, or
\* in the worker's hands: none is leaked, none destroyed twice, whatever callbacks
\* an operation outlives or is outlived by.
THEOREM EventsAreAccounted == Spec => []EventsAccounted
<1>1. Inv /\ Ledger => EventsAccounted
  <2>. SUFFICES ASSUME Inv, Ledger PROVE EventsAccounted
    OBVIOUS
  <2>1. [id \in Id |-> IF Owned(id) THEN Len(object[id].queue) ELSE 0] = Lengths
    BY DEF Ledger, Released, Lengths
  <2>. QED  BY <2>1 DEF Ledger, Counted, EventsAccounted
<1>. QED  BY <1>1, LedgerInvariance, PTL

-----------------------------------------------------------------------------
(* What a caller that keeps its own tables builds on.                      *)

\* The runtime's answer to an operation is complete: the word is queued or read.
SaysComplete(op) == \E i \in 1 .. Len(op.queue) : op.queue[i].kind = Complete

Completing(id) == outcome[id] = Complete \/ SaysComplete(object[id])

LEMMA AppendSays ==
  ASSUME NEW op \in Operation, NEW p, NEW q \in {<<>>, op.queue}, NEW e \in Event,
         p.queue = Append(q, e), SaysComplete(p)
  PROVE  SaysComplete(op) \/ e.kind = Complete
<1>1. op.queue \in Seq(Event) /\ q \in Seq(Event)
  <2>1. op.queue \in Seq(Event) /\ <<>> \in Seq(Event)
    BY DEF Operation
  <2>. QED  BY <2>1
<1>2. PICK i \in 1 .. Len(p.queue) : p.queue[i].kind = Complete
  BY DEF SaysComplete
<1>3. Len(p.queue) = Len(q) + 1 /\ Len(q) \in Nat
  BY <1>1
<1>4. CASE i = Len(q) + 1
  BY <1>1, <1>2, <1>4
<1>5. CASE i # Len(q) + 1
  <2>1. i \in 1 .. Len(q)
    BY <1>2, <1>3, <1>5
  <2>2. p.queue[i] = q[i]
    BY <1>1, <2>1
  <2>3. q = op.queue
    BY <2>1
  <2>. QED  BY <1>2, <2>1, <2>2, <2>3 DEF SaysComplete
<1>. QED  BY <1>4, <1>5

LEMMA OfferSays ==
  ASSUME NEW op, Sound(op), ~op.final, NEW id \in Id,
         NEW size \in {0} \union TextSize, NEW n \in Nat,
         SaysComplete(Offer(op, id, size, n))
  PROVE  SaysComplete(op)
<1>. DEFINE p == Offer(op, id, size, n)
<1>1. \/ (size = 0 \/ Lossy(op)) /\ p = op
      \/ /\ size # 0 /\ ~Lossy(op)
         /\ p.queue = <<>> /\ p.overflow
      \/ /\ size # 0 /\ ~Lossy(op)
         /\ p.overflow = op.overflow
         /\ \E e \in Event : /\ p.queue = Append(op.queue, e)
                             /\ IsText(e) /\ e.n = n
  BY OfferSound
<1>2. SaysComplete(p)
  OBVIOUS
<1>3. op \in Operation
  BY DEF Sound
<1>. HIDE DEF p
<1>4. CASE p = op
  BY <1>2, <1>4
<1>5. CASE p.queue = <<>>
  BY <1>2, <1>5 DEF SaysComplete
<1>6. ASSUME NEW e \in Event, p.queue = Append(op.queue, e), IsText(e)
      PROVE  SaysComplete(op)
  BY <1>2, <1>3, <1>6, AppendSays DEF IsText, TextKind, Complete
<1>. QED  BY <1>1, <1>4, <1>5, <1>6

LEMMA ReceiveSays ==
  ASSUME NEW op, Sound(op), NEW id \in Id, NEW chunk \in Chunk, NEW n \in Nat,
         SaysComplete(Receive(op, id, chunk, n))
  PROVE  SaysComplete(op) \/ (chunk.final /\ chunk.error = 0)
<1>. USE BoundsAssumption
<1>1. op \in Operation /\ chunk.text \in {0} \union TextSize
      /\ chunk.error \in {0} \union ErrorSize
  BY DEF Sound, Chunk
<1>2. CASE op.final
  BY <1>2 DEF Receive
<1>3. CASE ~op.final /\ chunk.error > 0
  <2>1. Receive(op, id, chunk, n) = Finish(op, id, Error, chunk.error)
    BY <1>3 DEF Receive
  <2>2. chunk.error \in Nat
    BY <1>1, SizesAreNat
  <2>3. PICK q \in {<<>>, op.queue}, e \in Event :
           /\ Receive(op, id, chunk, n).queue = Append(q, e)
           /\ e.kind = FinishKind(op, Error)
    BY <1>3, <2>1, <2>2, FinishSound
  <2>4. e.kind # Complete
    BY <2>3 DEF FinishKind, Error, Complete, Cancelled, Backpressure
  <2>. QED  BY <1>1, <2>3, <2>4, AppendSays
<1>4. CASE ~op.final /\ ~(chunk.error > 0) /\ ~chunk.final
  <2>1. Receive(op, id, chunk, n) = Offer(op, id, chunk.text, n)
    BY <1>4 DEF Receive
  <2>. QED  BY <1>1, <1>4, <2>1, OfferSays
<1>5. chunk.error > 0 \/ chunk.error = 0
  <2>1. chunk.error \in Nat
    BY <1>1, SizesAreNat
  <2>. QED  BY <2>1
<1>. QED  BY <1>2, <1>3, <1>4, <1>5

\* Only a final chunk without an error completes an answer.
LEMMA RunCompletes ==
  ASSUME Inv, NEW t \in Thread, NEW chunk \in Chunk, CallbackRun(t, chunk),
         NEW id \in Id, Completing(id)'
  PROVE  Completing(id) \/ (id = callback[t] /\ chunk.final /\ chunk.error = 0)
<1>0. PICK k \in Id : k = callback[t] /\ k # NoId
  BY DEF CallbackRun, Inv, TypeOK
<1>. DEFINE op == Receive(object[k], k, chunk, texts[k] + 1)
<1>1. /\ outcome' = outcome
      /\ Store(k, op) \/ Store(k, Clear(op))
  BY <1>0 DEF CallbackRun, Release
<1>2. /\ texts[k] + 1 \in Nat /\ Sound(object[k])
  BY DEF Inv, TypeOK, AllSound
<1>3. Sound(op)
  BY <1>2, ReceiveSound
<1>4. SaysComplete(op) => SaysComplete(object[k]) \/ (chunk.final /\ chunk.error = 0)
  BY <1>2, ReceiveSays
<1>5. ~SaysComplete(Clear(op))
  BY <1>3, ClearSound DEF SaysComplete
<1>. HIDE DEF op
<1>6. /\ \A j \in Id \ {k} : object'[j] = object[j]
      /\ object'[k] \in {op, Clear(op)}
  BY <1>1 DEF Store, Inv, TypeOK
<1>. QED  BY <1>0, <1>1, <1>4, <1>5, <1>6 DEF Completing, SaysComplete

\* A step that stores an operation that says no more than before.
LEMMA StoreSays ==
  ASSUME Inv, NEW k \in Id, NEW op, Store(k, op),
         SaysComplete(op) => SaysComplete(object[k]), outcome' = outcome,
         NEW id \in Id, Completing(id)'
  PROVE  Completing(id)
<1>1. /\ object'[k] = op
      /\ \A j \in Id \ {k} : object'[j] = object[j]
  BY DEF Store, Inv, TypeOK
<1>. QED  BY <1>1 DEF Completing, SaysComplete

LEMMA TakeCompletes ==
  ASSUME Inv, NEW k \in Id, lrlm_operation_take(k), NEW id \in Id, Completing(id)'
  PROVE  Completing(id)
<1>. DEFINE op == TakenOperation(object[k])
<1>1. /\ object[k].queue # <<>> /\ held' = Head(object[k].queue)
      /\ object' = [object EXCEPT ![k] = op]
      /\ outcome' = [outcome EXCEPT ![k] = IF IsText(held') THEN @ ELSE held'.kind]
      /\ Sound(object[k])
  BY DEF lrlm_operation_take, Inv, AllSound
<1>2. /\ op.queue = Tail(object[k].queue)
      /\ object[k].queue \in Seq(Event)
  BY <1>1, TakenSound DEF Sound, Operation
<1>. HIDE DEF op
<1>3. /\ object'[k] = op
      /\ outcome'[k] \in {outcome[k], held'.kind}
      /\ \A j \in Id \ {k} : object'[j] = object[j] /\ outcome'[j] = outcome[j]
  BY <1>1 DEF Inv, TypeOK
<1>4. CASE id # k
  BY <1>3, <1>4 DEF Completing, SaysComplete
<1>5. CASE id = k /\ SaysComplete(op)
  <2>1. PICK i \in 1 .. Len(op.queue) : op.queue[i].kind = Complete
    BY <1>5 DEF SaysComplete
  <2>2. i + 1 \in 1 .. Len(object[k].queue) /\ op.queue[i] = object[k].queue[i + 1]
    BY <1>1, <1>2, <2>1
  <2>. QED  BY <1>5, <2>1, <2>2 DEF Completing, SaysComplete
<1>6. CASE id = k /\ outcome'[k] = Complete
  <2>1. 1 \in 1 .. Len(object[k].queue) /\ held' = object[k].queue[1]
    BY <1>1, <1>2
  <2>. QED  BY <1>3, <1>6, <2>1 DEF Completing, SaysComplete
<1>7. SaysComplete(object[k])' <=> SaysComplete(op)
  BY <1>3 DEF SaysComplete
<1>. QED  BY <1>4, <1>5, <1>6, <1>7 DEF Completing

\* While no callback runs, nothing becomes complete.
LEMMA NothingCompletes ==
  ASSUME Inv, [Next]_vars, callback' = callback, NEW id \in Id, Completing(id)'
  PROVE  Completing(id)
<1>1. CASE object' = object /\ outcome' = outcome
  BY <1>1 DEF Completing, SaysComplete
<1>2. ASSUME NEW k \in Id, StartBegin(k)
      PROVE  Completing(id)
  <2>1. /\ Store(k, [object[k] EXCEPT !.started = TRUE]) /\ outcome' = outcome
        /\ object[k] \in Operation
    BY <1>2 DEF StartBegin, history, Inv, TypeOK
  <2>2. [object[k] EXCEPT !.started = TRUE].queue = object[k].queue
    BY <2>1 DEF Operation
  <2>. QED  BY <2>1, <2>2, StoreSays DEF SaysComplete
<1>3. ASSUME NEW error \in ErrorSize, StartFailed(error)
      PROVE  Completing(id)
  <2>. DEFINE op == Finish(object[starting], starting, Error, error)
  <2>1. /\ starting \in Id /\ Store(starting, op) /\ outcome' = outcome
        /\ Sound(object[starting]) /\ object[starting] \in Operation
        /\ error \in Nat
    BY <1>3, SizesAreNat DEF StartFailed, history, Inv, TypeOK, AllSound, Sound
  <2>2. CASE object[starting].final
    BY <2>1, <2>2, StoreSays DEF Finish
  <2>3. CASE ~object[starting].final
    <3>1. PICK q \in {<<>>, object[starting].queue}, e \in Event :
             op.queue = Append(q, e) /\ e.kind = FinishKind(object[starting], Error)
      BY <2>1, <2>3, FinishSound
    <3>2. e.kind # Complete
      BY <3>1 DEF FinishKind, Error, Complete, Cancelled, Backpressure
    <3>. HIDE DEF op
    <3>3. SaysComplete(op) => SaysComplete(object[starting])
      BY <2>1, <3>1, <3>2, AppendSays
    <3>. QED  BY <2>1, <3>3, StoreSays
  <2>. QED  BY <2>2, <2>3
<1>4. ASSUME NEW k \in Id, lrlm_operation_cancel(k)
      PROVE  Completing(id)
  <2>. DEFINE op == CancelledOperation(object[k], k)
              cleared == [Clear(object[k]) EXCEPT !.cancelled = TRUE]
  <2>1. /\ Store(k, op) /\ outcome' = outcome /\ Sound(object[k])
    BY <1>4 DEF lrlm_operation_cancel, history, Inv, AllSound
  <2>2. cleared.queue = <<>> /\ cleared \in Operation
    <3>1. Clear(object[k]) \in Operation /\ Clear(object[k]).queue = <<>>
      BY <2>1, ClearSound DEF Sound
    <3>. HIDE DEF Clear
    <3>. QED  BY <3>1 DEF Operation
  <2>3. \/ op.queue = <<>>
        \/ op.queue = Append(<<>>, [id |-> k, kind |-> Cancelled, size |-> 0, n |-> 0])
    <3>1. op = cleared \/ op = Push(cleared, [id |-> k, kind |-> Cancelled,
                                              size |-> 0, n |-> 0])
      BY DEF CancelledOperation
    <3>. HIDE DEF op, cleared
    <3>. QED  BY <2>2, <3>1 DEF Push, Operation
  <2>. HIDE DEF op
  <2>4. ~SaysComplete(op)
    BY <2>3 DEF SaysComplete, Cancelled, Complete
  <2>. QED  BY <2>1, <2>4, StoreSays
<1>5. ASSUME NEW k \in Id, lrlm_operation_delete(k)
      PROVE  Completing(id)
  <2>1. /\ (object' = object) \/ Store(k, Clear(object[k]))
        /\ outcome' = outcome /\ Sound(object[k])
    BY <1>5 DEF lrlm_operation_delete, Release, history, Inv, AllSound
  <2>2. ~SaysComplete(Clear(object[k]))
    BY <2>1, ClearSound DEF SaysComplete
  <2>. QED  BY <1>1, <2>1, <2>2, StoreSays
<1>6. ASSUME NEW t \in Thread, NEW chunk \in Chunk, CallbackRun(t, chunk)
      PROVE  Completing(id)
  BY <1>6 DEF CallbackRun, Inv, TypeOK
<1>7. CASE \/ lrlm_operation_create \/ StartOk \/ lrlm_event_delete
           \/ \E t \in Thread, k \in Id : CallbackFind(t, k)
  BY <1>1, <1>7 DEF lrlm_operation_create, StartOk, lrlm_event_delete, CallbackFind,
     history
<1>8. CASE UNCHANGED vars
  BY <1>1, <1>8 DEF vars
<1>. QED  BY <1>2, <1>3, <1>4, <1>5, <1>6, <1>7, <1>8, TakeCompletes DEF Next

\* What is said of an operation stays said, and a final one gets no more texts.
LEMMA LastWord ==
  ASSUME Inv, [Next]_vars
  PROVE  \A id \in Id : /\ object[id].final => texts'[id] = texts[id]
                        /\ outcome[id] = Complete => outcome'[id] = Complete
<1>. SUFFICES ASSUME NEW id \in Id
              PROVE  /\ object[id].final => texts'[id] = texts[id]
                     /\ outcome[id] = Complete => outcome'[id] = Complete
  OBVIOUS
<1>1. CASE texts' = texts /\ outcome' = outcome
  BY <1>1
<1>2. ASSUME NEW k \in Id, lrlm_operation_take(k)
      PROVE  /\ object[id].final => texts'[id] = texts[id]
             /\ outcome[id] = Complete => outcome'[id] = Complete
  <2>1. /\ object[k].queue # <<>> /\ texts' = texts /\ Sound(object[k])
        /\ texts[k] \in Nat /\ read[k] \in Nat
        /\ Story(object[k], texts[k], read[k], outcome[k])
        /\ \A j \in Id \ {k} : outcome'[j] = outcome[j]
    BY <1>2 DEF lrlm_operation_take, Inv, TypeOK, AllSound, AllStories
  <2>2. outcome[k] = Open
    BY <2>1, TakenStory
  <2>. QED  BY <2>1, <2>2 DEF Open, Complete
<1>3. ASSUME NEW t \in Thread, NEW chunk \in Chunk, CallbackRun(t, chunk)
      PROVE  /\ object[id].final => texts'[id] = texts[id]
             /\ outcome[id] = Complete => outcome'[id] = Complete
  BY <1>3 DEF CallbackRun, Inv, TypeOK
<1>4. CASE Next /\ ~(\E k \in Id : lrlm_operation_take(k))
           /\ ~(\E t \in Thread, chunk \in Chunk : CallbackRun(t, chunk))
  BY <1>1, <1>4 DEF Next, lrlm_operation_create, StartOk, StartFailed, lrlm_event_delete,
     StartBegin, lrlm_operation_cancel, lrlm_operation_delete, CallbackFind, history
<1>5. CASE UNCHANGED vars
  BY <1>1, <1>5 DEF vars
<1>. QED  BY <1>2, <1>3, <1>4, <1>5

\* What a take tells.
LEMMA TakeReads ==
  ASSUME Inv, NEW id \in Id, lrlm_operation_take(id)
  PROVE  /\ held = NoEvent /\ held' # NoEvent
         /\ texts' = texts
         /\ \A j \in Id \ {id} : read'[j] = read[j] /\ outcome'[j] = outcome[j]
         /\ IsText(held') => read'[id] = read[id] + 1 /\ outcome'[id] = outcome[id]
         /\ ~IsText(held') => read'[id] = read[id] /\ outcome'[id] = held'.kind
<1>. DEFINE e == Head(object[id].queue)
<1>1. /\ object[id].queue # <<>> /\ held' = e /\ held = NoEvent
      /\ read' = [read EXCEPT ![id] = IF IsText(e) THEN e.n ELSE @]
      /\ outcome' = [outcome EXCEPT ![id] = IF IsText(e) THEN @ ELSE e.kind]
      /\ texts' = texts
      /\ texts[id] \in Nat /\ read[id] \in Nat
      /\ Sound(object[id]) /\ Story(object[id], texts[id], read[id], outcome[id])
  BY DEF lrlm_operation_take, Inv, TypeOK, AllSound, AllStories
<1>2. e \in Event /\ (IsText(e) => e.n = read[id] + 1)
  BY <1>1, TakenStory
<1>. HIDE DEF e
<1>3. e # NoEvent
  BY <1>2 DEF Event, NoEvent, Id, NoId
<1>. QED  BY <1>1, <1>2, <1>3 DEF Inv, TypeOK


\* A final operation stays final.
LEMMA FinalStays ==
  ASSUME Inv, [Next]_vars, NEW id \in Id, object[id].final
  PROVE  object'[id].final
<1>1. ASSUME NEW k \in Id, NEW op, object[k].final => op.final,
             object' = [object EXCEPT ![k] = op]
      PROVE  object'[id].final
  BY <1>1 DEF Inv, TypeOK
<1>2. ASSUME NEW k \in Id, StartBegin(k)
      PROVE  object'[id].final
  <2>1. object[k] \in Operation
    BY DEF Inv, TypeOK
  <2>2. [object[k] EXCEPT !.started = TRUE].final = object[k].final
    BY <2>1 DEF Operation
  <2>. QED  BY <1>1, <1>2, <2>2 DEF StartBegin, Store
<1>3. ASSUME NEW error \in ErrorSize, StartFailed(error)
      PROVE  object'[id].final
  <2>1. starting \in Id /\ object[starting] \in Operation
    BY <1>3 DEF StartFailed, Inv, TypeOK
  <2>2. Finish(object[starting], starting, Error, error).final
    BY <2>1 DEF Finish, Push, Clear, Operation
  <2>. QED  BY <1>1, <1>3, <2>1, <2>2 DEF StartFailed, Store
<1>4. ASSUME NEW k \in Id, lrlm_operation_cancel(k)
      PROVE  object'[id].final
  <2>1. object[k] \in Operation
    BY DEF Inv, TypeOK
  <2>2. CancelledOperation(object[k], k).final = object[k].final
    BY <2>1 DEF CancelledOperation, Push, Clear, Operation
  <2>. QED  BY <1>1, <1>4, <2>2 DEF lrlm_operation_cancel, Store
<1>5. ASSUME NEW k \in Id, lrlm_operation_take(k)
      PROVE  object'[id].final
  <2>1. object[k] \in Operation
    BY DEF Inv, TypeOK
  <2>2. TakenOperation(object[k]).final = object[k].final
    BY <2>1 DEF TakenOperation, Operation
  <2>3. object' = [object EXCEPT ![k] = TakenOperation(object[k])]
    BY <1>5 DEF lrlm_operation_take
  <2>. QED  BY <1>1, <2>2, <2>3
<1>6. ASSUME NEW k \in Id, lrlm_operation_delete(k)
      PROVE  object'[id].final
  <2>1. object[k] \in Operation
    BY DEF Inv, TypeOK
  <2>2. Clear(object[k]).final = object[k].final
    BY <2>1 DEF Clear, Operation
  <2>. QED  BY <1>1, <1>6, <2>2 DEF lrlm_operation_delete, Store, Release
<1>7. ASSUME NEW t \in Thread, NEW chunk \in Chunk, CallbackRun(t, chunk)
      PROVE  object'[id].final
  <2>0. PICK k \in Id : k = callback[t]
    BY <1>7 DEF CallbackRun, Inv, TypeOK
  <2>. DEFINE op == Receive(object[k], k, chunk, texts[k] + 1)
  <2>1. Sound(object[k]) /\ texts[k] + 1 \in Nat
    BY DEF Inv, TypeOK, AllSound
  <2>2. Sound(op) /\ (object[k].final => op.final)
    BY <2>1, ReceiveSound
  <2>3. Clear(op).final = op.final
    BY <2>2, ClearSound
  <2>4. Store(k, op) \/ Store(k, Clear(op))
    BY <1>7, <2>0 DEF CallbackRun, Release
  <2>. HIDE DEF op
  <2>. QED  BY <1>1, <2>2, <2>3, <2>4 DEF Store
<1>8. CASE UNCHANGED object
  BY <1>8
<1>9. CASE \/ lrlm_operation_create \/ StartOk \/ lrlm_event_delete
           \/ \E t \in Thread, k \in Id : CallbackFind(t, k)
  BY <1>9 DEF lrlm_operation_create, StartOk, lrlm_event_delete, CallbackFind
<1>. QED  BY <1>2, <1>3, <1>4, <1>5, <1>6, <1>7, <1>8, <1>9 DEF Next, vars

(* What each call leaves behind, as far as a caller's tables depend on it. *)

\* What is said of an operation stays said.
Lasting(id) ==
    /\ object[id].final => object'[id].final
    /\ object[id].started => object'[id].started

LEMMA CreateCall ==
  ASSUME Inv, lrlm_operation_create
  PROVE  /\ next_id \in Id \ operations
         /\ operations' = operations \union {next_id}
         /\ ~object[next_id].started
         /\ \A t \in Thread : callback[t] # next_id
         /\ UNCHANGED <<object, callback, starting, held>>
<1>1. /\ starting = NoId /\ next_id # 0
      /\ operations' = operations \union {next_id}
      /\ UNCHANGED <<object, callback, starting, held>>
  BY DEF lrlm_operation_create
<1>2. next_id \in Id
  BY <1>1 DEF Inv, TypeOK
<1>3. Unused(next_id)
  BY <1>1, <1>2 DEF Inv, AllUnused, Id
<1>4. ~object[next_id].started
  BY <1>3 DEF Unused, NewOperation
<1>. QED  BY <1>1, <1>2, <1>3, <1>4 DEF Unused, Id

\* A call that stores an operation with the same flags, but for `cancelled`.
LEMMA StoreFlags ==
  ASSUME Inv, NEW id \in Id, NEW op, Store(id, op)
  PROVE  /\ object'[id] = op
         /\ \A j \in Id \ {id} : object'[j] = object[j]
<1>1. object \in [Id -> Operation]
  BY DEF Inv, TypeOK, Id
<1>. QED  BY <1>1 DEF Store

LEMMA StartCall ==
  ASSUME Inv, NEW id, StartBegin(id)
  PROVE  /\ id \in operations
         /\ \A j \in Id : Lasting(j)
         /\ \A j \in Id : object'[j].final = object[j].final
         /\ object'[id].started
         /\ starting' = id
         /\ UNCHANGED <<operations, callback, held>>
<1>1. /\ id \in operations /\ starting' = id
      /\ Store(id, [object[id] EXCEPT !.started = TRUE])
      /\ UNCHANGED <<operations, callback, held>>
  BY DEF StartBegin
<1>2. id \in Id /\ object[id] \in Operation
  BY <1>1 DEF Inv, TypeOK, Id
<1>3. /\ object'[id] = [object[id] EXCEPT !.started = TRUE]
      /\ \A j \in Id \ {id} : object'[j] = object[j]
  BY <1>1, <1>2, StoreFlags
<1>4. object'[id].started /\ object'[id].final = object[id].final
  BY <1>2, <1>3 DEF Operation
<1>. QED  BY <1>1, <1>3, <1>4 DEF Lasting

LEMMA FinishFlags ==
  ASSUME NEW op \in Operation, NEW id, NEW kind, NEW error
  PROVE  /\ Finish(op, id, kind, error).final
         /\ Finish(op, id, kind, error).started = op.started
<1>1. CASE op.final
  BY <1>1 DEF Finish
<1>2. CASE ~op.final
  BY <1>2 DEF Finish, Push, Clear, Operation
<1>. QED  BY <1>1, <1>2

LEMMA StartFailedCall ==
  ASSUME Inv, NEW error, StartFailed(error)
  PROVE  /\ starting # NoId
         /\ starting \in operations
         /\ \A j \in Id : Lasting(j)
         /\ \A j \in Id \ {starting} : object'[j] = object[j]
         /\ object'[starting].final
         /\ UNCHANGED <<operations, callback, held>>
<1>1. /\ starting # NoId
      /\ Store(starting, Finish(object[starting], starting, Error, error))
      /\ UNCHANGED <<operations, callback, held>>
  BY DEF StartFailed
<1>2. starting \in operations
  BY <1>1 DEF Inv, StartingHeld, NoId
<1>3. starting \in Id /\ object[starting] \in Operation
  BY <1>2 DEF Inv, TypeOK, Id
<1>4. /\ object'[starting] = Finish(object[starting], starting, Error, error)
      /\ \A j \in Id \ {starting} : object'[j] = object[j]
  BY <1>1, <1>3, StoreFlags
<1>. QED  BY <1>1, <1>2, <1>3, <1>4, FinishFlags DEF Lasting

LEMMA CancelCall ==
  ASSUME Inv, NEW id, lrlm_operation_cancel(id)
  PROVE  /\ \A j \in Id : /\ object'[j].final = object[j].final
                          /\ object'[j].started = object[j].started
         /\ UNCHANGED <<operations, callback, starting, held>>
<1>1. /\ id \in operations
      /\ Store(id, CancelledOperation(object[id], id))
      /\ UNCHANGED <<operations, callback, starting, held>>
  BY DEF lrlm_operation_cancel
<1>2. id \in Id /\ object[id] \in Operation
  BY <1>1 DEF Inv, TypeOK, Id
<1>3. /\ object'[id] = CancelledOperation(object[id], id)
      /\ \A j \in Id \ {id} : object'[j] = object[j]
  BY <1>1, <1>2, StoreFlags
<1>4. /\ object'[id].final = object[id].final
      /\ object'[id].started = object[id].started
  BY <1>2, <1>3 DEF CancelledOperation, Push, Clear, Operation
<1>. QED  BY <1>1, <1>3, <1>4

\* A terminal that was taken is the word of a final operation.
LEMMA TakeCall ==
  ASSUME Inv, NEW id, lrlm_operation_take(id)
  PROVE  /\ \A j \in Id : /\ object'[j].final = object[j].final
                          /\ object'[j].started = object[j].started
         /\ held' # NoEvent
         /\ ~IsText(held') => object'[id].final
         /\ UNCHANGED <<operations, callback, starting>>
<1>. DEFINE op == object[id]
<1>1. /\ id \in operations /\ op.queue # <<>> /\ held' = Head(op.queue)
      /\ object' = [object EXCEPT ![id] = TakenOperation(@)]
      /\ UNCHANGED <<operations, callback, starting>>
  BY DEF lrlm_operation_take
<1>2. /\ id \in Id /\ op \in Operation /\ object \in [Id -> Operation]
      /\ Story(op, texts[id], read[id], outcome[id])
  BY <1>1 DEF Inv, TypeOK, AllStories, Id
<1>3. \A j \in Id : /\ object'[j].final = object[j].final
                      /\ object'[j].started = object[j].started
  BY <1>1, <1>2 DEF TakenOperation, Operation
<1>4. op.queue \in Seq(Event) /\ Head(op.queue) = op.queue[1]
      /\ Len(op.queue) \in Nat \ {0}
  BY <1>1, <1>2 DEF Operation
<1>5. op.queue[1] # NoEvent
  BY <1>4 DEF Event, NoEvent, Id, NoId
<1>6. ~IsText(op.queue[1]) => op.final
  <2>1. /\ \A i \in 1 .. Len(op.queue) - 1 : IsText(op.queue[i])
        /\ op.final <=> ~IsText(op.queue[Len(op.queue)])
    BY <1>2, <1>4 DEF Story
  <2>2. CASE Len(op.queue) = 1
    BY <2>1, <2>2 DEF IsText, IsText, TextKind, TextKind
  <2>3. CASE Len(op.queue) # 1
    BY <2>1, <2>3, <1>4 DEF IsText, IsText, TextKind, TextKind
  <2>. QED  BY <2>2, <2>3
<1>. QED  BY <1>1, <1>2, <1>3, <1>4, <1>5, <1>6

LEMMA DeleteCall ==
  ASSUME Inv, NEW id, lrlm_operation_delete(id)
  PROVE  /\ operations' = operations \ {id}
         /\ \A j \in Id : /\ object'[j].final = object[j].final
                          /\ object'[j].started = object[j].started
         /\ UNCHANGED <<callback, starting, held>>
<1>1. /\ id \in operations /\ operations' = operations \ {id}
      /\ \/ UNCHANGED object
         \/ Store(id, Release(object[id]))
      /\ UNCHANGED <<callback, starting, held>>
  BY DEF lrlm_operation_delete
<1>2. id \in Id /\ object[id] \in Operation
  BY <1>1 DEF Inv, TypeOK, Id
<1>3. CASE Store(id, Release(object[id]))
  <2>1. /\ object'[id] = Release(object[id])
        /\ \A j \in Id \ {id} : object'[j] = object[j]
    BY <1>2, <1>3, StoreFlags
  <2>2. /\ object'[id].final = object[id].final
        /\ object'[id].started = object[id].started
    BY <1>2, <2>1 DEF Release, Clear, Operation
  <2>. QED  BY <1>1, <2>1, <2>2
<1>. QED  BY <1>1, <1>3

LEMMA ReceiveFlags ==
  ASSUME Inv, NEW id \in Id, NEW chunk \in Chunk
  PROVE  LET p == Receive(object[id], id, chunk, texts[id] + 1)
         IN  /\ p \in Operation
             /\ object[id].final => p.final
             /\ p.started = object[id].started
<1>. DEFINE p == Receive(object[id], id, chunk, texts[id] + 1)
<1>1. Sound(object[id]) /\ texts[id] + 1 \in Nat
  BY DEF Inv, TypeOK, AllSound
<1>2. /\ Sound(p)
      /\ SameFlags(object[id], p)
      /\ object[id].final => p = object[id]
  BY <1>1, BoundsAssumption, ReceiveSound
<1>. QED  BY <1>2 DEF Sound, SameFlags

LEMMA RunCall ==
  ASSUME Inv, NEW t \in Thread, NEW chunk \in Chunk, CallbackRun(t, chunk)
  PROVE  /\ callback[t] \in Id
         /\ callback[t] # NoId
         /\ \A j \in Id : Lasting(j)
         /\ \A j \in Id \ {callback[t]} : object'[j] = object[j]
         /\ callback' = [callback EXCEPT ![t] = NoId]
         /\ UNCHANGED <<operations, starting, held>>
<1>. DEFINE id == callback[t]
            after == Receive(object[id], id, chunk, texts[id] + 1)
            keeps == \/ id \in operations
                     \/ \E u \in Thread \ {t} : callback[u] = id
<1>1. /\ id # NoId
      /\ Store(id, IF keeps THEN after ELSE Release(after))
      /\ callback' = [callback EXCEPT ![t] = NoId]
      /\ UNCHANGED <<operations, starting, held>>
  BY DEF CallbackRun
<1>2. id \in Id /\ object[id] \in Operation
  BY <1>1 DEF Inv, TypeOK, Id, NoId
<1>3. /\ object'[id] = IF keeps THEN after ELSE Release(after)
      /\ \A j \in Id \ {id} : object'[j] = object[j]
  BY <1>1, <1>2, StoreFlags
<1>4. Lasting(id)
  <2>. DEFINE p == Receive(object[id], id, chunk, texts[id] + 1)
  <2>1. /\ p \in Operation
        /\ object[id].final => p.final
        /\ p.started = object[id].started
    BY <1>2, ReceiveFlags
  <2>2. object'[id] = p \/ object'[id] = Release(p)
    BY <1>3
  <2>. HIDE DEF p
  <2>3. object'[id].final = p.final /\ object'[id].started = p.started
    BY <2>1, <2>2 DEF Release, Clear, Operation
  <2>. QED  BY <2>1, <2>3 DEF Lasting
<1>. QED  BY <1>1, <1>2, <1>3, <1>4 DEF Lasting

\* An operation that says it is complete is final, and so has begun.
LEMMA CompletingFinal ==
  ASSUME Inv, Ledger, NEW id \in operations, Completing(id)
  PROVE  object[id].final /\ object[id].started
<1>1. /\ id \in Id /\ Story(object[id], texts[id], read[id], outcome[id])
      /\ object[id] \in Operation
  BY DEF Inv, TypeOK, AllStories
<1>2. CASE outcome[id] = Complete
  <2>1. outcome[id] # Open
    BY <1>2 DEF Complete, Open
  <2>. QED  BY <1>1, <2>1 DEF Story, Ledger, Begun
<1>3. CASE SaysComplete(object[id])
  <2>. DEFINE q == object[id].queue
  <2>1. PICK n \in Nat : n = Len(q)
    BY <1>1 DEF Operation
  <2>2. PICK i \in 1 .. n : q[i].kind = Complete
    BY <1>3, <2>1 DEF SaysComplete
  <2>3. ~IsText(q[i])
    BY <2>2 DEF IsText, TextKind, Complete
  <2>4. /\ \A j \in 1 .. n - 1 : IsText(q[j])
        /\ n > 0 => (object[id].final <=> ~IsText(q[n]))
    BY <1>1, <2>1 DEF Story
  <2>5. i = n /\ n > 0
    BY <2>2, <2>3, <2>4
  <2>6. object[id].final
    BY <2>3, <2>4, <2>5
  <2>. QED  BY <1>1, <2>6 DEF Ledger, Begun
<1>. QED  BY <1>2, <1>3 DEF Completing

-----------------------------------------------------------------------------
(* The bridge implements EventStream.                                      *)

sealed == [id \in Id |-> object[id].final]
lossy  == [id \in Id |-> Lossy(object[id])]

\* A step that leaves the history and the flags alone is a stutter.
LEMMA FlagsStutter ==
  ASSUME UNCHANGED <<texts, read, outcome>>,
         \A id \in Id : /\ object'[id].final = object[id].final
                        /\ object'[id].cancelled = object[id].cancelled
                        /\ object'[id].overflow = object[id].overflow
  PROVE  UNCHANGED Promise!vars
BY DEF Promise!vars, Lossy

LEMMA PromiseInit == Init => Promise!Init
<1>. SUFFICES ASSUME Init PROVE Promise!Init
  OBVIOUS
<1>1. \A id \in Id : object[id].final = FALSE /\ Lossy(object[id]) = FALSE
  BY DEF Init, NewOperation, Lossy
<1>2. sealed = [id \in Id |-> FALSE]
  BY <1>1 DEF sealed
<1>3. lossy = [id \in Id |-> FALSE]
  BY <1>1 DEF lossy
<1>. QED  BY <1>2, <1>3 DEF Init, Promise!Init, sealed, lossy

\* What the runtime does to one operation is a Produce of the stream.
LEMMA ProducePromise ==
  ASSUME NEW id \in Id, NEW text \in {0, 1},
         ~object[id].final, object'[id].final \in BOOLEAN,
         texts' = [texts EXCEPT ![id] = texts[id] + text],
         UNCHANGED <<read, outcome>>,
         \A j \in Id \ {id} : object'[j] = object[j],
         object'[id].cancelled = object[id].cancelled,
         object[id].overflow => object'[id].overflow,
         object'[id].overflow => object[id].overflow \/ text = 1
  PROVE  Promise!Produce(id)
<1>. DEFINE drop == Lossy(object'[id]) /\ ~Lossy(object[id])
            last == object'[id].final
<1>1. /\ drop \in BOOLEAN /\ last \in BOOLEAN
      /\ drop => text = 1
  BY DEF Lossy
<1>2. texts' = [texts EXCEPT ![id] = @ + text]
  OBVIOUS
<1>3. lossy' = [lossy EXCEPT ![id] = @ \/ drop]
  <2>1. Lossy(object'[id]) = (Lossy(object[id]) \/ drop)
    BY DEF Lossy
  <2>. QED  BY <2>1 DEF lossy
<1>4. sealed' = [sealed EXCEPT ![id] = last]
  BY DEF sealed
<1>5. ~sealed[id]
  BY DEF sealed
<1>. HIDE DEF drop, last
<1>. QED  BY <1>1, <1>2, <1>3, <1>4, <1>5 DEF Promise!Produce, lossy, sealed

LEMMA PromiseStep == Inv /\ [Next]_vars => [Promise!Next]_(Promise!vars)
<1>. SUFFICES ASSUME Inv, [Next]_vars
              PROVE  Promise!Next \/ UNCHANGED Promise!vars
  OBVIOUS
<1>. USE DEF Inv, history
<1>1. CASE lrlm_operation_create \/ StartOk \/ lrlm_event_delete
  <2>1. UNCHANGED <<object, texts, read, outcome>>
    BY <1>1 DEF lrlm_operation_create, StartOk, lrlm_event_delete
  <2>. QED  BY <2>1, FlagsStutter
<1>2. ASSUME NEW id \in Id, StartBegin(id)
      PROVE  UNCHANGED Promise!vars
  <2>1. /\ UNCHANGED <<texts, read, outcome>>
        /\ object' = [object EXCEPT ![id] = [object[id] EXCEPT !.started = TRUE]]
    BY <1>2 DEF StartBegin, Store
  <2>2. object[id] \in Operation
    BY DEF TypeOK
  <2>3. object'[id] = [object[id] EXCEPT !.started = TRUE]
    BY <2>1 DEF TypeOK
  <2>4. /\ object'[id].final = object[id].final
        /\ object'[id].cancelled = object[id].cancelled
        /\ object'[id].overflow = object[id].overflow
    BY <2>2, <2>3 DEF Operation
  <2>5. \A j \in Id \ {id} : object'[j] = object[j]
    BY <2>1 DEF TypeOK
  <2>. QED  BY <2>1, <2>4, <2>5, FlagsStutter
<1>3. ASSUME NEW error \in ErrorSize, StartFailed(error)
      PROVE  Promise!Next \/ UNCHANGED Promise!vars
  <2>0. PICK id \in Id : id = starting
    BY <1>3 DEF StartFailed, TypeOK
  <2>. DEFINE op == Finish(object[id], id, Error, error)
  <2>1. /\ Sound(object[id]) /\ error \in Nat
        /\ Store(id, op)
        /\ UNCHANGED <<texts, read, outcome>>
    BY <1>3, <2>0, SizesAreNat DEF StartFailed, TypeOK, AllSound
  <2>2. object'[id] = op /\ \A j \in Id \ {id} : object'[j] = object[j]
    BY <2>1 DEF Store, TypeOK
  <2>3. CASE object[id].final
    <3>1. op = object[id]
      BY <2>3 DEF Finish
    <3>. QED  BY <2>1, <2>2, <3>1, FlagsStutter
  <2>4. CASE ~object[id].final
    <3>1. /\ op.final \in BOOLEAN
          /\ op.cancelled = object[id].cancelled
          /\ op.overflow = object[id].overflow
      BY <2>1, <2>4, FinishSound DEF SameFlags, Sound, Operation
    <3>2. texts' = [texts EXCEPT ![id] = texts[id] + 0]
      BY <2>1 DEF TypeOK
    <3>. HIDE DEF op
    <3>3. Promise!Produce(id)
      BY <2>1, <2>2, <2>4, <3>1, <3>2, ProducePromise
    <3>. QED  BY <3>3 DEF Promise!Next
  <2>. QED  BY <2>3, <2>4
<1>4. ASSUME NEW id \in Id, lrlm_operation_cancel(id)
      PROVE  Promise!Next
  <2>. DEFINE op == CancelledOperation(object[id], id)
  <2>1. /\ Sound(object[id])
        /\ Story(object[id], texts[id], read[id], outcome[id])
        /\ texts[id] \in Nat /\ read[id] \in Nat
        /\ ~object[id].cancelled /\ ~object[id].terminal_taken
        /\ object' = [object EXCEPT ![id] = op]
        /\ UNCHANGED <<texts, read, outcome>>
    BY <1>4 DEF lrlm_operation_cancel, Store, TypeOK, AllSound, AllStories
  <2>2. op.cancelled /\ op.final = object[id].final
    BY <2>1, CancelStory
  <2>. HIDE DEF op
  <2>3. object'[id] = op /\ \A j \in Id \ {id} : object'[j] = object[j]
    BY <2>1 DEF TypeOK
  <2>4. lossy' = [lossy EXCEPT ![id] = TRUE]
    <3>1. Lossy(object'[id]) = TRUE
      BY <2>2, <2>3 DEF Lossy
    <3>. QED  BY <2>3, <3>1 DEF lossy
  <2>5. sealed' = sealed
    BY <2>2, <2>3 DEF sealed
  <2>6. outcome[id] = Open
    BY <2>1 DEF Story
  <2>7. Promise!Cancel(id)
    BY <2>1, <2>4, <2>5, <2>6 DEF Promise!Cancel, lossy, sealed
  <2>. QED  BY <2>7 DEF Promise!Next
<1>5. ASSUME NEW id \in Id, lrlm_operation_take(id)
      PROVE  Promise!Next
  <2>. DEFINE op == TakenOperation(object[id])
              e  == Head(object[id].queue)
  <2>1. /\ Sound(object[id])
        /\ Story(object[id], texts[id], read[id], outcome[id])
        /\ texts[id] \in Nat /\ read[id] \in Nat
        /\ object[id].queue # <<>>
        /\ object' = [object EXCEPT ![id] = op]
        /\ read' = [read EXCEPT ![id] = IF IsText(e) THEN e.n ELSE @]
        /\ outcome' = [outcome EXCEPT ![id] = IF IsText(e) THEN @ ELSE e.kind]
        /\ texts' = texts
    BY <1>5 DEF lrlm_operation_take, TypeOK, AllSound, AllStories
  <2>2. /\ op.cancelled = object[id].cancelled
        /\ op.overflow = object[id].overflow
        /\ op.final = object[id].final
        /\ e \in Event
        /\ outcome[id] = Open
        /\ IsText(e) => /\ e.n = read[id] + 1 /\ read[id] < texts[id]
                        /\ ~Lossy(object[id])
        /\ ~IsText(e) =>
              /\ object[id].final
              /\ e.kind = Complete => read[id] = texts[id]
              /\ e.kind \in {Cancelled, Backpressure} <=> Lossy(object[id])
    BY <2>1, TakenStory
  <2>. HIDE DEF op, e
  <2>3. object'[id] = op /\ \A j \in Id \ {id} : object'[j] = object[j]
    BY <2>1 DEF TypeOK
  <2>4. lossy' = lossy /\ sealed' = sealed
    BY <2>2, <2>3 DEF lossy, sealed, Lossy
  <2>5. CASE IsText(e)
    <3>1. outcome' = outcome /\ read' = [read EXCEPT ![id] = @ + 1]
      BY <2>1, <2>2, <2>5 DEF TypeOK
    <3>2. ~lossy[id]
      BY <2>2, <2>5 DEF lossy
    <3>3. Promise!Deliver(id)
      BY <2>1, <2>2, <2>4, <2>5, <3>1, <3>2 DEF Promise!Deliver, lossy, sealed
    <3>. QED  BY <3>3 DEF Promise!Next
  <2>6. CASE ~IsText(e)
    <3>1. read' = read /\ outcome' = [outcome EXCEPT ![id] = e.kind]
      BY <2>1, <2>6 DEF TypeOK
    <3>2. e.kind \in TerminalKind
      BY <2>2, <2>6 DEF Event, IsText
    <3>3. sealed[id] /\ (lossy[id] <=> Lossy(object[id]))
      BY <2>2, <2>6 DEF lossy, sealed
    <3>4. e.kind = Complete => ~lossy[id]
      BY <2>2, <2>6, <3>3 DEF Complete, Cancelled, Backpressure
    <3>5. Promise!End(id, e.kind)
      BY <2>1, <2>2, <2>4, <2>6, <3>1, <3>3, <3>4
         DEF Promise!End, lossy, sealed
    <3>. QED  BY <3>2, <3>5 DEF Promise!Next, TerminalKind
  <2>. QED  BY <2>5, <2>6
<1>6. ASSUME NEW id \in Id, lrlm_operation_delete(id)
      PROVE  UNCHANGED Promise!vars
  <2>1. /\ UNCHANGED <<texts, read, outcome>>
        /\ object' \in {object, [object EXCEPT ![id] = Clear(object[id])]}
    BY <1>6 DEF lrlm_operation_delete, Store, Release
  <2>2. /\ Clear(object[id]).final = object[id].final
        /\ Clear(object[id]).cancelled = object[id].cancelled
        /\ Clear(object[id]).overflow = object[id].overflow
    BY ClearSound DEF AllSound
  <2>. QED  BY <2>1, <2>2, FlagsStutter DEF TypeOK
<1>7. ASSUME NEW t \in Thread, NEW id \in Id, CallbackFind(t, id)
      PROVE  UNCHANGED Promise!vars
  BY <1>7, FlagsStutter DEF CallbackFind
<1>8. ASSUME NEW t \in Thread, NEW chunk \in Chunk, CallbackRun(t, chunk)
      PROVE  Promise!Next \/ UNCHANGED Promise!vars
  <2>0. PICK id \in Id : id = callback[t]
    BY <1>8, RunEffect
  <2>. DEFINE text == IF Heard(object[id], chunk) THEN 1 ELSE 0
  <2>1. /\ UNCHANGED <<read, outcome>>
        /\ object' \in [Id -> Operation]
        /\ \A j \in Id \ {id} : object'[j] = object[j]
        /\ object'[id].cancelled = object[id].cancelled
        /\ object[id].overflow => object'[id].overflow
        /\ object'[id].overflow => object[id].overflow \/ text = 1
        /\ object[id].final => object'[id].final
    BY <1>8, <2>0, RunEffect
  <2>2. /\ object[id] \in Operation /\ object'[id] \in Operation
        /\ text \in {0, 1} /\ (text = 1 => ~object[id].final)
        /\ texts[id] \in Nat
    BY <2>1 DEF TypeOK, Heard
  <2>3. texts' = [texts EXCEPT ![id] = texts[id] + text]
    BY <1>8, <2>0, <2>2, RunEffect
  <2>. HIDE DEF text
  <2>4. CASE object[id].final
    <3>1. UNCHANGED <<texts, read, outcome>>
      BY <2>1, <2>2, <2>3, <2>4 DEF TypeOK
    <3>2. /\ object'[id].final = object[id].final
          /\ object'[id].overflow = object[id].overflow
      BY <2>1, <2>2, <2>4 DEF Operation
    <3>. QED  BY <2>1, <3>1, <3>2, FlagsStutter
  <2>5. CASE ~object[id].final
    <3>1. object'[id].final \in BOOLEAN
      BY <2>2 DEF Operation
    <3>2. Promise!Produce(id)
      BY <2>1, <2>2, <2>3, <2>5, <3>1, ProducePromise
    <3>. QED  BY <3>2 DEF Promise!Next
  <2>. QED  BY <2>4, <2>5
<1>9. CASE UNCHANGED vars
  BY <1>9, FlagsStutter DEF vars
<1>. QED  BY <1>1, <1>2, <1>3, <1>4, <1>5, <1>6, <1>7, <1>8, <1>9 DEF Next

\* The bridge implements EventStream: for every operation a prefix of the texts
\* in order, at most one terminal, nothing after it, and "complete" only if
\* nothing was lost.
THEOREM BridgeKeepsPromise == Spec => KeepsPromise
BY PromiseInit, PromiseStep, Invariance, PTL
   DEF Spec, KeepsPromise, Promise!Spec
=============================================================================
