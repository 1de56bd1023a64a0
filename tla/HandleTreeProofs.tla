--------------------------- MODULE HandleTreeProofs ---------------------------
(***************************************************************************)
(* Proofs about the public handles, for any number of engines, sessions    *)
(* and calls under way.                                                    *)
(***************************************************************************)
EXTENDS HandleTree, TLAPS

-----------------------------------------------------------------------------
(* The inductive invariant.                                                *)

\* What the tables say of each other.
Tables ==
    /\ \A h \in Engine : parent[h] = Client
    /\ \A h \in Session : created[h] # "no" => parent[h] \in Engine
    /\ \A h \in _closed : created[h] = "open"
    /\ \A h \in direct : _closing[h] # "no"
    /\ \A h \in native : created[h] # "no"
    /\ \A h \in native : created[h] = "refused" => Closed(h)
    /\ \A i \in DOMAIN outbox : outbox[i].do = "dispose" => outbox[i].h \in direct

\* A creation that was asked for is on its way to the backend or back, once.
Creating(h) ==
    /\ h \in Child
    /\ created[h] = "asked"

AskedOnce ==
    \A i \in DOMAIN inbox : inbox[i].do = "create" =>
        /\ Creating(inbox[i].h)
        /\ inbox[i].h \notin native
        /\ \A j \in DOMAIN inbox :
              inbox[j].do = "create" /\ inbox[j].h = inbox[i].h => j = i
        /\ \A j \in DOMAIN outbox :
              outbox[j].do = "create" => outbox[j].h # inbox[i].h

AnsweredOnce ==
    \A i \in DOMAIN outbox : outbox[i].do = "create" =>
        /\ Creating(outbox[i].h)
        /\ \A j \in DOMAIN outbox :
              outbox[j].do = "create" /\ outbox[j].h = outbox[i].h => j = i
        /\ outbox[i].ok => outbox[i].h \in native \/ Closed(outbox[i].h)
        /\ ~outbox[i].ok => outbox[i].h \notin native

\* So is a disposal, and until it reaches the backend it is the one that is
\* waited for; afterwards everything below its handle is gone.
DisposedOnce ==
    \A i \in DOMAIN inbox : inbox[i].do = "dispose" =>
        /\ inbox[i].h \in direct
        /\ _closing[inbox[i].h] = "waiting"
        /\ \A j \in DOMAIN inbox :
              inbox[j].do = "dispose" /\ inbox[j].h = inbox[i].h => j = i
        /\ \A j \in DOMAIN outbox :
              outbox[j].do = "dispose" => outbox[j].h # inbox[i].h

AskedToGo(h) == \E i \in DOMAIN inbox : inbox[i].do = "dispose" /\ inbox[i].h = h

GoneOrGoing ==
    \A h \in direct : AskedToGo(h) \/ native \intersect Disposes(h) = {}

\* A native object below a closed handle is about to go, created or not.
ClosedGoes == \A h \in native : Closed(h) => Going(h)

HandleInv ==
    /\ HandleTypeOK /\ Tables /\ AskedOnce /\ AnsweredOnce /\ DisposedOnce
    /\ GoneOrGoing /\ ClosedGoes /\ OpenHandleIsLive

-----------------------------------------------------------------------------
(* Queues: what is in one after an element was added or taken.             *)

LEMMA AppendedQueue ==
  ASSUME NEW S, NEW s \in Seq(S), NEW e \in S
  PROVE  /\ Append(s, e) \in Seq(S)
         /\ \A i \in DOMAIN s : i \in DOMAIN Append(s, e) /\ Append(s, e)[i] = s[i]
         /\ \A i \in DOMAIN Append(s, e) :
               \/ i \in DOMAIN s /\ Append(s, e)[i] = s[i]
               \/ i = Len(s) + 1 /\ Append(s, e)[i] = e
         /\ Len(s) + 1 \in DOMAIN Append(s, e) /\ Append(s, e)[Len(s) + 1] = e
         /\ Len(s) + 1 \notin DOMAIN s
OBVIOUS

LEMMA TakenQueue ==
  ASSUME NEW S, NEW s \in Seq(S), s # <<>>
  PROVE  /\ Tail(s) \in Seq(S)
         /\ 1 \in DOMAIN s /\ Head(s) = s[1] /\ Head(s) \in S
         /\ \A i \in DOMAIN Tail(s) :
               i \in Nat /\ i + 1 \in DOMAIN s /\ i + 1 # 1 /\ Tail(s)[i] = s[i + 1]
         /\ \A i \in DOMAIN s :
               i # 1 => i - 1 \in DOMAIN Tail(s) /\ Tail(s)[i - 1] = s[i]
OBVIOUS

-----------------------------------------------------------------------------
(* The tree of handles.                                                    *)

LEMMA Tree ==
  ASSUME HandleTypeOK, Tables
  PROVE  /\ Ancestors(Client) = {}
         /\ \A h \in Child : created[h] # "no" =>
               parent[h] \in Handle /\ Ancestors(h) = {parent[h]} \union Ancestors(parent[h])
         /\ \A h \in Handle : Ancestors(h) \subseteq Handle
<1>1. Ancestors(Client) = {}
  BY HandlesDiffer DEF Ancestors, Child
<1>2. \A h \in Engine : Ancestors(h) = {Client} /\ h # Client
  BY HandlesDiffer DEF Ancestors, Child
<1>3. \A h \in Session : Ancestors(h) = {parent[h], Client} /\ h # Client
  BY HandlesDiffer DEF Ancestors, Child
<1>4. ASSUME NEW h \in Child, created[h] # "no"
      PROVE  parent[h] \in Handle /\ Ancestors(h) = {parent[h]} \union Ancestors(parent[h])
  <2>1. CASE h \in Engine
    BY <2>1, <1>1, <1>2 DEF Tables, Handle
  <2>2. CASE h \in Session
    <3>1. parent[h] \in Engine
      BY <2>2, <1>4 DEF Tables
    <3>2. QED BY <3>1, <2>2, <1>2, <1>3 DEF Handle, Child
  <2>3. QED BY <2>1, <2>2 DEF Child
<1>5. \A h \in Handle : Ancestors(h) \subseteq Handle
  BY <1>1, <1>2, <1>3 DEF HandleTypeOK, Handle, Child
<1>6. QED BY <1>1, <1>4, <1>5

LEMMA AboveIsAbove ==
  ASSUME HandleTypeOK, Tables, NEW h \in Handle, created[h] # "no",
         NEW a \in Ancestors(h) \union {h}
  PROVE  Ancestors(a) \subseteq Ancestors(h) \union {h}
<1>1. CASE h = Client
  BY <1>1, Tree
<1>2. CASE h \in Engine
  BY <1>2, Tree, HandlesDiffer DEF Ancestors, Child
<1>3. CASE h \in Session
  <2>1. parent[h] \in Engine
    BY <1>3 DEF Tables
  <2>2. Ancestors(h) = {parent[h], Client} /\ Ancestors(parent[h]) = {Client}
    BY <1>3, <2>1, HandlesDiffer DEF Ancestors, Child
  <2>3. QED BY <2>2, Tree
<1>4. QED BY <1>1, <1>2, <1>3 DEF Handle, Child

LEMMA SameTree ==
  ASSUME UNCHANGED parent, NEW h \in Handle
  PROVE  Ancestors(h)' = Ancestors(h) /\ Disposes(h)' = Disposes(h)
<1>1. \A g \in Handle : Ancestors(g)' = Ancestors(g)
  BY DEF Ancestors
<1>2. QED BY <1>1 DEF Disposes

\* A handle is closed with any handle above it.
LEMMA ClosedWithParent ==
  ASSUME HandleTypeOK, Tables, NEW h \in Child, created[h] # "no"
  PROVE  /\ Closed(parent[h]) => Closed(h)
         /\ Closed(h) => h \in _closed \/ Closed(parent[h])
         /\ Going(parent[h]) => Going(h)
         /\ \A d \in Handle : h \in Disposes(d) => h = d \/ parent[h] \in Disposes(d)
BY Tree DEF Closed, Going, Disposes

-----------------------------------------------------------------------------
(* The steps.                                                              *)

LEMMA InitInv ==
  ASSUME Init
  PROVE  HandleInv
<1>1. /\ DOMAIN inbox = {} /\ DOMAIN outbox = {}
      /\ inbox \in Seq([do : What, h : Handle])
      /\ outbox \in Seq([do : What, h : Handle, ok : BOOLEAN])
  BY DEF Init
<1>2. HandleTypeOK
  BY <1>1 DEF Init, HandleTypeOK, Handle, Child
<1>3. Tables
  BY <1>1, HandlesDiffer DEF Init, Tables, Handle, Child
<1>4. AskedOnce /\ AnsweredOnce /\ DisposedOnce
  BY <1>1 DEF AskedOnce, AnsweredOnce, DisposedOnce
<1>5. GoneOrGoing /\ ClosedGoes /\ OpenHandleIsLive
  BY DEF Init, GoneOrGoing, ClosedGoes, OpenHandleIsLive, Closed, Handle
<1>6. QED BY <1>2, <1>3, <1>4, <1>5 DEF HandleInv

LEMMA StutterInv ==
  ASSUME HandleInv, UNCHANGED vars
  PROVE  HandleInv'
<1> USE DEF vars
<1>1. HandleTypeOK' /\ DisposedOnce'
  BY DEF HandleInv, HandleTypeOK, DisposedOnce
<1>2. \A h \in Handle : (Closed(h)' <=> Closed(h)) /\ (Going(h)' <=> Going(h))
  BY SameTree DEF Closed, Going
<1>3. Tables'
  BY <1>2 DEF HandleInv, HandleTypeOK, Tables
<1>4. AskedOnce'
  BY DEF HandleInv, AskedOnce, Creating
<1>5. AnsweredOnce'
  BY <1>2 DEF HandleInv, AnsweredOnce, Creating, Handle
<1>6. GoneOrGoing'
  BY SameTree DEF HandleInv, HandleTypeOK, GoneOrGoing, AskedToGo
<1>7. ClosedGoes' /\ OpenHandleIsLive'
  BY <1>2 DEF HandleInv, HandleTypeOK, ClosedGoes, OpenHandleIsLive
<1>8. QED BY <1>1, <1>3, <1>4, <1>5, <1>6, <1>7 DEF HandleInv

\* A new handle is asked for; nobody knew of it, so nothing else changes.
LEMMA CreateInv ==
  ASSUME HandleInv, NEW h \in Child, NEW p \in Handle, Create(h, p)
  PROVE  HandleInv'
<1> DEFINE e == Ask("create", h)
<1>1. /\ HandleTypeOK /\ Tables /\ AskedOnce /\ AnsweredOnce /\ DisposedOnce
      /\ GoneOrGoing /\ ClosedGoes /\ OpenHandleIsLive
  BY DEF HandleInv
<1>2. e \in [do : What, h : Handle] /\ e.do = "create" /\ e.h = h
  BY DEF Ask, What, Handle
<1>3. /\ inbox' \in Seq([do : What, h : Handle])
      /\ \A i \in DOMAIN inbox : i \in DOMAIN inbox' /\ inbox'[i] = inbox[i]
      /\ \A i \in DOMAIN inbox' :
            \/ i \in DOMAIN inbox /\ inbox'[i] = inbox[i]
            \/ i = Len(inbox) + 1 /\ inbox'[i] = e
  <2>1. inbox \in Seq([do : What, h : Handle]) /\ inbox' = Append(inbox, e)
    BY <1>1 DEF HandleTypeOK, Create
  <2> HIDE DEF e
  <2>2. QED BY <1>2, <2>1, AppendedQueue
<1>4. /\ p = Client \/ p \in Engine
      /\ h \in Engine => p = Client
      /\ h \in Session => p \in Engine
  BY HandlesDiffer DEF Create, Handle, Child
<1>5. HandleTypeOK'
  BY <1>1, <1>3, <1>4 DEF Create, HandleTypeOK, Handle
<1>6. /\ \A g \in Handle : created'[g] = IF g = h THEN "asked" ELSE created[g]
      /\ \A g \in Child : parent'[g] = IF g = h THEN p ELSE parent[g]
      /\ created[h] = "no"
      /\ UNCHANGED <<_closed, _closing, direct, outbox, native>>
  BY <1>1 DEF Create, HandleTypeOK, Handle
<1>7. h \notin _closed /\ h \notin direct /\ h \notin native
  BY <1>1, <1>6 DEF Tables, HandleTypeOK
<1>8. \A g \in Handle : g # h => Ancestors(g)' = Ancestors(g)
  BY <1>6, HandlesDiffer DEF Ancestors, Handle, Child
<1>9. \A g \in Handle : g # h => (Closed(g)' <=> Closed(g))
  BY <1>6, <1>8 DEF Closed
<1>10. \A g \in Handle : g # h /\ Going(g) => Going(g)'
  BY <1>3, <1>8 DEF Going
<1>11. Tables'
  <2>1. \A g \in Engine : parent'[g] = Client
    BY <1>1, <1>4, <1>6 DEF Tables, Child
  <2>2. \A g \in Session : created'[g] # "no" => parent'[g] \in Engine
    BY <1>1, <1>4, <1>6 DEF Tables, Child, Handle
  <2>3. \A g \in native : g \in Handle /\ g # h
    BY <1>1, <1>7 DEF HandleTypeOK
  <2>4. \A g \in _closed : g \in Handle /\ g # h
    BY <1>1, <1>7 DEF HandleTypeOK
  <2>5. QED BY <1>1, <1>6, <1>9, <2>1, <2>2, <2>3, <2>4 DEF Tables
<1>12. AskedOnce'
  <2>1. \A i \in DOMAIN inbox : inbox[i].do = "create" => inbox[i].h # h
    BY <1>1, <1>6 DEF AskedOnce, Creating
  <2>2. \A i \in DOMAIN outbox : outbox[i].do = "create" => outbox[i].h # h
    BY <1>1, <1>6 DEF AnsweredOnce, Creating
  <2>3. \A g \in Child : Creating(g) => Creating(g)'
    BY <1>6 DEF Creating, Handle
  <2>4. Creating(h)'
    BY <1>6 DEF Creating, Handle
  <2>5. QED BY <1>1, <1>2, <1>3, <1>6, <1>7, <2>1, <2>2, <2>3, <2>4 DEF AskedOnce, Creating
<1>13. AnsweredOnce'
  <2>1. \A g \in Child : Creating(g) => Creating(g)' /\ g # h
    BY <1>6 DEF Creating, Handle
  <2>2. QED BY <1>1, <1>6, <1>9, <2>1 DEF AnsweredOnce, Creating, Handle
<1>14. DisposedOnce'
  BY <1>1, <1>2, <1>3, <1>6 DEF DisposedOnce
<1>15. GoneOrGoing'
  <2>1. ASSUME NEW d \in direct
        PROVE  AskedToGo(d)' \/ (native \intersect Disposes(d) = {})'
    <3>1. native \subseteq Handle
      BY <1>1 DEF HandleTypeOK
    <3>2. AskedToGo(d) => AskedToGo(d)'
      BY <1>3 DEF AskedToGo
    <3>3. native \intersect Disposes(d) = {} => (native \intersect Disposes(d) = {})'
      BY <1>6, <1>7, <1>8, <3>1 DEF Disposes
    <3>4. QED BY <1>1, <3>2, <3>3 DEF GoneOrGoing
  <2>2. QED BY <1>6, <2>1 DEF GoneOrGoing
<1>16. ClosedGoes'
  BY <1>1, <1>6, <1>7, <1>9, <1>10 DEF ClosedGoes, HandleTypeOK
<1>17. OpenHandleIsLive'
  BY <1>1, <1>6, <1>9 DEF OpenHandleIsLive
<1>18. QED
  BY <1>5, <1>11, <1>12, <1>13, <1>14, <1>15, <1>16, <1>17 DEF HandleInv

\* A handle is disposed; it and everything below it is closed from then on.
LEMMA CloseInv ==
  ASSUME HandleInv, NEW h \in Handle, close(h)
  PROVE  HandleInv'
<1> DEFINE e == Ask("dispose", h)
           asks == Ancestors(h) \intersect _closed = {}
<1>1. /\ HandleTypeOK /\ Tables /\ AskedOnce /\ AnsweredOnce /\ DisposedOnce
      /\ GoneOrGoing /\ ClosedGoes /\ OpenHandleIsLive
  BY DEF HandleInv
<1>2. e \in [do : What, h : Handle] /\ e.do = "dispose" /\ e.h = h
  BY DEF Ask, What
<1>3. /\ created[h] = "open" /\ _closing[h] = "no"
      /\ _closed' = _closed \union {h}
      /\ UNCHANGED <<parent, created, outbox, native>>
  BY DEF close
<1>4. \/ /\ asks
         /\ inbox' = Append(inbox, e) /\ direct' = direct \union {h}
         /\ _closing' = [_closing EXCEPT ![h] = "waiting"]
      \/ /\ ~asks
         /\ inbox' = inbox /\ direct' = direct
         /\ _closing' = [_closing EXCEPT ![h] = "done"]
  BY DEF close
<1>5. /\ inbox' \in Seq([do : What, h : Handle])
      /\ \A i \in DOMAIN inbox : i \in DOMAIN inbox' /\ inbox'[i] = inbox[i]
      /\ \A i \in DOMAIN inbox' :
            \/ i \in DOMAIN inbox /\ inbox'[i] = inbox[i]
            \/ asks /\ i = Len(inbox) + 1 /\ inbox'[i] = e
      /\ asks => Len(inbox) + 1 \in DOMAIN inbox' /\ inbox'[Len(inbox) + 1] = e
  <2>1. inbox \in Seq([do : What, h : Handle])
    BY <1>1 DEF HandleTypeOK
  <2> HIDE DEF e, asks
  <2>2. CASE asks
    <3>1. inbox' = Append(inbox, e)
      BY <1>4, <2>2
    <3>2. QED BY <1>2, <2>1, <2>2, <3>1, AppendedQueue
  <2>3. CASE ~asks
    BY <1>4, <2>1, <2>3
  <2>4. QED BY <2>2, <2>3
<1>6. /\ \A g \in Handle : g # h => _closing'[g] = _closing[g]
      /\ _closing'[h] # "no" /\ (asks => _closing'[h] = "waiting")
      /\ direct' \subseteq direct \union {h} /\ direct \subseteq direct'
      /\ asks => h \in direct'
      /\ ~asks => direct' = direct
      /\ _closing' \in [Handle -> {"no", "waiting", "done"}]
  BY <1>1, <1>4 DEF HandleTypeOK
<1> HIDE DEF e, asks
<1>7. HandleTypeOK'
  BY <1>1, <1>3, <1>5, <1>6 DEF HandleTypeOK
<1>8. \A g \in Handle : Ancestors(g)' = Ancestors(g) /\ Disposes(g)' = Disposes(g)
  BY <1>3, SameTree
<1>9. \A g \in Handle : /\ Closed(g) => Closed(g)'
                        /\ Closed(g)' => Closed(g) \/ h \in Ancestors(g) \union {g}
                        /\ Going(g) => Going(g)'
  BY <1>3, <1>5, <1>8 DEF Closed, Going
<1>10. \A i \in DOMAIN outbox : outbox[i].do = "dispose" => outbox[i].h # h
  BY <1>1, <1>3 DEF Tables
<1>11. \A i \in DOMAIN inbox : inbox[i].do = "dispose" => inbox[i].h # h
  BY <1>1, <1>3 DEF DisposedOnce
<1>12. Tables'
  BY <1>1, <1>3, <1>6, <1>9 DEF Tables, HandleTypeOK
<1>13. AskedOnce'
  BY <1>1, <1>2, <1>3, <1>5 DEF AskedOnce, Creating
<1>14. AnsweredOnce'
  BY <1>1, <1>3, <1>9 DEF AnsweredOnce, Creating, Handle
<1>15. DisposedOnce'
  BY <1>1, <1>2, <1>3, <1>5, <1>6, <1>10, <1>11 DEF DisposedOnce, HandleTypeOK
<1>16. GoneOrGoing'
  <2>1. ASSUME NEW d \in direct'
        PROVE  AskedToGo(d)' \/ (native \intersect Disposes(d) = {})'
    <3>1. CASE d \in direct
      BY <1>1, <1>3, <1>5, <1>8, <3>1 DEF GoneOrGoing, AskedToGo, HandleTypeOK
    <3>2. CASE d \notin direct
      BY <1>2, <1>5, <1>6, <3>2 DEF AskedToGo
    <3>3. QED BY <3>1, <3>2
  <2>2. QED BY <2>1 DEF GoneOrGoing
<1>17. ClosedGoes'
  <2>1. ASSUME NEW g \in native, Closed(g)'
        PROVE  Going(g)'
    <3>1. g \in Handle /\ created[g] # "no"
      BY <1>1 DEF HandleTypeOK, Tables
    <3>2. CASE Closed(g)
      BY <1>1, <1>9, <3>1, <3>2 DEF ClosedGoes
    <3>3. CASE ~Closed(g)
      <4>1. h \in Ancestors(g) \union {g}
        BY <1>9, <2>1, <3>1, <3>3
      <4>2. asks
        <5>1. Ancestors(h) \subseteq Ancestors(g) \union {g}
          BY <4>1, <3>1, <1>1, AboveIsAbove
        <5>2. QED BY <5>1, <3>3 DEF Closed, asks
      <4>3. QED BY <4>1, <4>2, <1>2, <1>5, <1>8, <3>1 DEF Going
    <3>4. QED BY <3>2, <3>3
  <2>2. QED BY <1>3, <2>1 DEF ClosedGoes
<1>18. OpenHandleIsLive'
  BY <1>1, <1>3, <1>9 DEF OpenHandleIsLive
<1>19. QED
  BY <1>7, <1>12, <1>13, <1>14, <1>15, <1>16, <1>17, <1>18 DEF HandleInv

\* The backend creates the next object, or fails to.
LEMMA BackendCreatesInv ==
  ASSUME HandleInv, BackendCreates
  PROVE  HandleInv'
<1> DEFINE h == Head(inbox).h
<1>1. /\ HandleTypeOK /\ Tables /\ AskedOnce /\ AnsweredOnce /\ DisposedOnce
      /\ GoneOrGoing /\ ClosedGoes /\ OpenHandleIsLive
  BY DEF HandleInv
<1>2. PICK ok \in {TRUE, FALSE} :
        /\ ok => parent[h] \in native
        /\ native' = IF ok THEN native \union {h} ELSE native
        /\ outbox' = Append(outbox, [do |-> "create", h |-> h, ok |-> ok])
  BY DEF BackendCreates
<1> DEFINE e == [do |-> "create", h |-> h, ok |-> ok]
<1>3. /\ inbox' = Tail(inbox) /\ inbox # <<>> /\ Head(inbox).do = "create"
      /\ UNCHANGED <<parent, created, _closed, _closing, direct>>
  BY DEF BackendCreates
<1>4. /\ inbox' \in Seq([do : What, h : Handle])
      /\ 1 \in DOMAIN inbox /\ Head(inbox) = inbox[1]
      /\ Head(inbox) \in [do : What, h : Handle]
      /\ \A i \in DOMAIN inbox' :
            i \in Nat /\ i + 1 \in DOMAIN inbox /\ i + 1 # 1 /\ inbox'[i] = inbox[i + 1]
      /\ \A i \in DOMAIN inbox :
            i # 1 => i - 1 \in DOMAIN inbox' /\ inbox'[i - 1] = inbox[i]
  <2>1. inbox \in Seq([do : What, h : Handle])
    BY <1>1 DEF HandleTypeOK
  <2>2. QED BY <1>3, <2>1, TakenQueue
<1>5. h \in Handle /\ e \in [do : What, h : Handle, ok : BOOLEAN]
      /\ e.do = "create" /\ e.h = h /\ e.ok = ok
  BY <1>2, <1>4 DEF What
<1>6. /\ outbox' \in Seq([do : What, h : Handle, ok : BOOLEAN])
      /\ \A i \in DOMAIN outbox' :
            \/ i \in DOMAIN outbox /\ outbox'[i] = outbox[i]
            \/ i = Len(outbox) + 1 /\ outbox'[i] = e
  <2>1. outbox \in Seq([do : What, h : Handle, ok : BOOLEAN]) /\ outbox' = Append(outbox, e)
    BY <1>1, <1>2 DEF HandleTypeOK
  <2> HIDE DEF e
  <2>2. QED BY <1>5, <2>1, AppendedQueue
<1>7. /\ h \in Child /\ created[h] = "asked" /\ h \notin native
      /\ \A j \in DOMAIN inbox : inbox[j].do = "create" /\ inbox[j].h = h => j = 1
      /\ \A j \in DOMAIN outbox : outbox[j].do = "create" => outbox[j].h # h
  BY <1>1, <1>3, <1>4 DEF AskedOnce, Creating
<1>8. h \notin _closed /\ h \notin direct
  BY <1>1, <1>7 DEF Tables, HandleTypeOK
<1>9. e.ok = ok /\ (ok => native' = native \union {h}) /\ (~ok => native' = native)
  BY <1>2
<1> HIDE DEF h, e
<1>10. HandleTypeOK'
  BY <1>1, <1>3, <1>4, <1>5, <1>6, <1>9 DEF HandleTypeOK
<1>11. \A g \in Handle : Ancestors(g)' = Ancestors(g) /\ Disposes(g)' = Disposes(g)
  BY <1>3, SameTree
<1>12. \A g \in Handle : (Closed(g)' <=> Closed(g)) /\ (Going(g) => Going(g)')
  <2>1. inbox[1].do = "create"
    BY <1>3, <1>4
  <2>2. \A i \in DOMAIN inbox : inbox[i].do = "dispose" =>
           i - 1 \in DOMAIN inbox' /\ inbox'[i - 1] = inbox[i]
    BY <1>4, <2>1
  <2>3. \A g \in Handle : Closed(g)' <=> Closed(g)
    BY <1>3, <1>11 DEF Closed
  <2>4. \A g \in Handle : Going(g) => Going(g)'
    BY <1>11, <2>2 DEF Going
  <2>5. QED BY <2>3, <2>4
<1>13. Tables'
  <2>1. \A g \in native' : created[g] # "no" /\ (created[g] = "refused" => Closed(g))
    BY <1>1, <1>7, <1>9 DEF Tables
  <2>2. QED BY <1>1, <1>3, <1>5, <1>6, <1>10, <1>12, <2>1 DEF Tables, HandleTypeOK
<1>14. AskedOnce'
  <2>1. ASSUME NEW i \in DOMAIN inbox', inbox'[i].do = "create"
        PROVE  /\ Creating(inbox[i].h)'
               /\ inbox'[i].h \notin native'
               /\ \A j \in DOMAIN inbox' :
                     inbox'[j].do = "create" /\ inbox'[j].h = inbox'[i].h => j = i
               /\ \A j \in DOMAIN outbox' :
                     outbox'[j].do = "create" => outbox'[j].h # inbox'[i].h
    <3>1. /\ i \in Nat /\ i + 1 \in DOMAIN inbox /\ i + 1 # 1 /\ inbox'[i] = inbox[i + 1]
          /\ inbox[i + 1].do = "create"
      BY <1>4, <2>1
    <3>2. /\ Creating(inbox[i + 1].h) /\ inbox[i + 1].h \notin native
          /\ \A j \in DOMAIN inbox :
                inbox[j].do = "create" /\ inbox[j].h = inbox[i + 1].h => j = i + 1
          /\ \A j \in DOMAIN outbox :
                outbox[j].do = "create" => outbox[j].h # inbox[i + 1].h
      BY <1>1, <3>1 DEF AskedOnce
    <3>3. inbox[i + 1].h # h
      BY <1>7, <3>1
    <3>4. Creating(inbox[i].h)' /\ inbox'[i].h \notin native'
      BY <1>3, <1>9, <3>1, <3>2, <3>3 DEF Creating
    <3>5. \A j \in DOMAIN inbox' :
             inbox'[j].do = "create" /\ inbox'[j].h = inbox'[i].h => j = i
      BY <1>4, <3>1, <3>2
    <3>6. \A j \in DOMAIN outbox' :
             outbox'[j].do = "create" => outbox'[j].h # inbox'[i].h
      BY <1>5, <1>6, <3>1, <3>2, <3>3
    <3>7. QED BY <3>4, <3>5, <3>6
  <2>2. QED BY <2>1 DEF AskedOnce
<1>15. AnsweredOnce'
  <2>1. \A i \in DOMAIN outbox : outbox[i].do = "create" =>
           Creating(outbox[i].h) /\ outbox[i].h \in Handle
    BY <1>1 DEF AnsweredOnce, Creating, Handle
  <2>2. \A g \in Child : Creating(g) => Creating(g)'
    BY <1>3 DEF Creating
  <2>3. \A i \in DOMAIN outbox' : outbox'[i].do = "create" => Creating(outbox[i].h)'
    BY <1>3, <1>5, <1>6, <1>7, <2>1, <2>2 DEF Creating
  <2>4. \A i, j \in DOMAIN outbox' :
           outbox'[i].do = "create" /\ outbox'[j].do = "create"
             /\ outbox'[j].h = outbox'[i].h => j = i
    BY <1>1, <1>5, <1>6, <1>7 DEF AnsweredOnce
  <2>5. \A i \in DOMAIN outbox' : outbox'[i].do = "create" =>
           /\ outbox'[i].ok => outbox'[i].h \in native' \/ Closed(outbox[i].h)'
           /\ ~outbox'[i].ok => outbox'[i].h \notin native'
    BY <1>1, <1>5, <1>6, <1>7, <1>9, <1>12, <2>1 DEF AnsweredOnce
  <2>6. QED BY <2>3, <2>4, <2>5 DEF AnsweredOnce
<1>16. DisposedOnce'
  <2>1. ASSUME NEW i \in DOMAIN inbox', inbox'[i].do = "dispose"
        PROVE  /\ inbox'[i].h \in direct /\ _closing[inbox'[i].h] = "waiting"
               /\ \A j \in DOMAIN inbox' :
                     inbox'[j].do = "dispose" /\ inbox'[j].h = inbox'[i].h => j = i
               /\ \A j \in DOMAIN outbox' :
                     outbox'[j].do = "dispose" => outbox'[j].h # inbox'[i].h
    <3>1. /\ i \in Nat /\ i + 1 \in DOMAIN inbox /\ inbox'[i] = inbox[i + 1]
          /\ inbox[i + 1].do = "dispose"
      BY <1>4, <2>1
    <3>2. /\ inbox[i + 1].h \in direct /\ _closing[inbox[i + 1].h] = "waiting"
          /\ \A j \in DOMAIN inbox :
                inbox[j].do = "dispose" /\ inbox[j].h = inbox[i + 1].h => j = i + 1
          /\ \A j \in DOMAIN outbox :
                outbox[j].do = "dispose" => outbox[j].h # inbox[i + 1].h
      BY <1>1, <3>1 DEF DisposedOnce
    <3>3. \A j \in DOMAIN inbox' :
             inbox'[j].do = "dispose" /\ inbox'[j].h = inbox'[i].h => j = i
      <4>1. ASSUME NEW j \in DOMAIN inbox', inbox'[j].do = "dispose",
                   inbox'[j].h = inbox'[i].h
            PROVE  j \in Nat /\ j + 1 = i + 1
        BY <1>4, <3>1, <3>2, <4>1
      <4>2. QED BY <3>1, <4>1
    <3>4. \A j \in DOMAIN outbox' :
             outbox'[j].do = "dispose" => outbox'[j].h # inbox'[i].h
      BY <1>5, <1>6, <3>1, <3>2
    <3>5. QED BY <3>1, <3>2, <3>3, <3>4
  <2>2. QED BY <1>3, <2>1 DEF DisposedOnce
<1>17. GoneOrGoing'
  <2>1. ASSUME NEW d \in direct
        PROVE  AskedToGo(d)' \/ native' \intersect Disposes(d) = {}
    <3>1. AskedToGo(d) => AskedToGo(d)'
      BY <1>3, <1>4 DEF AskedToGo
    <3>2. CASE native \intersect Disposes(d) = {}
      <4>1. d \in Handle /\ d # h
        BY <1>1, <1>8 DEF HandleTypeOK
      <4>2. ok => h \notin Disposes(d)
        BY <1>1, <1>2, <1>7, <3>2, <4>1, ClosedWithParent DEF h
      <4>3. QED BY <1>9, <3>2, <4>2
    <3>3. QED BY <1>1, <3>1, <3>2 DEF GoneOrGoing
  <2>2. QED BY <1>1, <1>3, <1>11, <2>1 DEF GoneOrGoing, HandleTypeOK
<1>18. ClosedGoes'
  <2>1. ASSUME NEW g \in native', Closed(g)
        PROVE  Going(g)
    <3>1. CASE g \in native
      BY <1>1, <2>1, <3>1 DEF ClosedGoes
    <3>2. CASE g \notin native
      <4>1. ok /\ g = h
        BY <1>9, <3>2
      <4>2. parent[h] \in native
        BY <1>2, <4>1 DEF h
      <4>3. Closed(parent[h])
        BY <1>1, <1>7, <1>8, <2>1, <4>1, ClosedWithParent
      <4>4. QED BY <1>1, <1>7, <4>1, <4>2, <4>3, ClosedWithParent DEF ClosedGoes
    <3>3. QED BY <3>1, <3>2
  <2>2. native' \subseteq Handle
    BY <1>10 DEF HandleTypeOK
  <2>3. QED BY <1>12, <2>1, <2>2 DEF ClosedGoes
<1>19. OpenHandleIsLive'
  BY <1>1, <1>3, <1>9, <1>12 DEF OpenHandleIsLive
<1>20. QED
  BY <1>10, <1>13, <1>14, <1>15, <1>16, <1>17, <1>18, <1>19 DEF HandleInv

\* The backend disposes the next object with everything below it: all of it is
\* closed, and no disposal of another handle is forgotten.
LEMMA BackendDisposesInv ==
  ASSUME HandleInv, BackendDisposes
  PROVE  HandleInv'
<1> DEFINE h == Head(inbox).h
           e == [do |-> "dispose", h |-> h, ok |-> TRUE]
<1>1. /\ HandleTypeOK /\ Tables /\ AskedOnce /\ AnsweredOnce /\ DisposedOnce
      /\ GoneOrGoing /\ ClosedGoes /\ OpenHandleIsLive
  BY DEF HandleInv
<1>2. /\ inbox' = Tail(inbox) /\ inbox # <<>> /\ Head(inbox).do = "dispose"
      /\ native' = native \ Disposes(h)
      /\ outbox' = Append(outbox, e)
      /\ UNCHANGED <<parent, created, _closed, _closing, direct>>
  BY DEF BackendDisposes
<1>3. /\ inbox' \in Seq([do : What, h : Handle])
      /\ 1 \in DOMAIN inbox /\ Head(inbox) = inbox[1]
      /\ Head(inbox) \in [do : What, h : Handle]
      /\ \A i \in DOMAIN inbox' :
            i \in Nat /\ i + 1 \in DOMAIN inbox /\ i + 1 # 1 /\ inbox'[i] = inbox[i + 1]
      /\ \A i \in DOMAIN inbox :
            i # 1 => i - 1 \in DOMAIN inbox' /\ inbox'[i - 1] = inbox[i]
  <2>1. inbox \in Seq([do : What, h : Handle])
    BY <1>1 DEF HandleTypeOK
  <2>2. QED BY <1>2, <2>1, TakenQueue
<1>4. h \in Handle /\ e \in [do : What, h : Handle, ok : BOOLEAN]
      /\ e.do = "dispose" /\ e.h = h /\ inbox[1].do = "dispose" /\ inbox[1].h = h
  BY <1>2, <1>3 DEF What
<1> HIDE DEF h, e
<1>5. /\ outbox' \in Seq([do : What, h : Handle, ok : BOOLEAN])
      /\ \A i \in DOMAIN outbox' :
            \/ i \in DOMAIN outbox /\ outbox'[i] = outbox[i]
            \/ i = Len(outbox) + 1 /\ outbox'[i] = e
  <2>1. outbox \in Seq([do : What, h : Handle, ok : BOOLEAN])
    BY <1>1 DEF HandleTypeOK
  <2>2. QED BY <1>2, <1>4, <2>1, AppendedQueue
<1>6. /\ h \in direct /\ h \in _closed
      /\ \A j \in DOMAIN inbox : inbox[j].do = "dispose" /\ inbox[j].h = h => j = 1
  BY <1>1, <1>3, <1>4 DEF DisposedOnce, HandleTypeOK
<1>7. HandleTypeOK'
  BY <1>1, <1>2, <1>3, <1>5 DEF HandleTypeOK
<1>8. \A g \in Handle : /\ Ancestors(g)' = Ancestors(g) /\ Disposes(g)' = Disposes(g)
                        /\ Closed(g)' <=> Closed(g)
  <2>1. \A g \in Handle : Ancestors(g)' = Ancestors(g) /\ Disposes(g)' = Disposes(g)
    BY <1>2, SameTree
  <2>2. QED BY <1>2, <2>1 DEF Closed
<1>9. \A g \in Handle : g \in Disposes(h) <=> h \in Ancestors(g) \union {g}
  BY DEF Disposes
<1>10. \A g \in Handle : g \in Disposes(h) => Closed(g)
  BY <1>6, <1>9 DEF Closed
<1>11. Tables'
  <2>1. \A g \in native' : g \in native /\ g \in Handle
    BY <1>1, <1>2 DEF HandleTypeOK
  <2>2. \A i \in DOMAIN outbox' : outbox'[i].do = "dispose" => outbox'[i].h \in direct
    BY <1>1, <1>4, <1>5, <1>6 DEF Tables
  <2>3. \A g \in native' : created[g] = "refused" => Closed(g)'
    BY <1>1, <1>8, <2>1 DEF Tables
  <2>4. QED BY <1>1, <1>2, <2>1, <2>2, <2>3 DEF Tables
<1>12. AskedOnce'
  <2>1. ASSUME NEW i \in DOMAIN inbox', inbox'[i].do = "create"
        PROVE  /\ Creating(inbox[i].h)'
               /\ inbox'[i].h \notin native'
               /\ \A j \in DOMAIN inbox' :
                     inbox'[j].do = "create" /\ inbox'[j].h = inbox'[i].h => j = i
               /\ \A j \in DOMAIN outbox' :
                     outbox'[j].do = "create" => outbox'[j].h # inbox'[i].h
    <3>1. /\ i \in Nat /\ i + 1 \in DOMAIN inbox /\ inbox'[i] = inbox[i + 1]
          /\ inbox[i + 1].do = "create"
      BY <1>3, <2>1
    <3>2. /\ Creating(inbox[i + 1].h) /\ inbox[i + 1].h \notin native
          /\ \A j \in DOMAIN inbox :
                inbox[j].do = "create" /\ inbox[j].h = inbox[i + 1].h => j = i + 1
          /\ \A j \in DOMAIN outbox :
                outbox[j].do = "create" => outbox[j].h # inbox[i + 1].h
      BY <1>1, <3>1 DEF AskedOnce
    <3>3. Creating(inbox[i].h)' /\ inbox'[i].h \notin native'
      BY <1>2, <3>1, <3>2 DEF Creating
    <3>4. ASSUME NEW j \in DOMAIN inbox', inbox'[j].do = "create",
                 inbox'[j].h = inbox'[i].h
          PROVE  j \in Nat /\ j + 1 = i + 1
      BY <1>3, <3>1, <3>2, <3>4
    <3>5. \A j \in DOMAIN outbox' :
             outbox'[j].do = "create" => outbox'[j].h # inbox'[i].h
      BY <1>4, <1>5, <3>1, <3>2
    <3>6. QED BY <3>1, <3>3, <3>4, <3>5
  <2>2. QED BY <2>1 DEF AskedOnce
<1>13. AnsweredOnce'
  <2>1. ASSUME NEW i \in DOMAIN outbox', outbox'[i].do = "create"
        PROVE  /\ i \in DOMAIN outbox /\ outbox'[i] = outbox[i]
               /\ outbox[i].do = "create" /\ outbox[i].h \in Handle
    BY <1>1, <1>4, <1>5, <2>1 DEF AnsweredOnce, Creating, Handle
  <2>2. \A i \in DOMAIN outbox' : outbox'[i].do = "create" => Creating(outbox[i].h)'
    BY <1>1, <1>2, <2>1 DEF AnsweredOnce, Creating
  <2>3. \A i, j \in DOMAIN outbox' :
           outbox'[i].do = "create" /\ outbox'[j].do = "create"
             /\ outbox'[j].h = outbox'[i].h => j = i
    BY <1>1, <2>1 DEF AnsweredOnce
  <2>4. \A i \in DOMAIN outbox' : outbox'[i].do = "create" =>
           /\ outbox'[i].ok => outbox'[i].h \in native' \/ Closed(outbox[i].h)'
           /\ ~outbox'[i].ok => outbox'[i].h \notin native'
    BY <1>1, <1>2, <1>8, <1>10, <2>1 DEF AnsweredOnce
  <2>5. QED BY <2>2, <2>3, <2>4 DEF AnsweredOnce
<1>14. DisposedOnce'
  <2>1. ASSUME NEW i \in DOMAIN inbox', inbox'[i].do = "dispose"
        PROVE  /\ inbox'[i].h \in direct /\ _closing[inbox'[i].h] = "waiting"
               /\ \A j \in DOMAIN inbox' :
                     inbox'[j].do = "dispose" /\ inbox'[j].h = inbox'[i].h => j = i
               /\ \A j \in DOMAIN outbox' :
                     outbox'[j].do = "dispose" => outbox'[j].h # inbox'[i].h
    <3>1. /\ i \in Nat /\ i + 1 \in DOMAIN inbox /\ i + 1 # 1
          /\ inbox'[i] = inbox[i + 1] /\ inbox[i + 1].do = "dispose"
      BY <1>3, <2>1
    <3>2. /\ inbox[i + 1].h \in direct /\ _closing[inbox[i + 1].h] = "waiting"
          /\ \A j \in DOMAIN inbox :
                inbox[j].do = "dispose" /\ inbox[j].h = inbox[i + 1].h => j = i + 1
          /\ \A j \in DOMAIN outbox :
                outbox[j].do = "dispose" => outbox[j].h # inbox[i + 1].h
          /\ inbox[i + 1].h # h
      BY <1>1, <1>6, <3>1 DEF DisposedOnce
    <3>3. ASSUME NEW j \in DOMAIN inbox', inbox'[j].do = "dispose",
                 inbox'[j].h = inbox'[i].h
          PROVE  j \in Nat /\ j + 1 = i + 1
      BY <1>3, <3>1, <3>2, <3>3
    <3>4. \A j \in DOMAIN outbox' :
             outbox'[j].do = "dispose" => outbox'[j].h # inbox'[i].h
      BY <1>4, <1>5, <3>1, <3>2
    <3>5. QED BY <3>1, <3>2, <3>3, <3>4
  <2>2. QED BY <1>2, <2>1 DEF DisposedOnce
<1>15. GoneOrGoing'
  <2>1. ASSUME NEW d \in direct
        PROVE  AskedToGo(d)' \/ native' \intersect Disposes(d) = {}
    <3>1. CASE d = h
      BY <1>2, <3>1
    <3>2. ASSUME d # h, AskedToGo(d)
          PROVE  AskedToGo(d)'
      <4>1. PICK i \in DOMAIN inbox : inbox[i].do = "dispose" /\ inbox[i].h = d
        BY <3>2 DEF AskedToGo
      <4>2. i - 1 \in DOMAIN inbox' /\ inbox'[i - 1] = inbox[i]
        BY <1>3, <1>4, <3>2, <4>1
      <4>3. QED BY <4>1, <4>2 DEF AskedToGo
    <3>3. QED BY <1>1, <1>2, <3>1, <3>2 DEF GoneOrGoing
  <2>2. QED BY <1>1, <1>2, <1>8, <2>1 DEF GoneOrGoing, HandleTypeOK
<1>16. ClosedGoes'
  <2>1. ASSUME NEW g \in native', Closed(g)'
        PROVE  Going(g)'
    <3>1. g \in native /\ g \in Handle /\ h \notin Ancestors(g) \union {g}
      BY <1>1, <1>2, <1>9 DEF HandleTypeOK
    <3>2. Going(g)
      BY <1>1, <1>8, <2>1, <3>1 DEF ClosedGoes
    <3>3. PICK i \in DOMAIN inbox : /\ inbox[i].do = "dispose"
                                   /\ inbox[i].h \in Ancestors(g) \union {g}
      BY <3>2 DEF Going
    <3>4. i - 1 \in DOMAIN inbox' /\ inbox'[i - 1] = inbox[i]
      BY <1>3, <1>4, <3>1, <3>3
    <3>5. QED BY <1>8, <3>1, <3>3, <3>4 DEF Going
  <2>2. QED BY <2>1 DEF ClosedGoes
<1>17. OpenHandleIsLive'
  BY <1>1, <1>2, <1>8, <1>10 DEF OpenHandleIsLive
<1>18. QED
  BY <1>7, <1>11, <1>12, <1>13, <1>14, <1>15, <1>16, <1>17 DEF HandleInv

\* A create call returns or throws, or a dispose completes.
LEMMA AnsweredInv ==
  ASSUME HandleInv, Answered
  PROVE  HandleInv'
<1> DEFINE answer == Head(outbox)
           h == answer.h
<1>1. /\ HandleTypeOK /\ Tables /\ AskedOnce /\ AnsweredOnce /\ DisposedOnce
      /\ GoneOrGoing /\ ClosedGoes /\ OpenHandleIsLive
  BY DEF HandleInv
<1>2. /\ outbox # <<>> /\ outbox' = Tail(outbox)
      /\ UNCHANGED <<parent, _closed, direct, inbox, native>>
      /\ \/ /\ answer.do = "create"
            /\ created' = [created EXCEPT ![h] = Created(h, answer.ok)]
            /\ UNCHANGED _closing
         \/ /\ answer.do = "dispose"
            /\ _closing' = [_closing EXCEPT ![h] = "done"]
            /\ UNCHANGED created
  BY DEF Answered
<1>3. /\ outbox' \in Seq([do : What, h : Handle, ok : BOOLEAN])
      /\ 1 \in DOMAIN outbox /\ answer = outbox[1]
      /\ answer \in [do : What, h : Handle, ok : BOOLEAN]
      /\ \A i \in DOMAIN outbox' :
            i \in Nat /\ i + 1 \in DOMAIN outbox /\ i + 1 # 1 /\ outbox'[i] = outbox[i + 1]
  <2>1. outbox \in Seq([do : What, h : Handle, ok : BOOLEAN]) /\ outbox # <<>>
    BY <1>1, <1>2 DEF HandleTypeOK
  <2> HIDE DEF h
  <2>2. answer = Head(outbox) /\ outbox' = Tail(outbox)
    BY <1>2
  <2> HIDE DEF answer
  <2>3. QED BY <2>1, <2>2, TakenQueue
<1>4. h \in Handle /\ outbox[1].h = h /\ outbox[1].do = answer.do
      /\ outbox[1].ok = answer.ok /\ answer.ok \in BOOLEAN
  BY <1>3
<1> HIDE DEF answer, h
<1>5. \A g \in Handle : /\ Ancestors(g)' = Ancestors(g) /\ Disposes(g)' = Disposes(g)
                        /\ Closed(g)' <=> Closed(g)
                        /\ Going(g)' <=> Going(g)
  <2>1. \A g \in Handle : Ancestors(g)' = Ancestors(g) /\ Disposes(g)' = Disposes(g)
    BY <1>2, SameTree
  <2>2. QED BY <1>2, <2>1 DEF Closed, Going
<1>6. \A i \in DOMAIN outbox' : outbox'[i].do = "create" =>
         /\ i \in Nat /\ i + 1 \in DOMAIN outbox /\ outbox'[i] = outbox[i + 1]
         /\ Creating(outbox[i + 1].h)
         /\ \A j \in DOMAIN outbox :
               outbox[j].do = "create" /\ outbox[j].h = outbox[i + 1].h => j = i + 1
         /\ outbox[i + 1].ok => outbox[i + 1].h \in native \/ Closed(outbox[i + 1].h)
         /\ ~outbox[i + 1].ok => outbox[i + 1].h \notin native
  BY <1>1, <1>3 DEF AnsweredOnce
<1>7. \A i \in DOMAIN outbox' : outbox'[i].do = "create" =>
         \A j \in DOMAIN outbox' :
            outbox'[j].do = "create" /\ outbox'[j].h = outbox'[i].h => j = i
  <2>1. ASSUME NEW i \in DOMAIN outbox', outbox'[i].do = "create",
               NEW j \in DOMAIN outbox', outbox'[j].do = "create",
               outbox'[j].h = outbox'[i].h
        PROVE  j = i
    <3>1. i \in Nat /\ j \in Nat /\ j + 1 = i + 1
      BY <1>3, <1>6, <2>1
    <3>2. QED BY <3>1
  <2>2. QED BY <2>1
<1>8. GoneOrGoing'
  BY <1>1, <1>2, <1>5 DEF GoneOrGoing, AskedToGo, HandleTypeOK
<1>9. ClosedGoes'
  BY <1>1, <1>2, <1>5 DEF ClosedGoes, HandleTypeOK
<1>10. \A i \in DOMAIN outbox' : outbox'[i].do = "dispose" => outbox'[i].h \in direct
  BY <1>1, <1>3 DEF Tables
<1>11. CASE answer.do = "create"
  <2>1. /\ created' = [created EXCEPT ![h] = Created(h, answer.ok)]
        /\ UNCHANGED _closing
    BY <1>2, <1>11
  <2>2. /\ h \in Child /\ created[h] = "asked"
        /\ answer.ok => h \in native \/ Closed(h)
        /\ ~answer.ok => h \notin native
        /\ \A j \in DOMAIN outbox : outbox[j].do = "create" /\ outbox[j].h = h => j = 1
    BY <1>1, <1>3, <1>4, <1>11 DEF AnsweredOnce, Creating
  <2>3. h \notin _closed
    BY <1>1, <2>2 DEF Tables
  <2>4. Closed(parent[h]) <=> Closed(h)
    BY <1>1, <2>2, <2>3, ClosedWithParent
  <2>5. /\ \A g \in Handle : g # h => created'[g] = created[g]
        /\ created'[h] \in {"open", "refused"}
        /\ created'[h] = "open" => answer.ok /\ ~Closed(h)
        /\ created'[h] = "refused" => ~answer.ok \/ Closed(h)
        /\ created' \in [Handle -> {"no", "asked", "open", "refused"}]
    BY <1>1, <1>4, <2>1, <2>4 DEF Created, HandleTypeOK
  <2>6. HandleTypeOK'
    BY <1>1, <1>2, <1>3, <2>1, <2>5 DEF HandleTypeOK
  <2>7. Tables'
    <3>1. \A g \in Session : created'[g] # "no" => parent[g] \in Engine
      BY <1>1, <2>2, <2>5 DEF Tables, Handle, Child
    <3>2. \A g \in _closed : created'[g] = "open"
      BY <1>1, <2>3, <2>5 DEF Tables, HandleTypeOK
    <3>3. \A g \in native : created'[g] # "no" /\ (created'[g] = "refused" => Closed(g)')
      BY <1>1, <1>5, <2>2, <2>5 DEF Tables, HandleTypeOK
    <3>4. QED BY <1>1, <1>2, <1>10, <2>1, <3>1, <3>2, <3>3 DEF Tables
  <2>8. \A g \in Child : g # h /\ Creating(g) => Creating(g)'
    BY <2>5 DEF Creating, Handle
  <2>9. AskedOnce'
    <3>1. ASSUME NEW i \in DOMAIN inbox, inbox[i].do = "create"
          PROVE  /\ inbox[i].h \in Child /\ Creating(inbox[i].h) /\ inbox[i].h # h
                 /\ \A j \in DOMAIN outbox' :
                       outbox'[j].do = "create" => outbox'[j].h # inbox[i].h
      BY <1>1, <1>3, <1>4, <1>11, <3>1 DEF AskedOnce, Creating
    <3>2. \A i \in DOMAIN inbox : inbox[i].do = "create" => Creating(inbox[i].h)'
      BY <1>2, <2>8, <3>1 DEF Creating
    <3>3. QED BY <1>1, <1>2, <3>1, <3>2 DEF AskedOnce
  <2>10. AnsweredOnce'
    <3>1. \A i \in DOMAIN outbox' : outbox'[i].do = "create" =>
             /\ outbox'[i].h \in Child /\ outbox'[i].h # h
             /\ outbox'[i].h \in Handle
      BY <1>3, <1>6, <2>2 DEF Creating, Handle
    <3>2. \A i \in DOMAIN outbox' : outbox'[i].do = "create" => Creating(outbox[i].h)'
      BY <1>6, <2>8, <3>1 DEF Creating
    <3>3. \A i \in DOMAIN outbox' : outbox'[i].do = "create" =>
             /\ outbox'[i].ok => outbox'[i].h \in native \/ Closed(outbox[i].h)'
             /\ ~outbox'[i].ok => outbox'[i].h \notin native
      BY <1>5, <1>6, <3>1
    <3>4. QED BY <1>2, <1>7, <3>2, <3>3 DEF AnsweredOnce
  <2>11. DisposedOnce'
    BY <1>1, <1>2, <1>3, <2>1 DEF DisposedOnce
  <2>12. OpenHandleIsLive'
    BY <1>1, <1>2, <1>5, <2>2, <2>5 DEF OpenHandleIsLive
  <2>13. QED
    BY <1>8, <1>9, <2>6, <2>7, <2>9, <2>10, <2>11, <2>12 DEF HandleInv
<1>12. CASE answer.do = "dispose"
  <2>1. /\ _closing' = [_closing EXCEPT ![h] = "done"]
        /\ UNCHANGED created
    BY <1>2, <1>12
  <2>2. h \in direct /\ \A i \in DOMAIN inbox : inbox[i].do = "dispose" => inbox[i].h # h
    BY <1>1, <1>3, <1>4, <1>12 DEF Tables, DisposedOnce
  <2>3. HandleTypeOK'
    BY <1>1, <1>2, <1>3, <2>1 DEF HandleTypeOK
  <2>4. Tables'
    BY <1>1, <1>2, <1>5, <1>10, <2>1 DEF Tables, HandleTypeOK
  <2>5. AskedOnce'
    <3>1. \A i \in DOMAIN inbox : inbox[i].do = "create" =>
             \A j \in DOMAIN outbox' :
                outbox'[j].do = "create" => outbox'[j].h # inbox[i].h
      BY <1>1, <1>3 DEF AskedOnce
    <3>2. QED BY <1>1, <1>2, <2>1, <3>1 DEF AskedOnce, Creating
  <2>6. AnsweredOnce'
    <3>1. \A i \in DOMAIN outbox' : outbox'[i].do = "create" =>
             Creating(outbox[i].h)' /\ outbox'[i].h \in Handle
      BY <1>6, <2>1 DEF Creating, Handle
    <3>2. \A i \in DOMAIN outbox' : outbox'[i].do = "create" =>
             /\ outbox'[i].ok => outbox'[i].h \in native \/ Closed(outbox[i].h)'
             /\ ~outbox'[i].ok => outbox'[i].h \notin native
      BY <1>5, <1>6, <3>1
    <3>3. QED BY <1>2, <1>7, <3>1, <3>2 DEF AnsweredOnce
  <2>7. DisposedOnce'
    <3>1. ASSUME NEW i \in DOMAIN inbox, inbox[i].do = "dispose"
          PROVE  /\ _closing'[inbox[i].h] = "waiting"
                 /\ \A j \in DOMAIN outbox' :
                       outbox'[j].do = "dispose" => outbox'[j].h # inbox[i].h
      BY <1>1, <1>3, <2>1, <2>2, <3>1 DEF DisposedOnce, HandleTypeOK
    <3>2. QED BY <1>1, <1>2, <3>1 DEF DisposedOnce
  <2>8. OpenHandleIsLive'
    BY <1>1, <1>2, <1>5, <2>1 DEF OpenHandleIsLive
  <2>9. QED
    BY <1>8, <1>9, <2>3, <2>4, <2>5, <2>6, <2>7, <2>8 DEF HandleInv
<1>13. QED BY <1>2, <1>11, <1>12

-----------------------------------------------------------------------------
(* The theorems.                                                           *)

\* What the handles' tables and queues say of each other always holds.
LEMMA HandlesInvariant == Spec => []HandleInv
<1>1. HandleInv /\ [Next]_vars => HandleInv'
  <2> SUFFICES ASSUME HandleInv, [Next]_vars PROVE HandleInv'
    OBVIOUS
  <2>1. CASE UNCHANGED vars
    BY <2>1, StutterInv
  <2>2. ASSUME NEW h \in Child, NEW p \in Handle, Create(h, p)
        PROVE  HandleInv'
    BY <2>2, CreateInv
  <2>3. ASSUME NEW h \in Handle, close(h)
        PROVE  HandleInv'
    BY <2>3, CloseInv
  <2>4. CASE Answered
    BY <2>4, AnsweredInv
  <2>5. CASE BackendCreates
    BY <2>5, BackendCreatesInv
  <2>6. CASE BackendDisposes
    BY <2>6, BackendDisposesInv
  <2>7. QED BY <2>1, <2>2, <2>3, <2>4, <2>5, <2>6 DEF Next
<1>2. QED BY InitInv, <1>1, PTL DEF Spec

\* The tables of every client hold what they should, however many handles it has
\* and calls are under way (_HandleState).
THEOREM HandleTypeCorrect == Spec => []HandleTypeOK
<1>1. HandleInv => HandleTypeOK
  BY DEF HandleInv
<1>2. QED BY <1>1, HandlesInvariant, PTL

\* No native object outlives its handle unnoticed: one whose handle is closed, or
\* was withheld by the check after createSession's await, has a disposal coming.
THEOREM NothingLeaks == Spec => []NoLeak
<1>1. HandleInv => NoLeak
  <2> SUFFICES ASSUME HandleInv, NEW h \in native
               PROVE  \/ created[h] \in {"asked", "open"} /\ ~Closed(h)
                      \/ Going(h)
    BY DEF NoLeak
  <2>1. CASE Closed(h)
    BY <2>1 DEF HandleInv, ClosedGoes
  <2>2. CASE ~Closed(h)
    BY <2>2 DEF HandleInv, HandleTypeOK, Tables
  <2>3. QED BY <2>1, <2>2
<1>2. QED BY <1>1, HandlesInvariant, PTL

\* A handle that does not throw "disposed" has its native object: the checks of
\* _HandleState.closed know of every disposal before the backend does.
THEOREM OpenHandlesAreLive == Spec => []OpenHandleIsLive
<1>1. HandleInv => OpenHandleIsLive
  BY DEF HandleInv
<1>2. QED BY <1>1, HandlesInvariant, PTL

\* Handles and native objects agree for every tree of handles and every order of
\* creations, answers and disposals: no leak, and no open handle without its object.
THEOREM HandlesAreSafe == Spec => []HandlesSafe
<1>1. HandleTypeOK /\ NoLeak /\ OpenHandleIsLive => HandlesSafe
  BY DEF HandlesSafe
<1>2. QED BY <1>1, HandleTypeCorrect, NothingLeaks, OpenHandlesAreLive, PTL

\* When a dispose that asked the backend completes, the native object and all that
\* was created from it are gone, creations under way at the call included.
THEOREM DisposedMeansGone == Spec => []DisposeMeansGone
<1>1. HandleInv => DisposeMeansGone
  <2> SUFFICES ASSUME HandleInv, NEW h \in direct, _closing[h] = "done"
               PROVE  native \intersect Disposes(h) = {}
    BY DEF DisposeMeansGone
  <2>1. ~AskedToGo(h)
    BY DEF HandleInv, DisposedOnce, AskedToGo
  <2>2. QED BY <2>1 DEF HandleInv, GoneOrGoing
<1>2. QED BY <1>1, HandlesInvariant, PTL
=============================================================================
