----------------------------- MODULE RequestsProofs -----------------------------
(***************************************************************************)
(* Proofs about Requests, for any number of requests, contexts, entries    *)
(* and calls of set_actor: whose context an entry carries, and which       *)
(* actor.                                                                  *)
(***************************************************************************)
EXTENDS Requests, SequenceTheorems, TLAPS

-----------------------------------------------------------------------------
(* Types.                                                                  *)

Ids == Actors \cup {None}
Labels == Ids \cup {"system"}

Context == [actor_id : Ids, actor_label : Labels, net : Reqs, set : BOOLEAN]

Expected == [nested : BOOLEAN, own : BOOLEAN, actor : Ids]

Entry == [request : Reqs, open : BOOLEAN, net : Reqs, actor_id : Ids, actor_label : Labels,
          set : BOOLEAN, expected : Expected]

IsRequest(x) ==
  /\ DOMAIN x = {"phase", "context", "session", "opened", "settings", "actor"}
  /\ x.phase \in {"new", "open", "done"}
  /\ x.session \in Factories \cup {None}
  /\ x.opened \in Seq(Factories)
  /\ x.actor \in Ids
  /\ x.phase = "new" => x.actor = None

IsWorker(x) ==
  /\ DOMAIN x = {"at", "blocks", "base", "object", "actor", "expected", "f"}
  /\ x.at \in {"off", "runs", "setting", "reading"}
  /\ x.blocks \in Seq(Nat)
  /\ x.base \in Nat
  /\ x.at \in {"setting", "reading"} => x.actor \in Ids
  /\ x.at = "reading" => x.expected \in Expected

Types ==
  /\ contexts \in Seq(Context)
  /\ DOMAIN request = Reqs /\ \A r \in Reqs : IsRequest(request[r])
  /\ DOMAIN worker = Workers /\ \A w \in Workers : IsWorker(worker[w])
  /\ DOMAIN bound = Reqs \X Factories

-----------------------------------------------------------------------------
(* The inductive invariant.                                                *)

\* The object o was made for request r; an inner one is not the request's own.
MadeFor(o, r) == o \in DOMAIN contexts /\ contexts[o].net = r
Inner(o, r) == MadeFor(o, r) /\ o # request[r].context

Open(r) == request[r].phase = "open"

\* No context is made for a request before it arrives; the one it has, and those
\* bound to its sessions, were made for it.
Made == \A o \in DOMAIN contexts : request[contexts[o].net].phase # "new"
Current == \A r \in Reqs : Open(r) => MadeFor(request[r].context, r)
Bindings ==
  \A r \in Reqs, f \in Factories :
    bound[<<r, f>>] # None =>
      MadeFor(bound[<<r, f>>], r) /\ (Open(r) => Inner(bound[<<r, f>>], r))

\* A worker's blocks start with the context of its request; further in, they
\* are others.
Blocks ==
  \A w \in Workers :
    worker[w].at # "off" =>
      /\ Open(Request(w))
      /\ 1 <= worker[w].base /\ worker[w].base <= Len(worker[w].blocks)
      /\ worker[w].blocks[1] = request[Request(w)].context
      /\ \A i \in 2 .. Len(worker[w].blocks) : Inner(worker[w].blocks[i], Request(w))

\* The context that a worker is setting or has begun to read is its request's;
\* the integration sets no other than the request's own.
Objects ==
  \A w \in Workers :
    /\ worker[w].at \in {"setting", "reading"} => MadeFor(worker[w].object, Request(w))
    /\ worker[w].at = "setting" /\ worker[w].expected =>
         worker[w].object = request[Request(w)].context

\* Unless the core's set_actor was called on it, an inner context stays the
\* system's, also for who has begun to read it.
InnerContexts ==
  \A o \in DOMAIN contexts :
    Inner(o, contexts[o].net) /\ Open(contexts[o].net) /\ ~contexts[o].set =>
      contexts[o].actor_id = None /\ contexts[o].actor_label = "system"

InnerSettings ==
  \A w \in Workers :
    worker[w].at = "setting" /\ Inner(worker[w].object, Request(w)) =>
      contexts[worker[w].object].set

InnerReads ==
  \A w \in Workers :
    worker[w].at = "reading" /\ (worker[w].expected.nested \/ worker[w].expected.own) =>
      /\ Inner(worker[w].object, Request(w))
      /\ ~contexts[worker[w].object].set => worker[w].actor = None

Awaited == Reqs \ Parallel

\* A task that waits for its thread is not in the middle of anything.
TaskWaits ==
  \A r \in Awaited : worker[<<r, "thread">>].at # "off" => worker[<<r, "task">>].at = "runs"

\* Then the context of a request carries its actor except while that is set,
\* and nobody sets it while an entry is read from it.
Changing(r, w) ==
  Request(w) = r /\ worker[w].at = "setting" /\ worker[w].object = request[r].context

CarriesActor(r) ==
  LET c == contexts[request[r].context] IN
  /\ \A w \in Workers : Changing(r, w) => c.actor_id = worker[w].actor
  /\ (\A w \in Workers : ~Changing(r, w)) =>
       c.actor_id = request[r].actor /\ c.actor_label = request[r].actor

RequestActor == \A r \in Awaited : Open(r) => CarriesActor(r)

ReadActor ==
  \A w \in Workers :
    Request(w) \in Awaited /\ worker[w].at = "reading" /\ ~worker[w].expected.nested /\ ~worker[w].expected.own =>
      /\ worker[w].object = request[Request(w)].context
      /\ worker[w].actor = request[Request(w)].actor
      /\ worker[w].expected.actor = request[Request(w)].actor

\* The request's session is open, and so is the one that is being written to.
Tracked ==
  \A r \in Reqs :
    request[r].session # None => request[r].session \in Range(request[r].opened)

ReadsOpen ==
  \A w \in Workers :
    Request(w) \in Awaited /\ worker[w].at = "reading" =>
      worker[w].f \in Range(request[Request(w)].opened)

\* What the entries written so far say.
Faithful ==
  {e \in Entry :
     /\ e.net = e.request
     /\ (e.expected.nested \/ e.expected.own) /\ ~e.set =>
          e.actor_id = None /\ e.actor_label = "system"
     /\ e.request \in Awaited => e.open
     /\ e.request \in Awaited /\ ~e.expected.nested /\ ~e.expected.own =>
          e.actor_id = e.expected.actor /\ e.actor_label = e.expected.actor}

IInv ==
  /\ Types /\ Made /\ Current /\ Bindings /\ Blocks /\ Objects
  /\ InnerContexts /\ InnerSettings /\ InnerReads
  /\ TaskWaits /\ RequestActor /\ ReadActor /\ Tracked /\ ReadsOpen
  /\ entries \in Seq(Faithful)

-----------------------------------------------------------------------------
(* Sequences.                                                              *)

LEMMA Appended ==
  ASSUME Types, NEW c \in Context, contexts' = Append(contexts, c)
  PROVE  /\ contexts' \in Seq(Context)
         /\ Len(contexts) \in Nat
         /\ DOMAIN contexts = 1 .. Len(contexts)
         /\ DOMAIN contexts' = 1 .. Len(contexts) + 1
         /\ \A o \in DOMAIN contexts : contexts'[o] = contexts[o]
         /\ contexts'[Len(contexts) + 1] = c
  <1>1. contexts \in Seq(Context)
      BY DEF Types
  <1> HIDE DEF Context
  <1> QED
      BY <1>1, LenProperties

LEMMA ContextAt ==
  ASSUME Types, NEW o \in DOMAIN contexts
  PROVE  contexts[o] \in Context /\ contexts[o].net \in Reqs
  <1>1. contexts \in Seq(Context)
      BY DEF Types
  <1>2. contexts[o] \in Context
    <2> HIDE DEF Context
    <2> QED
        BY <1>1, ElementOfSeq, LenProperties
  <1> QED
      BY <1>2 DEF Context

LEMMA Replaced ==
  ASSUME Types, NEW o \in DOMAIN contexts, NEW c \in Context,
         contexts' = [contexts EXCEPT ![o] = c]
  PROVE  /\ contexts' \in Seq(Context)
         /\ DOMAIN contexts' = DOMAIN contexts
         /\ contexts'[o] = c
         /\ \A p \in DOMAIN contexts : p # o => contexts'[p] = contexts[p]
  <1>1. contexts \in Seq(Context)
      BY DEF Types
  <1> HIDE DEF Context
  <1>2. o \in 1 .. Len(contexts)
      BY <1>1, LenProperties
  <1> QED
      BY <1>1, <1>2, LenProperties, ExceptSeq

LEMMA FrontOf ==
  ASSUME NEW S, NEW s \in Seq(S), s # <<>>
  PROVE  /\ Front(s) \in Seq(S)
         /\ Len(Front(s)) = Len(s) - 1
         /\ \A i \in 1 .. Len(s) - 1 : Front(s)[i] = s[i]
  <1> DEFINE n == Len(s) - 1
  <1>1. Len(s) \in Nat \ {0}
      BY EmptySeq
  <1>2. n \in Int /\ n >= 0 /\ \A i \in 1 .. n : s[i] \in S
      BY <1>1, LenProperties, ElementOfSeq
  <1> HIDE DEF n
  <1>3. /\ SubSeq(s, 1, n) \in Seq(S)
        /\ Len(SubSeq(s, 1, n)) = IF 1 <= n THEN n - 1 + 1 ELSE 0
        /\ \A i \in 1 .. n - 1 + 1 : SubSeq(s, 1, n)[i] = s[1 + i - 1]
      BY <1>2, SubSeqProperties
  <1>4. Len(SubSeq(s, 1, n)) = n /\ \A i \in 1 .. n : SubSeq(s, 1, n)[i] = s[i]
      BY <1>2, <1>3
  <1> QED
      BY <1>3, <1>4 DEF Front, n

LEMMA BlockPushed ==
  ASSUME NEW s \in Seq(Nat), NEW o \in Nat
  PROVE  /\ Append(s, o) \in Seq(Nat)
         /\ Len(Append(s, o)) = Len(s) + 1
         /\ \A i \in 1 .. Len(s) : Append(s, o)[i] = s[i]
         /\ Append(s, o)[Len(s) + 1] = o
         /\ Len(s) \in Nat
  BY LenProperties

LEMMA Grown ==
  ASSUME NEW S, NEW s \in Seq(S), NEW f \in S
  PROVE  f \in Range(Append(s, f)) /\ Range(s) \subseteq Range(Append(s, f))
  <1>1. /\ Len(s) \in Nat /\ DOMAIN s = 1 .. Len(s)
        /\ DOMAIN Append(s, f) = 1 .. Len(s) + 1
        /\ \A i \in 1 .. Len(s) : Append(s, f)[i] = s[i]
        /\ Append(s, f)[Len(s) + 1] = f
      BY LenProperties, AppendProperties
  <1> QED
      BY <1>1 DEF Range

\* Only the last element can leave.
LEMMA Shrunk ==
  ASSUME NEW S, NEW s \in Seq(S), s # <<>>, NEW f \in Range(s), f # Last(s)
  PROVE  f \in Range(Front(s))
  <1>1. Len(s) \in Nat \ {0} /\ DOMAIN s = 1 .. Len(s)
      BY EmptySeq, LenProperties
  <1>2. /\ Front(s) \in Seq(S) /\ Len(Front(s)) = Len(s) - 1
        /\ \A i \in 1 .. Len(s) - 1 : Front(s)[i] = s[i]
      BY FrontOf
  <1>3. PICK i \in 1 .. Len(s) : f = s[i]
      BY <1>1 DEF Range
  <1>4. i \in 1 .. Len(s) - 1
      BY <1>1, <1>3 DEF Last
  <1>5. i \in DOMAIN Front(s)
      BY <1>1, <1>2, <1>4, LenProperties
  <1> QED
      BY <1>2, <1>3, <1>4, <1>5 DEF Range

LEMMA TwoWorkers ==
  ASSUME NEW w \in Workers
  PROVE  /\ Request(w) \in Reqs
         /\ w = <<Request(w), "task">> \/ w = <<Request(w), "thread">>
  BY DEF Workers, Request

LEMMA ActorFrame ==
  ASSUME NEW q \in Reqs, CarriesActor(q),
         request'[q].context = request[q].context, request'[q].actor = request[q].actor,
         contexts'[request[q].context] = contexts[request[q].context],
         \A w \in Workers : Changing(q, w)' <=> Changing(q, w),
         \A w \in Workers : Changing(q, w) => worker'[w].actor = worker[w].actor
  PROVE  CarriesActor(q)'
  BY DEF CarriesActor

\* A worker that runs, sets or reads is the only one of its request that does.
LEMMA OnlyOne ==
  ASSUME IInv, NEW w \in Workers, Request(w) \in Awaited,
         Runs(w) \/ worker[w].at \in {"setting", "reading"},
         NEW v \in Workers, v # w, Request(v) = Request(w)
  PROVE  worker[v].at \in {"off", "runs"}
  <1>1. IsWorker(worker[v])
      BY DEF IInv, Types
  <1>2. CASE w = <<Request(w), "task">>
      BY <1>2, TwoWorkers DEF IInv, TaskWaits, Runs, Awaited
  <1>3. CASE w = <<Request(w), "thread">>
    <2>1. worker[w].at # "off" /\ v = <<Request(w), "task">>
        BY <1>3, TwoWorkers DEF Runs
    <2> QED
        BY <1>3, <2>1, TwoWorkers DEF IInv, TaskWaits, Awaited
  <1> QED
      BY <1>2, <1>3, TwoWorkers

\* A step that opens and closes no session and begins no read.
LEMMA SessionsFrame ==
  ASSUME IInv,
         \A q \in Reqs : /\ request'[q].session = request[q].session
                        /\ request'[q].opened = request[q].opened,
         \A v \in Workers : worker'[v].at = "reading" => worker'[v] = worker[v]
  PROVE  Tracked' /\ ReadsOpen'
  BY TwoWorkers DEF IInv, Tracked, ReadsOpen, Awaited

LEMMA EntryWritten ==
  ASSUME entries \in Seq(Faithful), NEW e \in Faithful, entries' = Append(entries, e)
  PROVE  entries' \in Seq(Faithful)
  <1> HIDE DEF Faithful
  <1> QED
      OBVIOUS

-----------------------------------------------------------------------------
(* The actions.                                                            *)

LEMMA InitInductive == Init => IInv
  <1> SUFFICES ASSUME Init PROVE IInv
      OBVIOUS
  <1>1. \A S : <<>> \in Seq(S)
      BY EmptySeq
  <1>2. contexts \in Seq(Context) /\ DOMAIN contexts = {} /\ entries \in Seq(Faithful)
    <2> HIDE DEF Context, Faithful
    <2> QED
        BY <1>1 DEF Init
  <1>3. Types
      BY <1>1, <1>2 DEF Init, Types, IsRequest, IsWorker, Off, Ids
  <1>4. Made /\ Current /\ Bindings
      BY <1>2 DEF Init, Made, Current, Bindings, Open
  <1>5. Blocks /\ Objects /\ InnerContexts /\ InnerSettings /\ InnerReads /\ TaskWaits
      BY <1>2 DEF Init, Blocks, Objects, InnerContexts, InnerSettings, InnerReads, TaskWaits,
                  Off, Workers, Awaited
  <1>6. RequestActor /\ ReadActor
      BY DEF Init, RequestActor, ReadActor, Off, Open, Awaited
  <1>7. Tracked /\ ReadsOpen
      BY DEF Init, Tracked, ReadsOpen, Off
  <1> QED
      BY <1>2, <1>3, <1>4, <1>5, <1>6, <1>7 DEF IInv

LEMMA QuietKeeps ==
  ASSUME IInv, UNCHANGED vars
  PROVE  IInv'
  <1> HIDE DEF Faithful
  <1> QED
      BY DEF IInv, vars, Types, Made, Current, Bindings, Blocks, Objects, InnerContexts,
             InnerSettings, InnerReads, TaskWaits, RequestActor, CarriesActor,
             ReadActor, Tracked, ReadsOpen, Inner, MadeFor, Open, Changing

LEMMA ArriveKeeps ==
  ASSUME IInv, NEW r \in Reqs, Arrive(r)
  PROVE  IInv'
  <1> DEFINE o == Len(contexts) + 1
             t == <<r, "task">>
  <1>1. Anonymous(r) \in Context
      BY DEF Anonymous, Context, Ids, Labels
  <1>2. /\ Len(contexts) \in Nat
        /\ DOMAIN contexts = 1 .. Len(contexts)
        /\ DOMAIN contexts' = 1 .. o
        /\ \A p \in DOMAIN contexts : contexts'[p] = contexts[p]
        /\ contexts'[o] = Anonymous(r)
        /\ contexts' \in Seq(Context)
      BY <1>1, Appended DEF IInv, Arrive
  <1>3. /\ request[r].phase = "new"
        /\ request' = [request EXCEPT ![r] = [@ EXCEPT !.phase = "open", !.context = o]]
        /\ worker' = [worker EXCEPT ![t] = [Off EXCEPT !.at = "runs", !.blocks = <<o>>, !.base = 1]]
        /\ UNCHANGED <<bound, entries>>
      BY DEF Arrive, ContextOf
  <1>4. /\ DOMAIN request' = Reqs /\ IsRequest(request'[r])
        /\ request'[r].phase = "open" /\ request'[r].context = o
        /\ request'[r].actor = request[r].actor
        /\ request'[r].session = request[r].session /\ request'[r].opened = request[r].opened
        /\ \A q \in Reqs : q # r => request'[q] = request[q]
      BY <1>3 DEF IInv, Types, IsRequest
  <1>5. /\ DOMAIN worker' = Workers /\ IsWorker(worker'[t]) /\ t \in Workers
        /\ worker'[t].at = "runs" /\ worker'[t].blocks = <<o>> /\ worker'[t].base = 1
        /\ \A v \in Workers : v # t => worker'[v] = worker[v]
      BY <1>2, <1>3 DEF IInv, Types, IsWorker, Off, Workers
  <1>6. o \notin DOMAIN contexts /\ o \in DOMAIN contexts'
        /\ \A p \in DOMAIN contexts' : p = o \/ p \in DOMAIN contexts
      BY <1>2
  <1>7. Len(<<o>>) = 1 /\ <<o>>[1] = o
      OBVIOUS
  <1> HIDE DEF o, t
  <1>8. Types'
      BY <1>2, <1>3, <1>4, <1>5 DEF IInv, Types
  <1>9. \A p \in DOMAIN contexts : contexts[p].net \in Reqs \ {r}
      BY <1>3, ContextAt DEF IInv, Made
  <1>10. worker[t].at = "off" /\ worker[<<r, "thread">>].at = "off"
      BY <1>3, <1>5 DEF IInv, Blocks, Open, Request, Workers, t
  <1>11. Made'
      BY <1>2, <1>4, <1>6, <1>9 DEF IInv, Made, Anonymous
  <1>12. Current'
      BY <1>2, <1>4, <1>6, <1>9 DEF IInv, Current, Open, MadeFor, Anonymous
  <1>13. Bindings'
    <2> SUFFICES ASSUME NEW q \in Reqs, NEW f \in Factories, bound[<<q, f>>] # None
                 PROVE  (MadeFor(bound[<<q, f>>], q) /\ (Open(q) => Inner(bound[<<q, f>>], q)))'
        BY <1>3 DEF Bindings
    <2>1. MadeFor(bound[<<q, f>>], q) /\ (Open(q) => Inner(bound[<<q, f>>], q))
        BY DEF IInv, Bindings
    <2> QED
        BY <2>1, <1>2, <1>3, <1>4, <1>6, <1>9 DEF Inner, MadeFor, Open
  <1>14. Blocks'
      BY <1>2, <1>4, <1>5, <1>6, <1>7, <1>9, <1>3
      DEF IInv, Blocks, Open, Inner, MadeFor, Request, t, Workers
  <1>15. Objects'
      BY <1>2, <1>4, <1>5, <1>6, <1>9 DEF IInv, Objects, MadeFor
  <1>16. InnerContexts'
      BY <1>2, <1>4, <1>6, <1>9 DEF IInv, InnerContexts, Open, Inner, MadeFor, Anonymous
  <1>17. InnerSettings'
    <2>1. \A v \in Workers : worker'[v].at = "setting" =>
            /\ worker'[v] = worker[v]
            /\ worker[v].object \in DOMAIN contexts
            /\ contexts[worker[v].object].net = Request(v) /\ Request(v) \in Reqs \ {r}
        BY <1>5, <1>9 DEF IInv, Objects, MadeFor
    <2>2. \A v \in Workers : worker'[v].at = "setting" =>
            (Inner(worker[v].object, Request(v))' => Inner(worker[v].object, Request(v)))
        BY <2>1, <1>2, <1>4 DEF Inner, MadeFor
    <2> QED
        BY <2>1, <2>2, <1>2 DEF IInv, InnerSettings
  <1>18. InnerReads'
      BY <1>2, <1>4, <1>5, <1>6, <1>9 DEF IInv, InnerReads, Objects, Inner, MadeFor
  <1>19. TaskWaits'
      BY <1>5, <1>10 DEF IInv, TaskWaits, Workers, Awaited, t
  <1>20. RequestActor'
    <2> SUFFICES ASSUME NEW q \in Reqs, q \in Awaited, Open(q)' PROVE CarriesActor(q)'
        BY DEF RequestActor, Awaited
    <2>1. CASE q = r
      <3>1. \A w \in Workers : ~Changing(r, w)'
          BY <1>4, <1>5, <1>6 DEF Changing, IInv, Objects, MadeFor
      <3>2. request'[r].actor = None
          BY <1>3, <1>4 DEF IInv, Types, IsRequest
      <3> QED
          BY <2>1, <3>1, <3>2, <1>2, <1>4 DEF CarriesActor, Anonymous
    <2>2. CASE q # r
      <3>1. Open(q) /\ request'[q] = request[q]
          BY <2>2, <1>4 DEF Open
      <3>2. \A w \in Workers : Request(w) = q => worker'[w] = worker[w]
          BY <2>2, <1>5 DEF Request, t
      <3>3. contexts'[request[q].context] = contexts[request[q].context]
          BY <3>1, <1>2 DEF IInv, Current, MadeFor
      <3> QED
          BY <3>1, <3>2, <3>3, ActorFrame DEF IInv, RequestActor, Changing
    <2> QED
        BY <2>1, <2>2
  <1>21. ReadActor'
    <2>1. \A v \in Workers : worker'[v].at = "reading" => Request(v) # r /\ worker'[v] = worker[v]
        BY <1>5, <1>10, TwoWorkers DEF t
    <2>2. \A v \in Workers : Request(v) # r => request'[Request(v)] = request[Request(v)]
        BY <1>4, TwoWorkers
    <2> QED
        BY <2>1, <2>2 DEF IInv, ReadActor, Awaited
  <1>22. Tracked' /\ ReadsOpen'
      BY <1>4, <1>5, SessionsFrame
  <1> QED
      BY <1>3, <1>8, <1>11, <1>12, <1>13, <1>14, <1>15, <1>16, <1>17, <1>18, <1>19, <1>20, <1>21, <1>22 DEF IInv

LEMMA LeaveKeeps ==
  ASSUME IInv, NEW r \in Reqs, Leave(r)
  PROVE  IInv'
  <1> DEFINE t == <<r, "task">>
  <1>1. /\ request' = [request EXCEPT ![r] = [@ EXCEPT !.phase = "done", !.context = None]]
        /\ worker' = [worker EXCEPT ![t] = Off]
        /\ UNCHANGED <<contexts, bound, entries>>
        /\ worker[<<r, "thread">>].at = "off"
      BY DEF Leave
  <1>2. /\ DOMAIN request' = Reqs /\ IsRequest(request'[r])
        /\ request'[r].phase = "done"
        /\ request'[r].context = None
        /\ request'[r].session = request[r].session /\ request'[r].opened = request[r].opened
        /\ \A q \in Reqs : q # r => request'[q] = request[q]
      BY <1>1 DEF IInv, Types, IsRequest
  <1>3. /\ DOMAIN worker' = Workers /\ IsWorker(worker'[t]) /\ t \in Workers
        /\ worker'[t].at = "off"
        /\ \A v \in Workers : v # t => worker'[v] = worker[v]
    <2>1. <<>> \in Seq(Nat)
        BY EmptySeq
    <2> QED
        BY <1>1, <2>1 DEF IInv, Types, IsWorker, Off, Workers
  <1>4. \A v \in Workers : worker'[v].at # "off" => Request(v) # r /\ worker'[v] = worker[v]
      BY <1>1, <1>3, TwoWorkers
  <1> HIDE DEF t
  <1>5. Types' /\ Made'
      BY <1>1, <1>2, <1>3 DEF IInv, Types, Made
  <1>6. Current'
      BY <1>1, <1>2 DEF IInv, Current, Open, MadeFor
  <1>7. Bindings'
      BY <1>1, <1>2 DEF IInv, Bindings, Open, Inner, MadeFor
  <1>8. Blocks' /\ Objects'
      BY <1>1, <1>2, <1>4, TwoWorkers DEF IInv, Blocks, Objects, Open, Inner, MadeFor
  <1>9. InnerContexts'
      BY <1>1, <1>2, ContextAt DEF IInv, InnerContexts, Open, Inner, MadeFor
  <1>10. InnerSettings' /\ InnerReads'
      BY <1>1, <1>2, <1>4, TwoWorkers DEF IInv, InnerSettings, InnerReads, Inner, MadeFor
  <1>11. TaskWaits' /\ ReadActor'
    <2>1. TaskWaits'
        BY <1>3, <1>4 DEF IInv, TaskWaits, Workers, Request, Awaited, t
    <2>2. ReadActor'
        BY <1>2, <1>4, TwoWorkers DEF IInv, ReadActor
    <2> QED
        BY <2>1, <2>2
  <1>12. RequestActor'
    <2> SUFFICES ASSUME NEW q \in Reqs, q \in Awaited, Open(q)' PROVE CarriesActor(q)'
        BY DEF RequestActor, Awaited
    <2>1. q # r /\ Open(q) /\ request'[q] = request[q]
        BY <1>2 DEF Open
    <2>2. \A w \in Workers : Request(w) = q => worker'[w] = worker[w]
        BY <2>1, <1>3 DEF Request, t
    <2> QED
        BY <1>1, <2>1, <2>2, ActorFrame DEF IInv, RequestActor, Changing
  <1>13. Tracked' /\ ReadsOpen'
      BY <1>2, <1>3, SessionsFrame
  <1> QED
      BY <1>1, <1>5, <1>6, <1>7, <1>8, <1>9, <1>10, <1>11, <1>12, <1>13 DEF IInv

\* A step of one worker that is setting or reading nothing, before or after,
\* and may make a context for a block or a session.
LEMMA MovesKeep ==
  ASSUME IInv, NEW w \in Workers, Open(Request(w)),
         contexts' = contexts \/ contexts' = Append(contexts, System(Request(w))),
         DOMAIN worker' = Workers, IsWorker(worker'[w]),
         \A v \in Workers : v # w => worker'[v] = worker[v],
         worker[w].at \in {"off", "runs"}, worker'[w].at \in {"off", "runs"},
         worker'[w].at # "off" =>
           /\ 1 <= worker'[w].base /\ worker'[w].base <= Len(worker'[w].blocks)
           /\ worker'[w].blocks[1] = request[Request(w)].context
           /\ \A i \in 2 .. Len(worker'[w].blocks) : Inner(worker[w].blocks[i], Request(w))',
         DOMAIN bound' = Reqs \X Factories, Bindings',
         UNCHANGED <<request, entries>>,
         TaskWaits'
  PROVE  IInv'
  <1> DEFINE r == Request(w)
             n == Len(contexts) + 1
  <1>1. r \in Reqs
      BY TwoWorkers
  <1>2. System(r) \in Context
      BY <1>1 DEF System, Context, Ids, Labels
  <1>3. /\ contexts' \in Seq(Context)
        /\ \A o \in DOMAIN contexts : o \in DOMAIN contexts' /\ contexts'[o] = contexts[o]
        /\ \A o \in DOMAIN contexts' \ DOMAIN contexts : contexts'[o] = System(r)
    <2>1. CASE contexts' = contexts
        BY <2>1 DEF IInv, Types
    <2>2. CASE contexts' = Append(contexts, System(r))
        BY <2>2, <1>2, Appended DEF IInv
    <2> QED
        BY <2>1, <2>2
  <1> HIDE DEF r, n
  <1>4. Types'
      BY <1>3 DEF IInv, Types
  <1>5. Made' /\ Current'
      BY <1>1, <1>3 DEF IInv, Made, Current, MadeFor, Open, System, r
  <1>6. Blocks'
    <2> SUFFICES ASSUME NEW v \in Workers, worker'[v].at # "off"
                 PROVE  /\ Open(Request(v))'
                        /\ 1 <= worker'[v].base /\ worker'[v].base <= Len(worker'[v].blocks)
                        /\ worker'[v].blocks[1] = request'[Request(v)].context
                        /\ \A i \in 2 .. Len(worker'[v].blocks) :
                             Inner(worker[v].blocks[i], Request(v))'
        BY DEF Blocks
    <2>1. CASE v = w
        BY <2>1 DEF Open
    <2>2. CASE v # w
        BY <2>2, <1>3 DEF IInv, Blocks, Open, Inner, MadeFor
    <2> QED
        BY <2>1, <2>2
  <1>7. Objects'
      BY <1>3 DEF IInv, Objects, MadeFor
  <1>8. InnerContexts'
      BY <1>3 DEF IInv, InnerContexts, Open, Inner, MadeFor, System
  <1>9. InnerSettings'
      BY <1>3 DEF IInv, InnerSettings, Objects, Inner, MadeFor
  <1>10. InnerReads'
      BY <1>3 DEF IInv, InnerReads, Objects, Inner, MadeFor
  <1>11. ReadActor'
      BY DEF IInv, ReadActor
  <1>12. RequestActor'
    <2> SUFFICES ASSUME NEW q \in Reqs, q \in Awaited, Open(q)' PROVE CarriesActor(q)'
        BY DEF RequestActor, Awaited
    <2>1. Open(q) /\ contexts'[request[q].context] = contexts[request[q].context]
        BY <1>3 DEF IInv, Current, MadeFor, Open
    <2>2. \A v \in Workers : Changing(q, v)' <=> Changing(q, v)
        BY DEF Changing
    <2>3. \A v \in Workers : Changing(q, v) => worker'[v] = worker[v]
        BY DEF Changing
    <2> QED
        BY <2>1, <2>2, <2>3, ActorFrame DEF IInv, RequestActor
  <1>13. Tracked' /\ ReadsOpen'
      BY SessionsFrame
  <1> QED
      BY <1>4, <1>5, <1>6, <1>7, <1>8, <1>9, <1>10, <1>11, <1>12, <1>13 DEF IInv

LEMMA ToThreadKeeps ==
  ASSUME IInv, NEW r \in Reqs, ToThread(r)
  PROVE  IInv'
  <1> DEFINE t == <<r, "task">>
             w == <<r, "thread">>
             x == [Off EXCEPT !.at = "runs", !.blocks = worker[t].blocks,
                              !.base = Len(worker[t].blocks)]
  <1>1. t \in Workers /\ w \in Workers /\ Request(t) = r /\ Request(w) = r /\ t # w
      BY DEF Workers, Request
  <1>2. worker[t].at = "runs" /\ worker[w].at = "off"
      BY DEF ToThread, Runs
  <1>3. worker' = [worker EXCEPT ![w] = x] /\ UNCHANGED <<contexts, request, bound, entries>>
      BY DEF ToThread
  <1>4. worker[t].blocks \in Seq(Nat) /\ Len(worker[t].blocks) \in Nat
      BY <1>1, LenProperties DEF IInv, Types, IsWorker
  <1>5. /\ IsWorker(x) /\ x.at = "runs" /\ x.blocks = worker[t].blocks
        /\ x.base = Len(worker[t].blocks)
      BY <1>4 DEF IsWorker, Off
  <1> HIDE DEF x, w, t
  <1>6. worker'[w] = x /\ DOMAIN worker' = Workers /\ \A v \in Workers : v # w => worker'[v] = worker[v]
      BY <1>1, <1>3 DEF IInv, Types
  <1>7. /\ Open(r) /\ 1 <= Len(worker[t].blocks) /\ worker[t].blocks[1] = request[r].context
        /\ \A i \in 2 .. Len(worker[t].blocks) : Inner(worker[t].blocks[i], r)
    <2>1. worker[t].base \in Nat
        BY <1>1 DEF IInv, Types, IsWorker
    <2> QED
        BY <1>1, <1>2, <1>4, <2>1 DEF IInv, Blocks
  <1>8. DOMAIN bound' = Reqs \X Factories /\ Bindings'
      BY <1>3 DEF IInv, Types, Bindings, Inner, MadeFor, Open
  <1>9. TaskWaits'
      BY <1>1, <1>2, <1>6 DEF IInv, TaskWaits, Workers, Awaited, w, t
  <1>10. /\ 1 <= worker'[w].base /\ worker'[w].base <= Len(worker'[w].blocks)
         /\ worker'[w].blocks[1] = request[r].context
         /\ worker'[w].blocks = worker[t].blocks
      BY <1>4, <1>5, <1>6, <1>7
  <1>11. \A i \in 2 .. Len(worker'[w].blocks) : Inner(worker[w].blocks[i], r)'
      BY <1>3, <1>7, <1>10 DEF Inner, MadeFor
  <1> QED
      BY <1>1, <1>2, <1>3, <1>5, <1>6, <1>7, <1>8, <1>9, <1>10, <1>11, MovesKeep

LEMMA ThreadEndsKeeps ==
  ASSUME IInv, NEW r \in Reqs, ThreadEnds(r)
  PROVE  IInv'
  <1> DEFINE w == <<r, "thread">>
  <1>1. w \in Workers /\ Request(w) = r
      BY DEF Workers, Request
  <1>2. worker[w].at = "runs"
      BY DEF ThreadEnds, Runs
  <1>3. worker' = [worker EXCEPT ![w] = Off] /\ UNCHANGED <<contexts, request, bound, entries>>
      BY DEF ThreadEnds
  <1>4. IsWorker(Off) /\ Off.at = "off"
      BY EmptySeq DEF IsWorker, Off
  <1> HIDE DEF w
  <1>5. worker'[w] = Off /\ DOMAIN worker' = Workers /\ \A v \in Workers : v # w => worker'[v] = worker[v]
      BY <1>1, <1>3 DEF IInv, Types
  <1>6. Open(r)
      BY <1>1, <1>2 DEF IInv, Blocks
  <1>7. DOMAIN bound' = Reqs \X Factories /\ Bindings'
      BY <1>3 DEF IInv, Types, Bindings, Inner, MadeFor, Open
  <1>8. TaskWaits'
      BY <1>1, <1>2, <1>4, <1>5 DEF IInv, TaskWaits, Workers, Awaited, w
  <1> QED
      BY <1>1, <1>2, <1>3, <1>4, <1>5, <1>6, <1>7, <1>8, MovesKeep

LEMMA EnterKeeps ==
  ASSUME IInv, NEW w \in Workers, Enter(w)
  PROVE  IInv'
  <1> DEFINE r == Request(w)
             o == Len(contexts) + 1
             s == worker[w].blocks
             x == [worker[w] EXCEPT !.blocks = Append(s, o)]
  <1>1. /\ worker[w].at = "runs" /\ UNCHANGED <<request, bound, entries>>
        /\ contexts' = Append(contexts, System(r))
        /\ worker' = [worker EXCEPT ![w] = x]
      BY DEF Enter, Runs
  <1>2. r \in Reqs /\ System(r) \in Context
      BY TwoWorkers DEF System, Context, Ids, Labels
  <1>3. /\ Len(contexts) \in Nat
        /\ DOMAIN contexts = 1 .. Len(contexts)
        /\ DOMAIN contexts' = 1 .. o
        /\ \A p \in DOMAIN contexts : contexts'[p] = contexts[p]
        /\ contexts'[o] = System(r)
      BY <1>1, <1>2, Appended DEF IInv
  <1>4. IsWorker(worker[w]) /\ s \in Seq(Nat) /\ o \in Nat /\ worker[w].base \in Nat
      BY <1>3 DEF IInv, Types, IsWorker
  <1>5. /\ Append(s, o) \in Seq(Nat)
        /\ Len(Append(s, o)) = Len(s) + 1
        /\ \A i \in 1 .. Len(s) : Append(s, o)[i] = s[i]
        /\ Append(s, o)[Len(s) + 1] = o
        /\ Len(s) \in Nat
      BY <1>4, BlockPushed
  <1>6. IsWorker(x) /\ x.at = "runs" /\ x.blocks = Append(s, o) /\ x.base = worker[w].base
      BY <1>1, <1>4, <1>5 DEF IsWorker
  <1> HIDE DEF x, o, s, r
  <1>7. worker'[w] = x /\ DOMAIN worker' = Workers /\ \A v \in Workers : v # w => worker'[v] = worker[v]
      BY <1>1 DEF IInv, Types
  <1>8. /\ Open(r) /\ 1 <= worker[w].base /\ worker[w].base <= Len(s)
        /\ s[1] = request[r].context
        /\ \A i \in 2 .. Len(s) : Inner(s[i], r)
      BY <1>1 DEF IInv, Blocks, r, s
  <1>9. request[r].context \in DOMAIN contexts
      BY <1>2, <1>8 DEF IInv, Current, MadeFor
  <1>10. /\ 1 <= worker'[w].base /\ worker'[w].base <= Len(worker'[w].blocks)
         /\ worker'[w].blocks[1] = request[r].context
      BY <1>4, <1>5, <1>6, <1>7, <1>8
  <1>11. \A i \in 2 .. Len(worker[w].blocks)' : Inner(worker[w].blocks[i], r)'
    <2> SUFFICES ASSUME NEW i \in 2 .. Len(s) + 1
                 PROVE  Inner(worker[w].blocks[i], r)'
        BY <1>5, <1>6, <1>7
    <2>1. CASE i \in 2 .. Len(s)
      <3>1. worker'[w].blocks[i] = s[i]
        <4>1. i \in 1 .. Len(s)
            BY <2>1, <1>5
        <4>2. Append(s, o)[i] = s[i]
            BY <4>1, <1>5
        <4> QED
            BY <4>2, <1>6, <1>7
      <3>2. s[i] \in DOMAIN contexts /\ contexts[s[i]].net = r /\ s[i] # request[r].context
          BY <2>1, <1>8 DEF Inner, MadeFor
      <3>3. s[i] \in DOMAIN contexts' /\ contexts'[s[i]] = contexts[s[i]]
          BY <3>2, <1>3 DEF o
      <3> QED
          BY <3>1, <3>2, <3>3, <1>1 DEF Inner, MadeFor
    <2>2. CASE i = Len(s) + 1
      <3>1. worker'[w].blocks[i] = o
          BY <2>2, <1>5, <1>6, <1>7
      <3>2. o \in DOMAIN contexts' /\ contexts'[o].net = r /\ o # request[r].context
          BY <1>3, <1>9 DEF System, o
      <3> QED
          BY <3>1, <3>2, <1>1 DEF Inner, MadeFor
    <2> QED
        BY <2>1, <2>2, <1>5
  <1>12. DOMAIN bound' = Reqs \X Factories /\ Bindings'
    <2>1. \A p \in DOMAIN contexts : p \in DOMAIN contexts' /\ contexts'[p] = contexts[p]
        BY <1>3 DEF o
    <2> QED
        BY <2>1, <1>1 DEF IInv, Types, Bindings, Inner, MadeFor, Open
  <1>13. TaskWaits'
      BY <1>1, <1>6, <1>7 DEF IInv, TaskWaits, Workers, Enter, Runs, Request
  <1> QED
      BY <1>1, <1>6, <1>7, <1>8, <1>10, <1>11, <1>12, <1>13, MovesKeep DEF r

LEMMA ExitKeeps ==
  ASSUME IInv, NEW w \in Workers, Exit(w)
  PROVE  IInv'
  <1> DEFINE r == Request(w)
             s == worker[w].blocks
             x == [worker[w] EXCEPT !.blocks = Front(s)]
  <1>1. /\ worker[w].at = "runs" /\ UNCHANGED <<contexts, request, bound, entries>>
        /\ worker' = [worker EXCEPT ![w] = x]
        /\ Len(s) > worker[w].base
      BY DEF Exit, Runs, Restored
  <1>2. IsWorker(worker[w]) /\ s \in Seq(Nat) /\ worker[w].base \in Nat
      BY DEF IInv, Types, IsWorker
  <1>3. /\ Open(r) /\ 1 <= worker[w].base
        /\ s[1] = request[r].context
        /\ \A i \in 2 .. Len(s) : Inner(s[i], r)
      BY <1>1 DEF IInv, Blocks
  <1>3a. Len(s) \in Nat
      BY <1>2, LenProperties
  <1>3b. Len(s) > 1
      BY <1>1, <1>2, <1>3, <1>3a
  <1>4. /\ Front(s) \in Seq(Nat)
        /\ Len(Front(s)) = Len(s) - 1
        /\ \A i \in 1 .. Len(s) - 1 : Front(s)[i] = s[i]
    <2>1. s # <<>>
        BY <1>3a, <1>3b
    <2> QED
        BY <1>2, <2>1, FrontOf
  <1>5. IsWorker(x) /\ x.at = "runs" /\ x.blocks = Front(s) /\ x.base = worker[w].base
      BY <1>1, <1>2, <1>4 DEF IsWorker
  <1> HIDE DEF x, s, r
  <1>6. worker'[w] = x /\ DOMAIN worker' = Workers /\ \A v \in Workers : v # w => worker'[v] = worker[v]
      BY <1>1 DEF IInv, Types
  <1>7. /\ 1 <= worker'[w].base /\ worker'[w].base <= Len(worker'[w].blocks)
        /\ worker'[w].blocks[1] = request[r].context
    <2> DEFINE b == worker[w].base
               k == Len(s)
    <2>1. b \in Nat /\ k \in Nat /\ 1 <= b /\ k > b
        BY <1>1, <1>2, <1>3, <1>3a
    <2>2. worker'[w].base = b /\ Len(worker'[w].blocks) = k - 1
        BY <1>4, <1>5, <1>6
    <2> HIDE DEF b, k
    <2>3. 1 <= b /\ b <= k - 1 /\ 1 \in 1 .. k - 1
        BY <2>1
    <2>4. worker'[w].blocks[1] = s[1]
        BY <2>3, <1>4, <1>5, <1>6 DEF k
    <2> QED
        BY <2>2, <2>3, <2>4, <1>3
  <1>8. \A i \in 2 .. Len(worker[w].blocks)' : Inner(worker[w].blocks[i], r)'
    <2> SUFFICES ASSUME NEW i \in 2 .. Len(s) - 1
                 PROVE  Inner(worker[w].blocks[i], r)'
        BY <1>4, <1>5, <1>6
    <2>1. worker'[w].blocks[i] = s[i]
        BY <1>3a, <1>4, <1>5, <1>6
    <2>2. Inner(s[i], r)
        BY <1>3, <1>3a
    <2> QED
        BY <2>1, <2>2, <1>1 DEF Inner, MadeFor
  <1>9. DOMAIN bound' = Reqs \X Factories /\ Bindings'
      BY <1>1 DEF IInv, Types, Bindings, Inner, MadeFor, Open
  <1>10. TaskWaits'
      BY <1>1, <1>5, <1>6 DEF IInv, TaskWaits, Workers, Exit, Runs, Request
  <1> QED
      BY <1>1, <1>3, <1>5, <1>6, <1>7, <1>8, <1>9, <1>10, MovesKeep DEF r

LEMMA BindKeeps ==
  ASSUME IInv, NEW w \in Workers, NEW f \in Factories, Bind(w, f)
  PROVE  IInv'
  <1> DEFINE r == Request(w)
             o == Len(contexts) + 1
  <1>1. /\ worker[w].at = "runs" /\ UNCHANGED <<request, worker, entries>>
        /\ contexts' = Append(contexts, System(r))
        /\ bound' = [bound EXCEPT ![<<r, f>>] = o]
      BY DEF Bind, Runs
  <1>2. r \in Reqs /\ System(r) \in Context
      BY TwoWorkers DEF System, Context, Ids, Labels
  <1>3. /\ DOMAIN contexts = 1 .. Len(contexts) /\ Len(contexts) \in Nat
        /\ DOMAIN contexts' = 1 .. o
        /\ \A p \in DOMAIN contexts : contexts'[p] = contexts[p]
        /\ contexts'[o] = System(r)
      BY <1>1, <1>2, Appended DEF IInv
  <1> HIDE DEF r
  <1>4. /\ Open(r) /\ 1 <= worker[w].base /\ worker[w].base <= Len(worker[w].blocks)
        /\ worker[w].blocks[1] = request[r].context
        /\ \A i \in 2 .. Len(worker[w].blocks) : Inner(worker[w].blocks[i], r)
      BY <1>1 DEF IInv, Blocks, r
  <1>5. request[r].context \in DOMAIN contexts
      BY <1>2, <1>4 DEF IInv, Current, MadeFor
  <1>6. \A i \in 2 .. Len(worker[w].blocks) : Inner(worker[w].blocks[i], r)'
      BY <1>1, <1>3, <1>4 DEF Inner, MadeFor
  <1>7. DOMAIN bound' = Reqs \X Factories
      BY <1>1 DEF IInv, Types
  <1>8. Bindings'
    <2>1. o \in DOMAIN contexts' /\ contexts'[o].net = r /\ o # request[r].context
        BY <1>3, <1>5 DEF System
    <2> HIDE DEF o
    <2> SUFFICES ASSUME NEW q \in Reqs, NEW g \in Factories, bound'[<<q, g>>] # None
                 PROVE  (MadeFor(bound[<<q, g>>], q) /\ (Open(q) => Inner(bound[<<q, g>>], q)))'
        BY DEF Bindings
    <2>2. CASE <<q, g>> = <<r, f>>
        BY <2>1, <2>2, <1>1, <1>2 DEF IInv, Types, MadeFor, Inner
    <2>3. CASE <<q, g>> # <<r, f>>
      <3>1. bound'[<<q, g>>] = bound[<<q, g>>]
          BY <2>3, <1>1 DEF IInv, Types
      <3>2. MadeFor(bound[<<q, g>>], q) /\ (Open(q) => Inner(bound[<<q, g>>], q))
          BY <3>1 DEF IInv, Bindings
      <3>3. \A p \in DOMAIN contexts : p \in DOMAIN contexts' /\ contexts'[p] = contexts[p]
          BY <1>3 DEF o
      <3> QED
          BY <3>1, <3>2, <3>3, <1>1 DEF MadeFor, Inner, Open
    <2> QED
        BY <2>2, <2>3
  <1>9. TaskWaits'
      BY <1>1 DEF IInv, TaskWaits
  <1> QED
      BY <1>1, <1>4, <1>6, <1>7, <1>8, <1>9, MovesKeep DEF r, IInv, Types

\* Opening and closing sessions touches neither contexts nor workers.
LEMMA SessionsKeep ==
  ASSUME IInv, NEW r \in Reqs, UNCHANGED <<contexts, worker, entries>>,
         DOMAIN request' = Reqs, IsRequest(request'[r]),
         request'[r].phase = request[r].phase, request'[r].context = request[r].context,
         request'[r].actor = request[r].actor,
         \A q \in Reqs : q # r => request'[q] = request[q],
         DOMAIN bound' = Reqs \X Factories, Bindings', Tracked', ReadsOpen'
  PROVE  IInv'
  <1>1. \A q \in Reqs : /\ request'[q].phase = request[q].phase
                        /\ request'[q].context = request[q].context
                        /\ request'[q].actor = request[q].actor
      OBVIOUS
  <1>2. Types' /\ Made' /\ Current'
    <2>1. Types'
        BY DEF IInv, Types
    <2>2. Made'
        BY <1>1, ContextAt DEF IInv, Made
    <2> QED
        BY <1>1, <2>1, <2>2 DEF IInv, Current, MadeFor, Open
  <1>3. Blocks' /\ Objects'
      BY <1>1, TwoWorkers DEF IInv, Blocks, Objects, Open, Inner, MadeFor
  <1>4. InnerContexts'
      BY <1>1, ContextAt DEF IInv, InnerContexts, Open, Inner, MadeFor
  <1>5. InnerSettings' /\ InnerReads'
      BY <1>1, TwoWorkers DEF IInv, InnerSettings, InnerReads, Inner, MadeFor
  <1>6. TaskWaits' /\ ReadActor'
      BY <1>1, TwoWorkers DEF IInv, TaskWaits, ReadActor
  <1>7. RequestActor'
      BY <1>1, ActorFrame DEF IInv, RequestActor, Open, Changing, Awaited
  <1> QED
      BY <1>2, <1>3, <1>4, <1>5, <1>6, <1>7 DEF IInv

LEMMA OpenSessionKeeps ==
  ASSUME IInv, NEW w \in Workers, NEW f \in Factories, OpenSession(w, f)
  PROVE  IInv'
  <1> DEFINE r == Request(w)
  <1>1. /\ request' = [request EXCEPT ![r] =
                         [request[r] EXCEPT !.session = f,
                                            !.opened = Append(request[r].opened, f)]]
        /\ UNCHANGED <<contexts, worker, bound, entries>>
      BY DEF OpenSession
  <1>2. r \in Reqs
      BY TwoWorkers
  <1>2a. Append(request[r].opened, f) \in Seq(Factories)
      BY <1>2 DEF IInv, Types, IsRequest
  <1> HIDE DEF r
  <1>3. /\ DOMAIN request' = Reqs /\ IsRequest(request'[r])
        /\ request'[r].phase = request[r].phase /\ request'[r].context = request[r].context
        /\ request'[r].actor = request[r].actor
        /\ \A q \in Reqs : q # r => request'[q] = request[q]
    <2> DEFINE x == [request[r] EXCEPT !.session = f, !.opened = Append(request[r].opened, f)]
    <2>1. IsRequest(request[r]) /\ DOMAIN request = Reqs
        BY <1>2 DEF IInv, Types
    <2>2. /\ DOMAIN x = DOMAIN request[r]
          /\ x.session = f /\ x.opened = Append(request[r].opened, f)
          /\ x.phase = request[r].phase /\ x.context = request[r].context
          /\ x.actor = request[r].actor
        BY <2>1 DEF IsRequest
    <2> HIDE DEF x
    <2>3. IsRequest(x)
        BY <2>1, <2>2, <1>2a DEF IsRequest
    <2>4. request' = [request EXCEPT ![r] = x]
        BY <1>1 DEF x
    <2> QED
        BY <2>1, <2>2, <2>3, <2>4, <1>2
  <1>4. \A q \in Reqs : Open(q)' <=> Open(q)
      BY <1>3 DEF Open
  <1>5. \A q \in Reqs : request'[q].context = request[q].context
      BY <1>3
  <1>6. DOMAIN bound' = Reqs \X Factories /\ Bindings'
      BY <1>1, <1>4, <1>5 DEF IInv, Types, Bindings, MadeFor, Inner
  <1>7. /\ request'[r].session = f /\ f \in Range(request'[r].opened)
        /\ Range(request[r].opened) \subseteq Range(request'[r].opened)
    <2>1. /\ request'[r].session = f
          /\ request'[r].opened = Append(request[r].opened, f)
          /\ request[r].opened \in Seq(Factories)
        BY <1>1, <1>2 DEF IInv, Types, IsRequest
    <2> QED
        BY <2>1, Grown
  <1>8. Tracked' /\ ReadsOpen'
      BY <1>1, <1>3, <1>7, TwoWorkers DEF IInv, Tracked, ReadsOpen, Awaited
  <1> QED
      BY <1>1, <1>2, <1>3, <1>6, <1>8, SessionsKeep

LEMMA CloseSessionKeeps ==
  ASSUME IInv, NEW w \in Workers, CloseSession(w)
  PROVE  IInv'
  <1> DEFINE r == Request(w)
             f == Last(request[r].opened)
  <1>1. /\ request' = [request EXCEPT ![r] =
                         [request[r] EXCEPT !.session = Untracked(r, f),
                                            !.opened = Front(request[r].opened)]]
        /\ bound' = [bound EXCEPT ![<<r, f>>] = None]
        /\ UNCHANGED <<contexts, worker, entries>>
        /\ request[r].opened # <<>>
      BY DEF CloseSession
  <1>2. r \in Reqs
      BY TwoWorkers
  <1>2a. request[r].opened \in Seq(Factories) /\ Untracked(r, f) \in Factories \cup {None}
      BY <1>2 DEF IInv, Types, IsRequest, Untracked
  <1>2b. Front(request[r].opened) \in Seq(Factories)
      BY <1>1, <1>2a, FrontOf
  <1> HIDE DEF r, f
  <1>3. /\ DOMAIN request' = Reqs /\ IsRequest(request'[r])
        /\ request'[r].phase = request[r].phase /\ request'[r].context = request[r].context
        /\ request'[r].actor = request[r].actor
        /\ \A q \in Reqs : q # r => request'[q] = request[q]
    <2> DEFINE x == [request[r] EXCEPT !.session = Untracked(r, f),
                                       !.opened = Front(request[r].opened)]
    <2>1. IsRequest(request[r]) /\ DOMAIN request = Reqs
        BY <1>2 DEF IInv, Types
    <2>2. /\ DOMAIN x = DOMAIN request[r]
          /\ x.session = Untracked(r, f) /\ x.opened = Front(request[r].opened)
          /\ x.phase = request[r].phase /\ x.context = request[r].context
          /\ x.actor = request[r].actor
        BY <2>1 DEF IsRequest
    <2> HIDE DEF x
    <2>3. IsRequest(x)
        BY <2>1, <2>2, <1>2a, <1>2b DEF IsRequest
    <2>4. request' = [request EXCEPT ![r] = x]
        BY <1>1 DEF x
    <2> QED
        BY <2>1, <2>2, <2>3, <2>4, <1>2
  <1>4. \A q \in Reqs : (Open(q)' <=> Open(q)) /\ request'[q].context = request[q].context
      BY <1>3 DEF Open
  <1>5. DOMAIN bound' = Reqs \X Factories
      BY <1>1 DEF IInv, Types
  <1>6. Bindings'
    <2> SUFFICES ASSUME NEW q \in Reqs, NEW g \in Factories, bound'[<<q, g>>] # None
                 PROVE  (MadeFor(bound[<<q, g>>], q) /\ (Open(q) => Inner(bound[<<q, g>>], q)))'
        BY DEF Bindings
    <2>1. bound'[<<q, g>>] = bound[<<q, g>>]
        BY <1>1 DEF IInv, Types
    <2>2. MadeFor(bound[<<q, g>>], q) /\ (Open(q) => Inner(bound[<<q, g>>], q))
        BY <2>1 DEF IInv, Bindings
    <2> QED
        BY <2>1, <2>2, <1>1, <1>4 DEF MadeFor, Inner
  <1>7. /\ request'[r].session = Untracked(r, f) /\ request'[r].opened = Front(request[r].opened)
        /\ \A g \in Range(request[r].opened) : g # f => g \in Range(request'[r].opened)
    <2>1. /\ request'[r].session = Untracked(r, f)
          /\ request'[r].opened = Front(request[r].opened)
        BY <1>1, <1>2 DEF IInv, Types, IsRequest
    <2> QED
        BY <2>1, <1>1, <1>2a, Shrunk DEF f
  <1>8. Tracked'
      BY <1>2, <1>3, <1>7 DEF IInv, Tracked, Untracked
  <1>9. ReadsOpen'
    <2>1. \A v \in Workers :
            Request(v) \in Awaited /\ worker[v].at = "reading" => Request(v) # r
        BY OnlyOne, TwoWorkers DEF CloseSession, Runs, r
    <2> QED
        BY <2>1, <1>1, <1>3 DEF IInv, ReadsOpen, Awaited
  <1> QED
      BY <1>1, <1>2, <1>3, <1>5, <1>6, <1>8, <1>9, SessionsKeep

LEMMA SetIdKeeps ==
  ASSUME IInv, NEW w \in Workers, SetId(w)
  PROVE  IInv'
  <1> DEFINE r == Request(w)
  <1>1. PICK integration \in BOOLEAN, a \in Actors :
          LET o == Sets(w, integration) IN
          /\ contexts' = [contexts EXCEPT ![o] = Identified(contexts[o], a, integration)]
          /\ worker' = [worker EXCEPT ![w] =

                [@ EXCEPT !.at = "setting", !.object = o, !.actor = a, !.expected = integration]]
      BY DEF SetId
  <1> DEFINE o == Sets(w, integration)
             c == Identified(contexts[o], a, integration)
  <1>2. /\ request' = [request EXCEPT ![r].settings = @ + 1]
        /\ UNCHANGED <<bound, entries>> /\ Runs(w) /\ worker[w].at = "runs"
        /\ r \in Reqs
      BY TwoWorkers DEF SetId, Runs
  <1>3. IsWorker(worker[w]) /\ worker[w].blocks \in Seq(Nat) /\ Len(worker[w].blocks) \in Nat
      BY LenProperties DEF IInv, Types, IsWorker
  <1>4. /\ Open(r) /\ Len(worker[w].blocks) >= 1
        /\ worker[w].blocks[1] = request[r].context
        /\ \A i \in 2 .. Len(worker[w].blocks) : Inner(worker[w].blocks[i], r)
      BY <1>2, <1>3 DEF IInv, Blocks, IsWorker
  <1>5. MadeFor(o, r) /\ (integration => o = request[r].context)
    <2>1. MadeFor(request[r].context, r)
        BY <1>2, <1>4 DEF IInv, Current
    <2>2. CASE integration
        BY <2>1, <2>2 DEF Sets, RequestContext
    <2>3. CASE ~integration
      <3>1. worker[w].blocks # <<>>
          BY <1>3, <1>4
      <3>2. o = worker[w].blocks[Len(worker[w].blocks)]
          BY <2>3, <3>1 DEF Sets, CurrentContext, Last
      <3> QED
          BY <1>3, <1>4, <2>1, <2>3, <3>2 DEF Inner
    <2> QED
        BY <2>2, <2>3
  <1> HIDE DEF r, o
  <1>6. contexts[o] \in Context /\ o \in DOMAIN contexts /\ contexts[o].net = r
      BY <1>5, ContextAt DEF IInv, MadeFor
  <1>7. /\ c \in Context /\ c.net = r /\ c.actor_id = a /\ c.actor_label = contexts[o].actor_label
        /\ ~integration => c.set
        /\ contexts[o].set => c.set
        /\ integration => c.set = contexts[o].set
      BY <1>6 DEF Identified, Context, Ids, Labels
  <1>8. contexts' = [contexts EXCEPT ![o] = c]
      BY <1>1 DEF o
  <1> HIDE DEF c
  <1>9. /\ contexts' \in Seq(Context)
        /\ DOMAIN contexts' = DOMAIN contexts
        /\ contexts'[o] = c
        /\ \A p \in DOMAIN contexts : p # o => contexts'[p] = contexts[p]
      BY <1>6, <1>7, <1>8, Replaced DEF IInv
  <1>10. /\ DOMAIN worker' = Workers /\ IsWorker(worker'[w])
         /\ worker'[w].at = "setting" /\ worker'[w].object = o /\ worker'[w].actor = a
         /\ worker'[w].blocks = worker[w].blocks /\ worker'[w].base = worker[w].base
         /\ \A v \in Workers : v # w => worker'[v] = worker[v]
      BY <1>1, <1>3 DEF IInv, Types, IsWorker, Ids, o
  <1>10a. worker'[w].expected => worker'[w].object = request'[r].context
    <2>1. worker'[w].expected = integration
        BY <1>1, <1>10 DEF IInv, Types, IsWorker
    <2>2. request'[r].context = request[r].context
        BY <1>2 DEF IInv, Types, IsRequest
    <2> QED
        BY <2>1, <2>2, <1>5, <1>10
  <1>11. /\ DOMAIN request' = Reqs
         /\ \A q \in Reqs : /\ IsRequest(request'[q])
                            /\ request'[q].phase = request[q].phase
                            /\ request'[q].context = request[q].context
                            /\ request'[q].actor = request[q].actor
                            /\ request'[q].session = request[q].session
                            /\ request'[q].opened = request[q].opened
      BY <1>2 DEF IInv, Types, IsRequest
  <1>12. \A p \in DOMAIN contexts : contexts'[p].net = contexts[p].net /\ contexts[p].net \in Reqs
      BY <1>6, <1>7, <1>9, ContextAt DEF IInv
  <1>13. Types' /\ Made'
    <2>1. Types'
        BY <1>2, <1>9, <1>10, <1>11 DEF IInv, Types
    <2>2. Made'
        BY <1>9, <1>11, <1>12 DEF IInv, Made
    <2> QED
        BY <2>1, <2>2
  <1>14. Current' /\ Bindings'
    <2>1. \A q \in Reqs : (Open(q)' <=> Open(q)) /\ request'[q].context = request[q].context
        BY <1>11 DEF Open
    <2>2. Current'
        BY <1>9, <1>12, <2>1 DEF IInv, Current, MadeFor
    <2>3. Bindings'
        BY <1>2, <1>9, <1>12, <2>1 DEF IInv, Bindings, Inner, MadeFor
    <2> QED
        BY <2>2, <2>3
  <1>15. Blocks' /\ Objects'
    <2>1. Blocks'
      <3> SUFFICES ASSUME NEW v \in Workers, worker'[v].at # "off"
                   PROVE  /\ Open(Request(v))'
                          /\ 1 <= worker'[v].base /\ worker'[v].base <= Len(worker'[v].blocks)
                          /\ worker'[v].blocks[1] = request'[Request(v)].context
                          /\ \A i \in 2 .. Len(worker'[v].blocks) :
                               Inner(worker[v].blocks[i], Request(v))'
          BY DEF Blocks
      <3>1. /\ worker'[v].blocks = worker[v].blocks /\ worker'[v].base = worker[v].base
            /\ worker[v].at # "off" /\ Request(v) \in Reqs
          BY <1>2, <1>10, TwoWorkers
      <3> QED
          BY <3>1, <1>9, <1>11, <1>12, SMTT(30) DEF IInv, Blocks, Inner, MadeFor, Open
    <2>2. Objects'
      <3>1. \A v \in Workers : worker'[v].at \in {"setting", "reading"} => MadeFor(worker[v].object, Request(v))'
          BY <1>6, <1>9, <1>10, <1>12 DEF IInv, Objects, MadeFor, r
      <3>2. \A v \in Workers : worker'[v].at = "setting" /\ worker'[v].expected =>
              worker'[v].object = request'[Request(v)].context
          BY <1>10, <1>10a, <1>11, TwoWorkers DEF IInv, Objects, r
      <3> QED
          BY <3>1, <3>2 DEF Objects
    <2> QED
        BY <2>1, <2>2
  <1>16. InnerContexts'
      BY <1>5, <1>6, <1>7, <1>9, <1>11, <1>12 DEF IInv, InnerContexts, Inner, MadeFor, Open
  <1>17. InnerSettings'
    <2> SUFFICES ASSUME NEW v \in Workers, worker'[v].at = "setting",
                        Inner(worker[v].object, Request(v))'
                 PROVE  contexts'[worker'[v].object].set
        BY DEF InnerSettings
    <2>1. CASE v = w
      <3>1. o # request[r].context
          BY <2>1, <1>2, <1>10, <1>11 DEF Inner, r
      <3> QED
          BY <2>1, <3>1, <1>5, <1>7, <1>9, <1>10
    <2>2. CASE v # w
      <3>1. MadeFor(worker[v].object, Request(v)) /\ worker'[v] = worker[v]
          BY <2>2, <1>10 DEF IInv, Objects
      <3>2. Inner(worker[v].object, Request(v))
          BY <3>1, <1>11, TwoWorkers DEF Inner
      <3>3. contexts[worker[v].object].set
          BY <3>1, <3>2 DEF IInv, InnerSettings
      <3> QED
          BY <3>1, <3>3, <1>6, <1>7, <1>9 DEF MadeFor
    <2> QED
        BY <2>1, <2>2
  <1>18. InnerReads'
    <2> SUFFICES ASSUME NEW v \in Workers, worker'[v].at = "reading",
                        worker'[v].expected.nested \/ worker'[v].expected.own
                 PROVE  /\ Inner(worker[v].object, Request(v))'
                        /\ ~contexts'[worker'[v].object].set => worker'[v].actor = None
        BY DEF InnerReads
    <2>1. v # w /\ worker'[v] = worker[v]
        BY <1>10
    <2>2. /\ Inner(worker[v].object, Request(v))
          /\ ~contexts[worker[v].object].set => worker[v].actor = None
        BY <2>1 DEF IInv, InnerReads
    <2>3. /\ worker[v].object \in DOMAIN contexts'
          /\ contexts'[worker[v].object].net = contexts[worker[v].object].net
          /\ contexts[worker[v].object].set => contexts'[worker[v].object].set
        BY <2>2, <1>6, <1>7, <1>9 DEF Inner, MadeFor
    <2> QED
        BY <2>1, <2>2, <2>3, <1>11, TwoWorkers DEF Inner, MadeFor
  <1>19. TaskWaits'
    <2> SUFFICES ASSUME NEW q \in Reqs, q \in Awaited, worker'[<<q, "thread">>].at # "off"
                 PROVE  worker'[<<q, "task">>].at = "runs"
        BY DEF TaskWaits, Awaited
    <2>1. worker[<<q, "thread">>].at # "off"
        BY <1>2, <1>10 DEF Workers
    <2>2. worker[<<q, "task">>].at = "runs" /\ w # <<q, "task">>
        BY <2>1, <1>2 DEF IInv, TaskWaits, Runs, Request, Awaited
    <2> QED
        BY <2>2, <1>10 DEF Workers
  <1>20. ReadActor'
      BY <1>10, <1>11, TwoWorkers DEF IInv, ReadActor
  <1>21. RequestActor'
    <2> SUFFICES ASSUME NEW q \in Reqs, q \in Awaited, Open(q)' PROVE CarriesActor(q)'
        BY DEF RequestActor, Awaited
    <2>1. Open(q) /\ CarriesActor(q) /\ MadeFor(request[q].context, q)
        BY <1>11 DEF Open, IInv, RequestActor, Current
    <2>2. CASE q = r /\ o = request[r].context
      <3>1. \A v \in Workers : v # w => ~Changing(r, v)'
          BY <2>2, <1>2, <1>10, OnlyOne DEF Changing, r
      <3>2. Changing(r, w)'
          BY <2>2, <1>2, <1>10, <1>11 DEF Changing, r
      <3> QED
          BY <2>2, <3>1, <3>2, <1>2, <1>7, <1>9, <1>10, <1>11 DEF CarriesActor
    <2>3. CASE ~(q = r /\ o = request[r].context)
      <3>1. o # request[q].context
          BY <2>1, <2>3, <1>6 DEF MadeFor
      <3>2. contexts'[request[q].context] = contexts[request[q].context]
          BY <2>1, <3>1, <1>9 DEF MadeFor
      <3>3. \A v \in Workers : Changing(q, v)' <=> Changing(q, v)
          BY <3>1, <1>2, <1>10, <1>11 DEF Changing
      <3>4. \A v \in Workers : Changing(q, v) => worker'[v].actor = worker[v].actor
          BY <1>2, <1>10 DEF Changing
      <3> QED
          BY <2>1, <3>2, <3>3, <3>4, <1>11, ActorFrame
    <2> QED
        BY <2>2, <2>3
  <1>22. Tracked' /\ ReadsOpen'
      BY <1>10, <1>11, SessionsFrame
  <1> QED
      BY <1>2, <1>13, <1>14, <1>15, <1>16, <1>17, <1>18, <1>19, <1>20, <1>21, <1>22 DEF IInv

LEMMA SetLabelKeeps ==
  ASSUME IInv, NEW w \in Workers, SetLabel(w)
  PROVE  IInv'
  <1> DEFINE r == Request(w)
             o == worker[w].object
             a == worker[w].actor
             c == [contexts[o] EXCEPT !.actor_label = a]
  <1>1. /\ worker[w].at = "setting" /\ UNCHANGED <<bound, entries>>
        /\ contexts' = [contexts EXCEPT ![o] = c]
        /\ worker' = [worker EXCEPT ![w] =

             [@ EXCEPT !.at = "runs", !.object = None, !.actor = None, !.expected = None]]
        /\ r \in Reqs
      BY TwoWorkers DEF SetLabel
  <1>2. request' = IF o = request[r].context THEN [request EXCEPT ![r].actor = a] ELSE request
      BY <1>1 DEF SetLabel, RequestContext, IInv, Objects
  <1>3. IsWorker(worker[w]) /\ a \in Ids /\ Open(r)
      BY <1>1 DEF IInv, Types, IsWorker, Blocks
  <1>4. MadeFor(o, r)
      BY <1>1 DEF IInv, Objects
  <1>5. contexts[o] \in Context /\ o \in DOMAIN contexts /\ contexts[o].net = r
      BY <1>4, ContextAt DEF IInv, MadeFor
  <1>6. /\ c \in Context /\ c.net = r /\ c.actor_id = contexts[o].actor_id
        /\ c.actor_label = a /\ c.set = contexts[o].set
      BY <1>3, <1>5 DEF Context, Labels
  <1> HIDE DEF c, r, o, a
  <1>7. /\ contexts' \in Seq(Context)
        /\ DOMAIN contexts' = DOMAIN contexts
        /\ contexts'[o] = c
        /\ \A p \in DOMAIN contexts : p # o => contexts'[p] = contexts[p]
      BY <1>1, <1>5, <1>6, Replaced DEF IInv
  <1>8. /\ DOMAIN worker' = Workers /\ IsWorker(worker'[w])
        /\ worker'[w].at = "runs"
        /\ worker'[w].blocks = worker[w].blocks /\ worker'[w].base = worker[w].base
        /\ \A v \in Workers : v # w => worker'[v] = worker[v]
      BY <1>1, <1>3 DEF IInv, Types, IsWorker
  <1>9. /\ DOMAIN request' = Reqs
        /\ \A q \in Reqs : /\ IsRequest(request'[q])
                           /\ request'[q].phase = request[q].phase
                           /\ request'[q].context = request[q].context
                           /\ request'[q].session = request[q].session
                           /\ request'[q].opened = request[q].opened
                           /\ q # r \/ o # request[r].context =>
                                request'[q].actor = request[q].actor
        /\ o = request[r].context => request'[r].actor = a
    <2>1. request[r].phase = "open"
        BY <1>3 DEF Open
    <2> QED
        BY <1>1, <1>2, <1>3, <2>1 DEF IInv, Types, IsRequest
  <1>10. \A p \in DOMAIN contexts : /\ contexts'[p].net = contexts[p].net
                                    /\ contexts[p].net \in Reqs
                                    /\ contexts'[p].set = contexts[p].set
                                    /\ contexts'[p].actor_id = contexts[p].actor_id
      BY <1>5, <1>6, <1>7, ContextAt DEF IInv
  <1>11. Types' /\ Made'
    <2>1. Types'
        BY <1>1, <1>7, <1>8, <1>9 DEF IInv, Types
    <2>2. Made'
        BY <1>7, <1>9, <1>10 DEF IInv, Made
    <2> QED
        BY <2>1, <2>2
  <1>12. Current' /\ Bindings'
    <2>1. \A q \in Reqs : (Open(q)' <=> Open(q)) /\ request'[q].context = request[q].context
        BY <1>9 DEF Open
    <2>2. Current'
        BY <1>7, <1>10, <2>1 DEF IInv, Current, MadeFor
    <2>3. Bindings'
        BY <1>1, <1>7, <1>10, <2>1 DEF IInv, Bindings, Inner, MadeFor
    <2> QED
        BY <2>2, <2>3
  <1>13. Blocks'
    <2> SUFFICES ASSUME NEW v \in Workers, worker'[v].at # "off"
                 PROVE  /\ Open(Request(v))'
                        /\ 1 <= worker'[v].base /\ worker'[v].base <= Len(worker'[v].blocks)
                        /\ worker'[v].blocks[1] = request'[Request(v)].context
                        /\ \A i \in 2 .. Len(worker'[v].blocks) :
                             Inner(worker[v].blocks[i], Request(v))'
        BY DEF Blocks
    <2>1. /\ worker'[v].blocks = worker[v].blocks /\ worker'[v].base = worker[v].base
          /\ worker[v].at # "off" /\ Request(v) \in Reqs
        BY <1>1, <1>8, TwoWorkers
    <2> QED
        BY <2>1, <1>7, <1>9, <1>10 DEF IInv, Blocks, Inner, MadeFor, Open
  <1>14. Objects'
      BY <1>7, <1>8, <1>9, <1>10, TwoWorkers, SMTT(30) DEF IInv, Objects, MadeFor
  <1>15. InnerContexts'
    <2>1. Inner(o, r) => contexts[o].set
        BY <1>1 DEF IInv, InnerSettings, o, r
    <2> QED
        BY <2>1, <1>5, <1>6, <1>7, <1>9, <1>10 DEF IInv, InnerContexts, Inner, MadeFor, Open
  <1>16. InnerSettings'
    <2>1. \A v \in Workers : worker'[v].at = "setting" => worker'[v] = worker[v]
        BY <1>8
    <2>2. \A v \in Workers : \A p : Inner(p, Request(v))' => Inner(p, Request(v))
        BY <1>7, <1>9, <1>10, TwoWorkers DEF Inner, MadeFor
    <2> QED
        BY <2>1, <2>2, <1>7, <1>10 DEF IInv, InnerSettings, Inner, MadeFor
  <1>17. InnerReads'
      BY <1>7, <1>8, <1>9, <1>10, TwoWorkers DEF IInv, InnerReads, Inner, MadeFor
  <1>18. r \in Awaited => \A v \in Workers : v # w /\ Request(v) = r => worker[v].at \in {"off", "runs"}
      BY <1>1, OnlyOne DEF r
  <1>19. TaskWaits'
    <2> SUFFICES ASSUME NEW q \in Reqs, q \in Awaited, worker'[<<q, "thread">>].at # "off"
                 PROVE  worker'[<<q, "task">>].at = "runs"
        BY DEF TaskWaits, Awaited
    <2>1. worker[<<q, "thread">>].at # "off"
        BY <1>1, <1>8 DEF Workers
    <2>2. worker[<<q, "task">>].at = "runs"
        BY <2>1 DEF IInv, TaskWaits
    <2> QED
        BY <2>2, <1>8 DEF Workers
  <1>20. ReadActor'
      BY <1>8, <1>9, <1>18, TwoWorkers DEF IInv, ReadActor
  <1>21. RequestActor'
    <2> SUFFICES ASSUME NEW q \in Reqs, q \in Awaited, Open(q)' PROVE CarriesActor(q)'
        BY DEF RequestActor, Awaited
    <2>1. Open(q) /\ CarriesActor(q) /\ MadeFor(request[q].context, q)
        BY <1>9 DEF Open, IInv, RequestActor, Current
    <2>2. CASE q = r /\ o = request[r].context
      <3>1. \A v \in Workers : ~Changing(r, v)'
          BY <2>2, <1>8, <1>18 DEF Changing
      <3>2. contexts[o].actor_id = a
          BY <2>1, <2>2, <1>1 DEF CarriesActor, Changing, o, r, a
      <3> QED
          BY <2>2, <3>1, <3>2, <1>6, <1>7, <1>9 DEF CarriesActor
    <2>3. CASE ~(q = r /\ o = request[r].context)
      <3>1. o # request[q].context
          BY <2>1, <2>3, <1>5 DEF MadeFor
      <3>2. contexts'[request[q].context] = contexts[request[q].context]
          BY <2>1, <3>1, <1>7 DEF MadeFor
      <3>3. \A v \in Workers : Changing(q, v)' <=> Changing(q, v)
          BY <3>1, <1>8, <1>9 DEF Changing, o
      <3>4. \A v \in Workers : Changing(q, v) => worker'[v].actor = worker[v].actor
          BY <3>1, <1>8 DEF Changing, o
      <3> QED
          BY <2>1, <2>3, <3>2, <3>3, <3>4, <1>9, ActorFrame
    <2> QED
        BY <2>2, <2>3
  <1>22. Tracked' /\ ReadsOpen'
      BY <1>8, <1>9, SessionsFrame
  <1> QED
      BY <1>1, <1>11, <1>12, <1>13, <1>14, <1>15, <1>16, <1>17, <1>19, <1>20, <1>21, <1>22 DEF IInv

LEMMA ReadIdKeeps ==
  ASSUME IInv, NEW w \in Workers, ReadId(w)
  PROVE  IInv'
  <1> DEFINE r == Request(w)
  <1>1. /\ Runs(w) /\ worker[w].at = "runs" /\ r \in Reqs
        /\ UNCHANGED <<contexts, request, bound, entries>>
      BY TwoWorkers DEF ReadId, Runs
  <1>2. PICK f \in Sessions(w) :
          LET o == Resolve(w, f) IN
          worker' = [worker EXCEPT ![w] =
            [@ EXCEPT !.at = "reading", !.object = o, !.f = f, !.actor = contexts[o].actor_id,
                      !.expected = [nested |-> Len(worker[w].blocks) > 1,
                                    own |-> bound[<<Request(w), f>>] # None,
                                    actor |-> request[Request(w)].actor]]]
      BY DEF ReadId
  <1> DEFINE o == Resolve(w, f)
             e == [nested |-> Len(worker[w].blocks) > 1,
                   own |-> bound[<<Request(w), f>>] # None,
                   actor |-> request[Request(w)].actor]
  <1>2a. /\ e.nested <=> Len(worker[w].blocks) > 1
         /\ e.own <=> bound[<<Request(w), f>>] # None
      OBVIOUS
  <1>3. IsWorker(worker[w]) /\ worker[w].blocks \in Seq(Nat) /\ Len(worker[w].blocks) \in Nat
      BY LenProperties DEF IInv, Types, IsWorker
  <1>4. /\ Open(r) /\ Len(worker[w].blocks) >= 1
        /\ worker[w].blocks[1] = request[r].context
        /\ \A i \in 2 .. Len(worker[w].blocks) : Inner(worker[w].blocks[i], r)
      BY <1>1, <1>3 DEF IInv, Blocks, IsWorker
  <1>4a. Len(worker[w].blocks) = 1 \/ Len(worker[w].blocks) > 1
    <2> DEFINE k == Len(worker[w].blocks)
    <2>1. k \in Nat /\ k >= 1
        BY <1>3, <1>4
    <2> HIDE DEF k
    <2>2. k = 1 \/ k > 1
        BY <2>1
    <2> QED
        BY <2>2 DEF k
  <1>5. f \in Factories
    <2>1. IsRequest(request[r])
        BY <1>1 DEF IInv, Types
    <2>2. \A i \in DOMAIN request[r].opened : request[r].opened[i] \in Factories
        BY <2>1, LenProperties, ElementOfSeq DEF IsRequest
    <2> QED
        BY <2>1, <2>2 DEF Sessions, Range, IsRequest
  <1>6. /\ MadeFor(o, r)
        /\ e.nested \/ e.own => Inner(o, r)
        /\ ~e.nested /\ ~e.own => o = request[r].context
    <2>1. MadeFor(request[r].context, r)
        BY <1>1, <1>4 DEF IInv, Current
    <2>2. CASE bound[<<r, f>>] # None
      <3>1. o = bound[<<r, f>>] /\ e.own
          BY <2>2 DEF Resolve
      <3>2. MadeFor(o, r) /\ Inner(o, r)
          BY <3>1, <2>2, <1>1, <1>4, <1>5 DEF IInv, Bindings
      <3> QED
          BY <3>1, <3>2
    <2>3. CASE bound[<<r, f>>] = None
      <3> DEFINE b == worker[w].blocks[Len(worker[w].blocks)]
      <3>1. worker[w].blocks # <<>>
          BY <1>3, <1>4
      <3>2. CurrentContext(w) = b
          BY <3>1 DEF CurrentContext, Last
      <3>3. o = IF b # None THEN b ELSE request[r].context
          BY <2>3, <3>2 DEF Resolve, RequestContext
      <3>4. CASE Len(worker[w].blocks) = 1
        <4>1. b = request[r].context
            BY <3>4, <1>4
        <4>2. o = request[r].context
            BY <3>3, <4>1
        <4>3. ~e.nested /\ ~e.own
          <5>1. ~(Len(worker[w].blocks) > 1)
              BY <3>4
          <5> HIDE DEF e
          <5> QED
              BY <5>1, <2>3, <1>2a
        <4> QED
            BY <2>1, <4>2, <4>3
      <3>5. CASE Len(worker[w].blocks) > 1
        <4>1. Inner(b, r) /\ b # None
          <5>1. Len(worker[w].blocks) \in 2 .. Len(worker[w].blocks)
              BY <3>5, <1>3
          <5>2. b \in Nat
              BY <3>5, <1>3, ElementOfSeq
          <5> QED
              BY <5>1, <5>2, <1>4, NoneAssumption
        <4> QED
            BY <3>3, <3>5, <4>1 DEF Inner
      <3> HIDE DEF e, o, b
      <3> QED
          BY <3>4, <3>5, <1>4a
    <2> QED
        BY <2>2, <2>3
  <1> HIDE DEF o, e
  <1>7. contexts[o] \in Context /\ o \in DOMAIN contexts /\ contexts[o].net = r
      BY <1>6, ContextAt DEF IInv, MadeFor
  <1>8. e \in Expected /\ contexts[o].actor_id \in Ids /\ e.actor = request[r].actor
      BY <1>1, <1>7 DEF IInv, Types, IsRequest, Expected, Context, e
  <1>9. /\ DOMAIN worker' = Workers /\ IsWorker(worker'[w])
        /\ worker'[w].at = "reading" /\ worker'[w].object = o
        /\ worker'[w].actor = contexts[o].actor_id /\ worker'[w].expected = e
        /\ worker'[w].blocks = worker[w].blocks /\ worker'[w].base = worker[w].base
        /\ \A v \in Workers : v # w => worker'[v] = worker[v]
      BY <1>2, <1>3, <1>8 DEF IInv, Types, IsWorker, o, e
  <1> HIDE DEF r
  <1>10. Types' /\ Made' /\ Current' /\ Bindings'
      BY <1>1, <1>9 DEF IInv, Types, Made, Current, Bindings, Inner, MadeFor, Open
  <1>11. Blocks' /\ Objects'
    <2>1. Blocks'
        BY <1>1, <1>9 DEF IInv, Blocks, Inner, MadeFor, Open
    <2>2. Objects'
        BY <1>1, <1>7, <1>9 DEF IInv, Objects, MadeFor, r
    <2> QED
        BY <2>1, <2>2
  <1>12. InnerContexts' /\ InnerSettings'
      BY <1>1, <1>9 DEF IInv, InnerContexts, InnerSettings, Inner, MadeFor, Open
  <1>13. InnerReads'
    <2>1. (e.nested \/ e.own) /\ ~contexts[o].set => contexts[o].actor_id = None
        BY <1>4, <1>6, <1>7 DEF IInv, InnerContexts
    <2> QED
        BY <2>1, <1>1, <1>6, <1>9 DEF IInv, InnerReads, Inner, MadeFor, r
  <1>14. TaskWaits'
    <2> SUFFICES ASSUME NEW q \in Reqs, q \in Awaited, worker'[<<q, "thread">>].at # "off"
                 PROVE  worker'[<<q, "task">>].at = "runs"
        BY DEF TaskWaits, Awaited
    <2>1. worker[<<q, "thread">>].at # "off"
        BY <1>1, <1>9 DEF Workers
    <2>2. worker[<<q, "task">>].at = "runs" /\ w # <<q, "task">>
        BY <2>1, <1>1 DEF IInv, TaskWaits, Runs, Request, Awaited
    <2> QED
        BY <2>2, <1>9 DEF Workers
  <1>15. RequestActor'
    <2> SUFFICES ASSUME NEW q \in Reqs, q \in Awaited, Open(q)' PROVE CarriesActor(q)'
        BY DEF RequestActor, Awaited
    <2>1. Open(q) /\ CarriesActor(q)
        BY <1>1 DEF Open, IInv, RequestActor
    <2>2. \A v \in Workers : Changing(q, v)' <=> Changing(q, v)
        BY <1>1, <1>9 DEF Changing
    <2>3. \A v \in Workers : Changing(q, v) => worker'[v].actor = worker[v].actor
        BY <1>1, <1>9 DEF Changing
    <2> QED
        BY <1>1, <2>1, <2>2, <2>3, ActorFrame
  <1>16. ReadActor'
    <2>1. r \in Awaited => \A v \in Workers : ~Changing(r, v)
        BY <1>1, OnlyOne DEF Changing, r
    <2>2. r \in Awaited => contexts[request[r].context].actor_id = request[r].actor
        BY <2>1, <1>1, <1>4 DEF IInv, RequestActor, CarriesActor
    <2> QED
        BY <2>2, <1>1, <1>6, <1>8, <1>9 DEF IInv, ReadActor, r
  <1>17. Tracked' /\ ReadsOpen'
    <2>1. Tracked'
        BY <1>1 DEF IInv, Tracked
    <2>2. f \in Range(request[r].opened)
        BY <1>1 DEF IInv, Tracked, Sessions, r
    <2>3. worker'[w].f = f
        BY <1>2, <1>3 DEF IInv, Types, IsWorker
    <2>4. ReadsOpen'
        BY <2>2, <2>3, <1>1, <1>9 DEF IInv, ReadsOpen, r
    <2> QED
        BY <2>1, <2>4
  <1> QED
      BY <1>1, <1>10, <1>11, <1>12, <1>13, <1>14, <1>15, <1>16, <1>17 DEF IInv

LEMMA WriteKeeps ==
  ASSUME IInv, NEW w \in Workers, Write(w)
  PROVE  IInv'
  <1> DEFINE r == Request(w)
             o == worker[w].object
             x == worker[w].expected
             e == [request |-> Request(w),
                   open |-> worker[w].f \in Range(request[Request(w)].opened),
                   net |-> contexts[o].net, actor_id |-> worker[w].actor,
                   actor_label |-> contexts[o].actor_label, set |-> contexts[o].set,
                   expected |-> worker[w].expected]
  <1>1. /\ worker[w].at = "reading" /\ UNCHANGED <<contexts, request, bound>>
        /\ entries' = Append(entries, e)
        /\ worker' = [worker EXCEPT ![w] =
             [@ EXCEPT !.at = "runs", !.object = None, !.f = None, !.actor = None, !.expected = None]]
        /\ r \in Reqs
      BY TwoWorkers DEF Write
  <1>2. IsWorker(worker[w]) /\ worker[w].actor \in Ids /\ x \in Expected
      BY <1>1 DEF IInv, Types, IsWorker
  <1>3. Open(r) /\ MadeFor(o, r)
      BY <1>1 DEF IInv, Blocks, Objects
  <1>4. contexts[o] \in Context /\ contexts[o].net = r /\ o \in DOMAIN contexts
      BY <1>3, ContextAt DEF IInv, MadeFor
  <1>5. r \in Awaited => \A v \in Workers : v # w /\ Request(v) = r => worker[v].at \in {"off", "runs"}
      BY <1>1, OnlyOne DEF r
  <1>6. e \in Entry /\ e.net = e.request /\ e.request = r
      BY <1>1, <1>2, <1>4 DEF Entry, Context
  <1>7. /\ e.expected = x /\ e.actor_id = worker[w].actor
        /\ e.actor_label = contexts[o].actor_label /\ e.set = contexts[o].set
        /\ e.open = (worker[w].f \in Range(request[r].opened))
      OBVIOUS
  <1>8. DOMAIN worker' = Workers /\ IsWorker(worker'[w]) /\ worker'[w].at = "runs"
        /\ worker'[w].blocks = worker[w].blocks /\ worker'[w].base = worker[w].base
        /\ \A v \in Workers : v # w => worker'[v] = worker[v]
      BY <1>1, <1>2 DEF IInv, Types, IsWorker
  <1> HIDE DEF e, r, o, x
  <1>9. (x.nested \/ x.own) /\ ~contexts[o].set =>
          worker[w].actor = None /\ contexts[o].actor_label = "system"
    <2> SUFFICES ASSUME x.nested \/ x.own, ~contexts[o].set
                 PROVE  worker[w].actor = None /\ contexts[o].actor_label = "system"
        OBVIOUS
    <2>1. Inner(o, r) /\ worker[w].actor = None
        BY <1>1 DEF IInv, InnerReads, o, r, x
    <2>2. contexts[o].actor_label = "system"
        BY <2>1, <1>3, <1>4 DEF IInv, InnerContexts
    <2> QED
        BY <2>1, <2>2
  <1>9a. r \in Awaited => worker[w].f \in Range(request[r].opened)
      BY <1>1 DEF IInv, ReadsOpen, r
  <1>10. r \in Awaited /\ ~x.nested /\ ~x.own =>
           worker[w].actor = x.actor /\ contexts[o].actor_label = x.actor
    <2> SUFFICES ASSUME r \in Awaited, ~x.nested, ~x.own
                 PROVE  worker[w].actor = x.actor /\ contexts[o].actor_label = x.actor
        OBVIOUS
    <2>1. o = request[r].context /\ worker[w].actor = request[r].actor /\ x.actor = request[r].actor
        BY <1>1 DEF IInv, ReadActor, o, r, x
    <2>2. \A v \in Workers : ~Changing(r, v)
        BY <1>1, <1>5 DEF Changing, r
    <2>3. contexts[o].actor_label = request[r].actor
        BY <2>1, <2>2, <1>1, <1>3 DEF IInv, RequestActor, CarriesActor
    <2> QED
        BY <2>1, <2>3
  <1>11. e \in Faithful
      BY <1>6, <1>7, <1>9, <1>9a, <1>10 DEF Faithful
  <1>12. entries' \in Seq(Faithful)
      BY <1>1, <1>11, EntryWritten DEF IInv
  <1>13. Types' /\ Made' /\ Current' /\ Bindings'
      BY <1>1, <1>8 DEF IInv, Types, Made, Current, Bindings, Inner, MadeFor, Open
  <1>14. Blocks' /\ Objects'
    <2>1. Blocks'
        BY <1>1, <1>8 DEF IInv, Blocks, Inner, MadeFor, Open
    <2>2. Objects'
        BY <1>1, <1>8 DEF IInv, Objects, MadeFor
    <2> QED
        BY <2>1, <2>2
  <1>15. InnerContexts' /\ InnerSettings' /\ InnerReads'
      BY <1>1, <1>8 DEF IInv, InnerContexts, InnerSettings, InnerReads, Inner, MadeFor, Open
  <1>16. TaskWaits'
      BY <1>1, <1>8 DEF IInv, TaskWaits, Workers
  <1>17. RequestActor'
    <2> SUFFICES ASSUME NEW q \in Reqs, q \in Awaited, Open(q)' PROVE CarriesActor(q)'
        BY DEF RequestActor, Awaited
    <2>1. Open(q) /\ CarriesActor(q)
        BY <1>1 DEF Open, IInv, RequestActor
    <2>2. \A v \in Workers : Changing(q, v)' <=> Changing(q, v)
        BY <1>1, <1>8 DEF Changing
    <2>3. \A v \in Workers : Changing(q, v) => worker'[v].actor = worker[v].actor
        BY <1>1, <1>8 DEF Changing
    <2> QED
        BY <1>1, <2>1, <2>2, <2>3, ActorFrame
  <1>18. ReadActor'
      BY <1>1, <1>8 DEF IInv, ReadActor
  <1>19. Tracked' /\ ReadsOpen'
      BY <1>1, <1>8, SessionsFrame
  <1> QED
      BY <1>12, <1>13, <1>14, <1>15, <1>16, <1>17, <1>18, <1>19 DEF IInv

LEMMA NextInductive == IInv /\ [Next]_vars => IInv'
  <1> SUFFICES ASSUME IInv, [Next]_vars PROVE IInv'
      OBVIOUS
  <1>1. ASSUME NEW r \in Reqs, Arrive(r) \/ Leave(r) \/ ToThread(r) \/ ThreadEnds(r)
        PROVE  IInv'
      BY <1>1, ArriveKeeps, LeaveKeeps, ToThreadKeeps, ThreadEndsKeeps
  <1>2. ASSUME NEW w \in Workers, Enter(w) \/ Exit(w) PROVE IInv'
      BY <1>2, EnterKeeps, ExitKeeps
  <1>3. ASSUME NEW w \in Workers, SetId(w) \/ SetLabel(w) PROVE IInv'
      BY <1>3, SetIdKeeps, SetLabelKeeps
  <1>4. ASSUME NEW w \in Workers, NEW f \in Factories,
               OpenSession(w, f) \/ Bind(w, f)
        PROVE  IInv'
      BY <1>4, OpenSessionKeeps, BindKeeps
  <1>5. ASSUME NEW w \in Workers, CloseSession(w) PROVE IInv'
      BY <1>5, CloseSessionKeeps
  <1>6. ASSUME NEW w \in Workers, ReadId(w) \/ Write(w) PROVE IInv'
      BY <1>6, ReadIdKeeps, WriteKeeps
  <1>7. CASE UNCHANGED vars
      BY <1>7, QuietKeeps
  <1> QED
      BY <1>1, <1>2, <1>3, <1>4, <1>5, <1>6, <1>7 DEF Next

-----------------------------------------------------------------------------
(* The theorems.                                                           *)

\* The invariant of requests, threads and contexts that the rest follows from:
\* a context is used only by the request it was made for (AuditMiddleware,
\* context(), bind()), and the fields of one change only while its request runs.
THEOREM Inductive == Spec => []IInv
  BY InitInductive, NextInductive, PTL DEF Spec

LEMMA EntryAt ==
  ASSUME IInv, NEW i \in DOMAIN entries
  PROVE  entries[i] \in Faithful
  <1>1. entries \in Seq(Faithful)
      BY DEF IInv
  <1> HIDE DEF Faithful
  <1> QED
      BY <1>1, LenProperties, ElementOfSeq

\* However many requests run at once and in however many threads, an entry
\* carries the context of the request whose code made it (fastapi.py).
THEOREM EntriesAreOfTheirRequest == Spec => []OwnRequest
  <1>1. IInv => OwnRequest
      BY EntryAt DEF OwnRequest, Faithful
  <1> QED
      BY <1>1, Inductive, PTL

\* An entry made in a context() block or by a bound session is the system's
\* unless the core's set_actor named another, whatever the integration's
\* set_actor did meanwhile (context.py).
THEOREM BlocksKeepTheirActor == Spec => []BlockKeepsItsActor
  <1>1. IInv => BlockKeepsItsActor
      BY EntryAt DEF BlockKeepsItsActor, Faithful
  <1> QED
      BY <1>1, Inductive, PTL

\* An entry of a request whose task waits for the threads it starts, as FastAPI
\* does for endpoints and dependencies, carries the actor that the integration's
\* set_actor named last, as its documentation says (fastapi.py).
THEOREM EntriesCarryTheLastActor == Spec => []CarriesTheActor
  <1>1. IInv => CarriesTheActor
    <2> SUFFICES ASSUME IInv, NEW i \in DOMAIN entries
                 PROVE  LET e == entries[i] IN
                        e.request \notin Parallel /\ ~e.expected.nested /\ ~e.expected.own =>
                          e.actor_id = e.expected.actor /\ e.actor_label = e.expected.actor
        BY DEF CarriesTheActor
    <2> QED
        BY EntryAt DEF Faithful, Entry, Awaited
  <1> QED
      BY <1>1, Inductive, PTL

\* The session that session_provider() would return is open, and an entry is
\* written to one that is, however sessions, threads and requests interleave:
\* session_dependency() forgets the session before its factory closes it.
THEOREM SessionsAreOpen == Spec => []SessionAlive
  <1>1. IInv => SessionAlive
    <2> SUFFICES ASSUME IInv PROVE SessionAlive
        OBVIOUS
    <2>1. ASSUME NEW i \in DOMAIN entries, entries[i].request \notin Parallel
          PROVE  entries[i].open
        BY <2>1, EntryAt DEF Faithful, Entry, Awaited
    <2> QED
        BY <2>1 DEF SessionAlive, IInv, Tracked
  <1> QED
      BY <1>1, Inductive, PTL
====
