------------------------------- MODULE Requests -------------------------------
(***************************************************************************)
(* Who an entry is attributed to: audit contexts (context.py), the FastAPI *)
(* middleware, session dependency and providers (integrations/fastapi.py), *)
(* and log() finding its session and its context (config.py).              *)
(*                                                                         *)
(* Several requests run at once.  Each has a task and, while a synchronous *)
(* dependency or endpoint runs, a thread of the pool that works in a COPY  *)
(* of the task's context variables.  A context variable holds a reference: *)
(* assigning the variable stays in the copy, assigning a field of the      *)
(* object it refers to is seen by both.                                    *)
(***************************************************************************)
EXTENDS Integers, Sequences, FiniteSets, FiniteSetsExt, SequencesExt

CONSTANTS
  Reqs,        \* the requests
  Actors,      \* who set_actor may name
  Factories,   \* the session dependencies of the application
  Parallel,    \* the requests whose task goes on while their thread runs
  MaxContexts, \* how many context objects are made
  MaxEntries,  \* how many entries are logged
  MaxSettings, \* how many set_actor calls a request makes
  None

ASSUME NoneAssumption == None \notin Nat
ASSUME BoundsAssumption ==
  /\ Parallel \subseteq Reqs
  /\ MaxContexts \in Nat /\ MaxEntries \in Nat /\ MaxSettings \in Nat

Workers == Reqs \X {"task", "thread"}
Request(w) == w[1]

VARIABLES
  contexts, \* the AuditContext objects, in the order they were made
  request,  \* the middleware's state of each request
  worker,   \* each task and thread: its copy of the context variables
  bound,    \* the context bound to each session, if any
  entries   \* the entries written, with what was true when they were

vars == <<contexts, request, worker, bound, entries>>

------------------------------------------------------------------------------
(* Contexts.  The actor is two fields, assigned one after the other; the   *)
(* network part tells which request the object was made for, and set whether  *)
(* the core's set_actor was ever called on it.                              *)

Anonymous(r) == [actor_id |-> None, actor_label |-> None, net |-> r, set |-> FALSE]
System(r) == [actor_id |-> None, actor_label |-> "system", net |-> r, set |-> FALSE]

\* context(): the innermost block of the worker, or none.
CurrentContext(w) == IF worker[w].blocks = <<>> THEN None ELSE Last(worker[w].blocks)

\* request_context(): the request's own, whatever blocks are open.
RequestContext(w) == request[Request(w)].context

\* resolve_context(): bound to the session, else the innermost block, which
\* is what the provider and the context variable both say, else the request's.
BugResolve(w, f) == RequestContext(w)
Resolve(w, f) ==
  IF bound[<<Request(w), f>>] # None THEN bound[<<Request(w), f>>]
  ELSE IF CurrentContext(w) # None THEN CurrentContext(w)
  ELSE RequestContext(w)

------------------------------------------------------------------------------
Off == [at |-> "off", blocks |-> <<>>, base |-> 0, object |-> None, actor |-> None,
        expected |-> None, f |-> None]

Init ==
  /\ contexts = <<>>
  /\ request = [r \in Reqs |-> [phase |-> "new", context |-> None, session |-> None,
                               opened |-> <<>>, settings |-> 0, actor |-> None]]
  /\ worker = [w \in Workers |-> Off]
  /\ bound = [x \in Reqs \X Factories |-> None]
  /\ entries = <<>>

\* A worker runs, unless it is a task waiting for its thread: an endpoint and
\* its dependencies are awaited, a thread the application starts is not.
Runs(w) ==
  /\ worker[w].at = "runs"
  /\ w[2] = "task" /\ Request(w) \notin Parallel => worker[<<Request(w), "thread">>].at = "off"

\* AuditMiddleware.__call__: a context of its own for the request, active in
\* the request's task.
BugContextOf(r) == IF contexts = <<>> THEN 1 ELSE Len(contexts)
ContextOf(r) == Len(contexts) + 1
Arrive(r) ==
  /\ request[r].phase = "new"
  /\ Len(contexts) < MaxContexts
  /\ contexts' = Append(contexts, Anonymous(r))
  /\ request' = [request EXCEPT ![r] = [@ EXCEPT !.phase = "open", !.context = ContextOf(r)]]
  /\ worker' = [worker EXCEPT ![<<r, "task">>] =
       [Off EXCEPT !.at = "runs", !.blocks = <<ContextOf(r)>>, !.base = 1]]
  /\ UNCHANGED <<bound, entries>>

\* The response is sent and every dependency closed; both context variables
\* are reset.
Leave(r) ==
  /\ Runs(<<r, "task">>) /\ worker[<<r, "thread">>].at = "off"
  /\ Len(worker[<<r, "task">>].blocks) = 1
  /\ request[r].opened = <<>>
  /\ request' = [request EXCEPT ![r] = [@ EXCEPT !.phase = "done", !.context = None]]
  /\ worker' = [worker EXCEPT ![<<r, "task">>] = Off]
  /\ UNCHANGED <<contexts, bound, entries>>

\* A synchronous dependency or endpoint runs in the pool, in a copy.
ToThread(r) ==
  /\ Runs(<<r, "task">>) /\ worker[<<r, "thread">>].at = "off"
  /\ LET blocks == worker[<<r, "task">>].blocks IN
       worker' = [worker EXCEPT ![<<r, "thread">>] =
         [Off EXCEPT !.at = "runs", !.blocks = blocks, !.base = Len(blocks)]]
  /\ UNCHANGED <<contexts, request, bound, entries>>

ThreadEnds(r) ==
  /\ Runs(<<r, "thread">>)
  /\ Len(worker[<<r, "thread">>].blocks) = worker[<<r, "thread">>].base
  /\ worker' = [worker EXCEPT ![<<r, "thread">>] = Off]
  /\ UNCHANGED <<contexts, request, bound, entries>>

\* A context() block is entered: another object, active in this copy only ...
Enter(w) ==
  /\ Runs(w) /\ Len(contexts) < MaxContexts
  /\ contexts' = Append(contexts, System(Request(w)))
  /\ worker' = [worker EXCEPT ![w].blocks = Append(@, Len(contexts) + 1)]
  /\ UNCHANGED <<request, bound, entries>>

\* ... and left: what was active before it is active again.
Restored(blocks) == Front(blocks)
Exit(w) ==
  /\ Runs(w) /\ Len(worker[w].blocks) > worker[w].base
  /\ worker' = [worker EXCEPT ![w].blocks = Restored(@)]
  /\ UNCHANGED <<contexts, request, bound, entries>>

\* set_actor() of the integration changes the request's context, that of the
\* core the innermost block's.
BugSets(w, integration) == CurrentContext(w)
Sets(w, integration) == IF integration THEN RequestContext(w) ELSE CurrentContext(w)

Identified(c, a, integration) ==
  [c EXCEPT !.actor_id = a, !.set = IF integration THEN @ ELSE TRUE]

\* Its assignments are not one step: another thread may read between them.
SetId(w) ==
  /\ Runs(w) /\ request[Request(w)].settings < MaxSettings
  /\ \E integration \in BOOLEAN, a \in Actors :
       LET o == Sets(w, integration) IN
       /\ contexts' = [contexts EXCEPT ![o] = Identified(@, a, integration)]
       /\ worker' = [worker EXCEPT ![w] =
            [@ EXCEPT !.at = "setting", !.object = o, !.actor = a, !.expected = integration]]
  /\ request' = [request EXCEPT ![Request(w)].settings = @ + 1]
  /\ UNCHANGED <<bound, entries>>

SetLabel(w) ==
  /\ worker[w].at = "setting"
  /\ LET o == worker[w].object IN
     /\ contexts' = [contexts EXCEPT ![o].actor_label = worker[w].actor]
     /\ request' = IF worker[w].expected \/ o = RequestContext(w)
                   THEN [request EXCEPT ![Request(w)].actor = worker[w].actor]
                   ELSE request
  /\ worker' = [worker EXCEPT ![w] =
       [@ EXCEPT !.at = "runs", !.object = None, !.actor = None, !.expected = None]]
  /\ UNCHANGED <<bound, entries>>

\* session_dependency(): a session is opened and is the request's session ...
OpenSession(w, f) ==
  /\ Runs(w) /\ f \notin Range(request[Request(w)].opened)
  /\ LET x == request[Request(w)] IN
     request' = [request EXCEPT ![Request(w)] =
                   [x EXCEPT !.session = f, !.opened = Append(x.opened, f)]]
  /\ UNCHANGED <<contexts, worker, bound, entries>>

\* ... until it is closed; FastAPI closes dependencies in reverse order.
BugUntracked(r, f) == request[r].session
Untracked(r, f) == IF request[r].session = f THEN None ELSE request[r].session
CloseSession(w) ==
  LET r == Request(w) IN
  /\ Runs(w) /\ request[r].opened # <<>>
  /\ LET x == request[r]
         f == Last(x.opened) IN
     /\ request' = [request EXCEPT ![r] =
                       [x EXCEPT !.session = Untracked(r, f), !.opened = Front(x.opened)]]
     /\ bound' = [bound EXCEPT ![<<r, f>>] = None]
  /\ UNCHANGED <<contexts, worker, entries>>

\* bind(): the session gets a context of its own.
Bind(w, f) ==
  /\ Runs(w) /\ f \in Range(request[Request(w)].opened)
  /\ Len(contexts) < MaxContexts
  /\ contexts' = Append(contexts, System(Request(w)))
  /\ bound' = [bound EXCEPT ![<<Request(w), f>>] = Len(contexts) + 1]
  /\ UNCHANGED <<request, worker, entries>>

\* An entry is made: of a session passed to log() or flushed, or of the one
\* session_provider() returns.  Without a session log() raises.  The entry's
\* actor_id is read, then the rest of its context.
Sessions(w) ==
  Range(request[Request(w)].opened) \cup ({request[Request(w)].session} \ {None})
ReadId(w) ==
  /\ Runs(w) /\ Len(entries) < MaxEntries
  /\ \E f \in Sessions(w) :
       LET o == Resolve(w, f) IN
       worker' = [worker EXCEPT ![w] =
         [@ EXCEPT !.at = "reading", !.object = o, !.f = f, !.actor = contexts[o].actor_id,
                   !.expected = [nested |-> Len(worker[w].blocks) > 1,
                                 own |-> bound[<<Request(w), f>>] # None,
                                 actor |-> request[Request(w)].actor]]]
  /\ UNCHANGED <<contexts, request, bound, entries>>

Write(w) ==
  /\ worker[w].at = "reading"
  /\ Len(entries) < MaxEntries
  /\ LET c == contexts[worker[w].object] IN
     entries' = Append(entries,
       [request |-> Request(w), open |-> worker[w].f \in Range(request[Request(w)].opened),
        net |-> c.net, actor_id |-> worker[w].actor, actor_label |-> c.actor_label,
        set |-> c.set, expected |-> worker[w].expected])
  /\ worker' = [worker EXCEPT ![w] =
       [@ EXCEPT !.at = "runs", !.object = None, !.f = None, !.actor = None, !.expected = None]]
  /\ UNCHANGED <<contexts, request, bound>>

Next ==
  \/ \E r \in Reqs : Arrive(r) \/ Leave(r) \/ ToThread(r) \/ ThreadEnds(r)
  \/ \E w \in Workers : \/ Enter(w) \/ Exit(w) \/ SetId(w) \/ SetLabel(w)
                        \/ CloseSession(w) \/ ReadId(w) \/ Write(w)
                        \/ \E f \in Factories : OpenSession(w, f) \/ Bind(w, f)

Spec == Init /\ [][Next]_vars

------------------------------------------------------------------------------
(* Properties.                                                             *)

\* Requests do not mix: an entry is attributed to the request whose code made
\* it, never to one that runs at the same time or ran in the same thread
\* before (AuditMiddleware gives each its own context).
OwnRequest == \A i \in DOMAIN entries : entries[i].net = entries[i].request

\* "Entries flushed afterwards in the request carry the actor": an entry made
\* under the request's context carries the actor of the last set_actor of the
\* integration, whichever thread called it and whether a block was open there.
\* (What runs beside the request's task may change the actor as it is read.)
CarriesTheActor ==
  \A i \in DOMAIN entries :
    LET e == entries[i] IN
    e.request \notin Parallel /\ ~e.expected.nested /\ ~e.expected.own =>
      e.actor_id = e.expected.actor /\ e.actor_label = e.expected.actor

\* A context() block and a bound context replace the request's: the entries
\* made under them carry their own actor, even if set_actor of the
\* integration names another inside the block.
BlockKeepsItsActor ==
  \A i \in DOMAIN entries :
    LET e == entries[i] IN
    (e.expected.nested \/ e.expected.own) /\ ~e.set =>
      e.actor_id = None /\ e.actor_label = "system"

\* The request's session is never one that its dependency has closed, and no
\* entry goes to such a session, unless by what runs beside the request's task.
SessionAlive ==
  /\ \A r \in Reqs : request[r].session # None =>
       request[r].session \in Range(request[r].opened)
  /\ \A i \in DOMAIN entries : entries[i].request \notin Parallel => entries[i].open
===============================================================================
