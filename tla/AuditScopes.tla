------------------------------ MODULE AuditScopes ------------------------------
(***************************************************************************)
(* What in-session auditing promises a caller, with no cache, no           *)
(* audit_transaction rows in flight and no SessionTransactions: changes    *)
(* and the entries about them are written into scopes (the transaction and *)
(* its open savepoints), live and die with their scope, and are published  *)
(* together, under one transaction row if there is any entry.              *)
(***************************************************************************)
EXTENDS Naturals

CONSTANTS
  Conns,      \* the databases one session writes to
  MaxWrites   \* bound: writes

VARIABLES
  depth,      \* number of open scopes
  pending,    \* items written and not yet published, with their scope
  last,       \* the last write
  log         \* published batches

scopes == <<depth, pending, last, log>>

\* What one write may leave on one connection: nothing, a change with its
\* entry, a change whose entry was logged as lost, an unaudited change, an event.
Outcomes == {{}, {"change", "entry"}, {"change"}, {"silent"}, {"event"}}
EntryKinds == {"entry", "event"}

Published(c) ==
  [conn |-> c,
   items |-> {[kind |-> i.kind, id |-> i.id] : i \in pending[c]},
   header |-> IF \E i \in pending[c] : i.kind \in EntryKinds THEN "one" ELSE "none"]

\* Databases without entries may publish a bare transaction row or nothing;
\* only what was written is promised.
Publish(S) == log' = log \cup {Published(c) : c \in {d \in S : pending[d] # {}}}

NothingPending == [c \in Conns |-> {}]

UndoneFrom(k) == [c \in Conns |-> {i \in pending[c] : i.depth < k}]

-----------------------------------------------------------------------------
Init ==
  /\ depth = 0
  /\ pending = NothingPending
  /\ last = 0
  /\ log = {}

Open ==
  /\ depth' = depth + 1
  /\ UNCHANGED <<pending, last, log>>

Write(outcome) ==
  /\ depth > 0 /\ last < MaxWrites
  /\ last' = last + 1
  /\ pending' = [c \in Conns |-> pending[c] \cup
       {[kind |-> k, id |-> last', depth |-> depth] : k \in outcome[c]}]
  /\ UNCHANGED <<depth, log>>

\* A failed write takes the innermost scope's items with it; the scope stays
\* open until it is closed.
WriteFails ==
  /\ depth > 0 /\ last < MaxWrites
  /\ last' = last + 1
  /\ pending' = UndoneFrom(depth)
  /\ UNCHANGED <<depth, log>>

\* The scopes from k on become part of the one around them.
Merge(k) ==
  /\ k \in 2..depth
  /\ depth' = k - 1
  /\ pending' = [c \in Conns |->
       {[i EXCEPT !.depth = IF i.depth < k THEN i.depth ELSE k - 1] : i \in pending[c]}]
  /\ UNCHANGED <<last, log>>

\* The scopes from k on end, and what was written in them is gone.
Undo(k) ==
  /\ k \in 1..depth
  /\ depth' = k - 1
  /\ pending' = UndoneFrom(k)
  /\ UNCHANGED <<last, log>>

\* The transaction ends: the databases of S publish everything that is
\* pending on them, the others nothing.  A commit that fails leaves the
\* empty transaction open.
End(S, left) ==
  /\ depth > 0
  /\ Publish(S)
  /\ depth' = left
  /\ pending' = NothingPending
  /\ UNCHANGED last

Next ==
  \/ Open
  \/ \E outcome \in [Conns -> Outcomes] : Write(outcome)
  \/ WriteFails
  \/ \E k \in 2..depth : Merge(k)
  \/ \E k \in 1..depth : Undo(k)
  \/ \E S \in SUBSET Conns, left \in {0, 1} : End(S, left)

Spec == Init /\ [][Next]_scopes

=============================================================================
