-------------------------------- MODULE Scrub --------------------------------
(***************************************************************************)
(* Erasure: AuditTrail.scrub and scrub_actor (config.py) over the UPDATE   *)
(* statements of privacy.py, several of them at once and beside requests   *)
(* that keep committing entries.                                           *)
(*                                                                         *)
(* A call is one database transaction at READ COMMITTED: one UPDATE for    *)
(* scrub, two for scrub_actor, then the audit.scrubbed entry and COMMIT.   *)
(* Each UPDATE takes a snapshot of its own, picks the rows that match in   *)
(* it, and changes them one by one: a row another transaction has changed  *)
(* is waited for and looked at again before it is changed.                 *)
(***************************************************************************)
EXTENDS Integers, Sequences, FiniteSets, FiniteSetsExt

CONSTANTS
  Calls,       \* the calls, each made once
  Operations,  \* what a call may be asked to do
  Operators,   \* the contexts a call may run in: an actor and a scope
  Requests,    \* what a request may commit
  MaxRequests, \* how many requests commit
  None         \* SQL NULL, and Python's None

ASSUME OperationsAssumption ==
  \A o \in Operations : o.kind \in {"scrub", "scrub_actor"}
ASSUME MaxRequestsAssumption == MaxRequests \in Nat
\* Hosts commit no audit.scrubbed entry: record() and log() refuse the name.
ASSUME RequestsAssumption ==
  \A q \in Requests :
    /\ q.entries \in Seq(Range(q.entries))
    /\ \A k \in DOMAIN q.entries : q.entries[k].at \in Nat /\ q.entries[k].system = FALSE

VARIABLES
  log,       \* the committed rows of both tables, in the order they appeared
  requests,  \* how many requests have committed
  call       \* each call: its arguments, where it is, what it has changed

vars == <<log, requests, call>>

------------------------------------------------------------------------------
(* Rows.  A row of audit_transaction holds personal context of its actor; a *)
(* row of audit_activity holds values too.  What is erased says so.        *)

Held == {"none", "kept", "erased"}

TransactionRow(i, actor, personal) ==
  [kind |-> "transaction", tx |-> i, actor |-> actor, scope |-> None,
   object |-> None, target |-> None, system |-> FALSE, at |-> 0,
   values |-> "none", personal |-> personal]

\* The rows one transaction adds: its own and one for each entry.
BugRowsOf(first, actor, personal, entries) ==
  <<TransactionRow(first, actor, personal)>> \o
  [k \in DOMAIN entries |->
     [kind |-> "entry", tx |-> first + k, actor |-> entries[k].actor,
      scope |-> entries[k].scope, object |-> entries[k].object,
      target |-> entries[k].target, system |-> entries[k].system,
      at |-> entries[k].at, values |-> "kept", personal |-> personal]]
RowsOf(first, actor, personal, entries) ==
  <<TransactionRow(first, actor, personal)>> \o
  [k \in DOMAIN entries |->
     [kind |-> "entry", tx |-> first, actor |-> entries[k].actor,
      scope |-> entries[k].scope, object |-> entries[k].object,
      target |-> entries[k].target, system |-> entries[k].system,
      at |-> entries[k].at, values |-> "kept", personal |-> personal]]

Entries(rows, i) == {j \in DOMAIN rows : rows[j].kind = "entry" /\ rows[j].tx = i}

\* scope_ids: None restricts nothing, a scope of NULL is in no restriction.
MemberOf(scope, scopes) == scopes = None \/ (scope # None /\ scope \in scopes)

\* A transaction row is covered by a restriction when it has entries and none
\* of them lies outside it.
BugAllEntriesMatch(rows, i, scopes) ==
  \/ scopes = None
  \/ /\ Entries(rows, i) # {}
     /\ \A j \in Entries(rows, i) : rows[j].scope \in scopes \cup {None}
AllEntriesMatch(rows, i, scopes) ==
  \/ scopes = None
  \/ /\ Entries(rows, i) # {}
     /\ \A j \in Entries(rows, i) : MemberOf(rows[j].scope, scopes)

------------------------------------------------------------------------------
(* The statements of a call: the rows each one is about.                   *)

Statements(o) ==
  IF o.kind = "scrub" THEN <<"values">> ELSE <<"transactions", "context">>

\* An entry of the object, or of a child that names it as its target, not
\* older than since.
BugIsAbout(o, r) ==
  /\ r.object = o.object \/ (o.targets /\ r.target = o.object)
  /\ r.at > o.since
IsAbout(o, r) ==
  /\ r.object = o.object \/ (o.targets /\ r.target = o.object)
  /\ r.at >= o.since

Concerns(o, statement, rows, i) ==
  LET r == rows[i] IN
  CASE statement = "values" ->
         /\ r.kind = "entry" /\ ~r.system
         /\ IsAbout(o, r)
         /\ MemberOf(r.scope, o.scopes)
    [] statement = "transactions" ->
         /\ r.kind = "transaction" /\ r.actor = o.actor
         /\ AllEntriesMatch(rows, i, o.scopes)
    [] statement = "context" ->
         /\ r.kind = "entry" /\ r.actor = o.actor
         /\ MemberOf(r.scope, o.scopes)

\* What the statement would erase of the row, if it is still there.
Part(statement) == IF statement = "values" THEN "values" ELSE "personal"
Holds(row, statement) == row[Part(statement)] = "kept"
Erased(row, statement) == [row EXCEPT ![Part(statement)] = "erased"]

\* The WHERE clause.
Matches(o, statement, rows, i) ==
  Concerns(o, statement, rows, i) /\ Holds(rows[i], statement)

------------------------------------------------------------------------------
Idle == [at |-> "idle", op |-> None, by |-> None, start |-> 0, next |-> 1,
         seen |-> <<>>, todo |-> {}, writes |-> <<>>,
         record |-> 0, count |-> 0]

Init ==
  /\ log = <<>>
  /\ requests = 0
  /\ call = [c \in Calls |-> Idle]

\* A request commits its transaction row and all its entries together; they
\* may be entries of another actor than the row's, when set_actor or log(actor=)
\* came after the row.
Request ==
  /\ requests < MaxRequests
  /\ \E q \in Requests :
       log' = log \o RowsOf(Len(log) + 1, q.actor, "kept", q.entries)
  /\ requests' = requests + 1
  /\ UNCHANGED call

\* scrub() and scrub_actor(): the arguments are checked, the context of
\* whoever runs it is taken, and a transaction begins.
Start(c) ==
  /\ call[c].at = "idle"
  /\ \E o \in Operations, by \in Operators :
       call' = [call EXCEPT ![c] = [Idle EXCEPT !.at = "scan", !.op = o,
                                                !.by = by, !.start = Len(log)]]
  /\ UNCHANGED <<log, requests>>

Statement(c) == Statements(call[c].op)[call[c].next]

\* What the call sees: the committed rows and its own changes.
Sees(c) ==
  [i \in DOMAIN log |-> IF i \in DOMAIN call[c].writes
                        THEN call[c].writes[i] ELSE log[i]]

\* An UPDATE takes its snapshot and finds its rows.
Scan(c) ==
  /\ call[c].at = "scan"
  /\ call' = [call EXCEPT ![c] = [@ EXCEPT !.at = "update", !.seen = Sees(c),
       !.todo = {i \in DOMAIN log : Matches(call[c].op, Statement(c), Sees(c), i)}]]
  /\ UNCHANGED <<log, requests>>

Locked(c, i) == \E d \in Calls \ {c} : i \in DOMAIN call[d].writes

\* The version of a row an UPDATE changes: the newest, not its snapshot's.
BugNewest(c, i) == call[c].seen[i]
Newest(c, i) == Sees(c)[i]

\* The row is looked at again, in case it was changed after the snapshot.
BugStillMatches(c, i) == Concerns(call[c].op, Statement(c), call[c].seen, i)
StillMatches(c, i) ==
  /\ Concerns(call[c].op, Statement(c), call[c].seen, i)
  /\ Holds(Newest(c, i), Statement(c))

\* One row of the UPDATE; a row another call has changed waits for its end.
Update(c) ==
  /\ call[c].at = "update"
  /\ \E i \in call[c].todo :
       /\ ~Locked(c, i)
       /\ LET x == call[c] IN
            call' = [call EXCEPT ![c] = [x EXCEPT
              !.todo = x.todo \ {i},
              !.writes = IF StillMatches(c, i)
                         THEN [j \in DOMAIN x.writes \cup {i} |->
                                 IF j = i THEN Erased(Newest(c, i), Statement(c))
                                 ELSE x.writes[j]]
                         ELSE x.writes,
              !.count = IF StillMatches(c, i) THEN x.count + 1 ELSE x.count]]
  /\ UNCHANGED <<log, requests>>

\* The UPDATE is done: the next statement, or the record of the scrub.
StatementEnds(c) ==
  /\ call[c].at = "update"
  /\ call[c].todo = {}
  /\ LET x == call[c] IN
       call' = [call EXCEPT ![c] = [x EXCEPT
         !.seen = <<>>, !.next = x.next + 1,
         !.at = IF x.next = Len(Statements(x.op)) THEN "record" ELSE "scan"]]
  /\ UNCHANGED <<log, requests>>

\* Whoever scrubs themself leaves a record without their personal context.
BugRecordPersonal(c) == "kept"
RecordPersonal(c) ==
  IF call[c].op.kind = "scrub_actor" /\ call[c].op.actor = call[c].by.actor
  THEN "none" ELSE "kept"

RecordEntry(c) ==
  [actor |-> call[c].by.actor, scope |-> call[c].by.scope, system |-> TRUE, at |-> 0,
   object |-> IF call[c].op.kind = "scrub" THEN call[c].op.object ELSE None,
   target |-> None]

\* The audit.scrubbed entry and its transaction row are inserted, and all of
\* it is committed.
Commit(c) ==
  /\ call[c].at = "record"
  /\ log' = Sees(c) \o
            RowsOf(Len(log) + 1, call[c].by.actor, RecordPersonal(c), <<RecordEntry(c)>>)
  /\ call' = [call EXCEPT ![c] = [@ EXCEPT !.at = "done", !.writes = <<>>,
                                         !.record = Len(log) + 1]]
  /\ UNCHANGED requests

\* A statement fails: no partition for the record, a lock cycle PostgreSQL
\* breaks, a lost connection.  The transaction is rolled back, and the call
\* may be made again.
Fail(c) ==
  /\ call[c].at \in {"scan", "update", "record"}
  /\ call' = [call EXCEPT ![c] = Idle]
  /\ UNCHANGED <<log, requests>>

Next ==
  \/ Request
  \/ \E c \in Calls : Start(c) \/ Scan(c) \/ Update(c) \/ StatementEnds(c)
                      \/ Commit(c) \/ Fail(c)

Spec == Init /\ [][Next]_vars

------------------------------------------------------------------------------
(* Properties.                                                             *)

Finished == {c \in Calls : call[c].at = "done"}

\* The type of the state: rows point at the transaction row committed with
\* them, and no two open calls hold a change of the same row.
TypeOK ==
  /\ requests \in 0..MaxRequests
  /\ \A i \in DOMAIN log :
       /\ log[i].values \in Held /\ log[i].personal \in Held
       /\ log[i].tx \in 1..i /\ log[log[i].tx].kind = "transaction"
       /\ log[i].kind = "transaction" <=> log[i].tx = i
  /\ \A c \in Calls :
       /\ call[c].at \in {"idle", "scan", "update", "record", "done"}
       /\ \A d \in Calls \ {c} :
            DOMAIN call[c].writes \cap DOMAIN call[d].writes = {}

\* What a committed scrub was asked to erase is gone for good: every row that
\* was committed when the call began, or is the call's own record, and that it
\* concerns holds nothing of it any more, whatever other calls and requests
\* did meanwhile (privacy.scrub and scrub_actor).
ErasedForGood ==
  \A c \in Finished : \A i \in (1 .. call[c].start)
                                \cup {call[c].record, call[c].record + 1} :
    LET o == call[c].op IN
    IF o.kind = "scrub"
    THEN Concerns(o, "values", log, i) => log[i].values # "kept"
    ELSE \A statement \in {"transactions", "context"} :
           Concerns(o, statement, log, i) => log[i].personal # "kept"

\* A scrub erases nothing else.  Values are gone only from host entries of an
\* object some call was asked about, in a scope it was restricted to; an
\* entry's context only for its actor and in such a scope; a transaction row's,
\* which all its entries share, only if every one of them is in the scopes.
Within(scope, scopes) == scopes = None \/ scope \in scopes \ {None}
OnlyAskedFor ==
  \A i \in DOMAIN log :
    /\ log[i].values = "erased" =>
         /\ ~log[i].system
         /\ \E c \in Finished :
              /\ call[c].op.kind = "scrub"
              /\ call[c].op.object \in {log[i].object, log[i].target}
              /\ call[c].op.object # log[i].object => call[c].op.targets
              /\ Within(log[i].scope, call[c].op.scopes)
    /\ log[i].personal = "erased" =>
         \E c \in Finished :
           /\ call[c].op.kind = "scrub_actor"
           /\ call[c].op.actor = log[i].actor
           /\ IF log[i].kind = "entry" THEN Within(log[i].scope, call[c].op.scopes)
              ELSE \A j \in DOMAIN log : log[j].kind = "entry" /\ log[j].tx = i =>
                     Within(log[j].scope, call[c].op.scopes)

\* The counts the audit.scrubbed entries hold add up to what was erased: no
\* row is counted by two calls, and none is erased without being counted.
Counted(kind) ==
  MapThenSumSet(LAMBDA c : call[c].count,
                {c \in Finished : call[c].op.kind = kind})
CountsAddUp ==
  /\ Counted("scrub") = Cardinality({i \in DOMAIN log : log[i].values = "erased"})
  /\ Counted("scrub_actor") =
       Cardinality({i \in DOMAIN log : log[i].personal = "erased"})

\* A committed row is never removed, and never gets back what a scrub erased:
\* of two scrubs that change the same row, each keeps what the other erased.
NothingComesBack ==
  [][\A i \in DOMAIN log :
       /\ i \in DOMAIN log'
       /\ \A part \in {"values", "personal"} :
            log'[i][part] # log[i][part] => log'[i][part] = "erased"
       /\ [log'[i] EXCEPT !.values = "none", !.personal = "none"]
            = [log[i] EXCEPT !.values = "none", !.personal = "none"]]_vars
==============================================================================
