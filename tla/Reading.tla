-------------------------------- MODULE Reading --------------------------------
(***************************************************************************)
(* What a reader is shown (query.py): get, the groups of a page and labels *)
(* of referenced objects, beside requests that commit, scrubs that erase   *)
(* (module Scrub) and retention that drops partitions.                     *)
(*                                                                         *)
(* A read is several statements at READ COMMITTED: the entries first, then *)
(* the audit_transaction rows of their transactions, which may be gone or  *)
(* erased by then.  Which transactions are on a page is module Pagination. *)
(***************************************************************************)
EXTENDS Scrub

CONSTANTS
  Visibilities, \* what a reader may see: [objects, scopes], each a set or None
  MaxReads,     \* how many reads are made
  MaxDropped    \* how many rows retention drops

ASSUME ReadBoundsAssumption == MaxReads \in Nat /\ MaxDropped \in Nat

VARIABLES
  dropped, \* the rows whose partitions retention has dropped
  reader,  \* the read in progress
  shown,   \* what the last read returned
  reads    \* how many were made

readingVars == <<dropped, reader, shown, reads>>
allVars == <<log, requests, call, dropped, reader, shown, reads>>

------------------------------------------------------------------------------
(* Visibility.                                                             *)

\* A column that is NULL passes no restriction.
BugAllowed(value, allowed) == allowed = None \/ value = None \/ value \in allowed
Allowed(value, allowed) == allowed = None \/ (value # None /\ value \in allowed)

\* Visibility.predicate.
Predicate(row, v) == Allowed(row.object, v.objects) /\ Allowed(row.scope, v.scopes)

\* The entries a statement finds now.
Visible(v) ==
  {i \in DOMAIN log : log[i].kind = "entry" /\ i \notin dropped /\ Predicate(log[i], v)}

\* The label of an entry is erased with its values; an audit.scrubbed entry
\* has none.
Label(i) == ~log[i].system /\ log[i].values = "kept"

\* LabelResolver: the newest labelled entry of the object the reader may see;
\* 0 stands for the fallback, the bare id.
Labelled(object, v) == {i \in Visible(v) : log[i].object = object /\ Label(i)}
LabelOf(object, v) == IF Labelled(object, v) = {} THEN 0 ELSE Max(Labelled(object, v))

------------------------------------------------------------------------------
\* Between reads.
NoRead == [at |-> "none", v |-> None, txs |-> {}, rows |-> <<>>, done |-> {}]
Nothing == [rows |-> <<>>, headers |-> <<>>, v |-> None, done |-> {}, label |-> 0]

ReadingInit ==
  /\ Init
  /\ dropped = {} /\ reader = NoRead /\ shown = Nothing /\ reads = 0

\* Stage 1 of a page, or get's id and created_at, which the caller may have
\* from an earlier listing: the transactions to show.
StartRead ==
  /\ reader.at = "none" /\ reads < MaxReads
  /\ \E v \in Visibilities :
       reader' = [NoRead EXCEPT !.at = "entries", !.v = v, !.done = Finished,
                                !.txs = {log[i].tx : i \in Visible(v)}]
  /\ reads' = reads + 1
  /\ shown' = Nothing
  /\ UNCHANGED <<log, requests, call, dropped>>

\* Stage 2 reads the entries again, under the same visibility.
EntriesOf(txs, v) == {i \in Visible(v) : log[i].tx \in txs}
ReadEntries ==
  /\ reader.at = "entries"
  /\ reader' = [reader EXCEPT !.at = "headers",
       !.rows = [i \in EntriesOf(reader.txs, reader.v) |-> log[i]]]
  /\ UNCHANGED <<log, requests, call, dropped, shown, reads>>

\* The header of a transaction: its row, else the snapshot of its earliest
\* entry among those read.
Header(t, rows) ==
  LET first == Min({i \in DOMAIN rows : rows[i].tx = t}) IN
  IF t \in dropped
  THEN [from |-> "snapshot", actor |-> rows[first].actor,
        personal |-> rows[first].personal, scope |-> rows[first].scope]
  ELSE [from |-> "row", actor |-> log[t].actor, personal |-> log[t].personal,
        scope |-> rows[first].scope]

\* A transaction whose entries are gone by now is left out, not one whose own
\* row is.
Found(rows) == {rows[i].tx : i \in DOMAIN rows}
ReadHeaders ==
  /\ reader.at = "headers"
  /\ shown' = [Nothing EXCEPT !.rows = reader.rows, !.v = reader.v, !.done = reader.done,
                              !.headers = [t \in Found(reader.rows) |-> Header(t, reader.rows)]]
  /\ reader' = NoRead
  /\ UNCHANGED <<log, requests, call, dropped, reads>>

\* LabelResolver.resolve is one statement.
Resolve(object) ==
  /\ reader.at = "none" /\ reads < MaxReads
  /\ \E v \in Visibilities :
       shown' = [Nothing EXCEPT !.v = v, !.done = Finished,
                                !.label = LabelOf(object, v)]
  /\ reads' = reads + 1
  /\ UNCHANGED <<log, requests, call, dropped, reader>>

\* drop_expired drops a transaction partition before the entries' (module
\* Partitions); an entry of a kept severity outlives its transaction row.
Drop ==
  /\ Cardinality(dropped) < MaxDropped
  /\ \E i \in DOMAIN log \ dropped :
       /\ log[i].kind = "entry" => log[i].tx \in dropped
       /\ dropped' = dropped \cup {i}
  /\ UNCHANGED <<log, requests, call, reader, shown, reads>>

ReadingNext ==
  \/ Next /\ UNCHANGED readingVars
  \/ StartRead \/ ReadEntries \/ ReadHeaders \/ Drop
  \/ \E object \in {r.object : r \in UNION {Range(q.entries) : q \in Requests}} :
       Resolve(object)

ReadingSpec == ReadingInit /\ [][ReadingNext]_allVars

------------------------------------------------------------------------------
(* Properties.                                                             *)

MaySee(v, row) ==
  /\ v.objects # None => row.object \in v.objects
  /\ v.scopes # None => row.scope \in v.scopes

ShownRows == {shown.rows[i] : i \in DOMAIN shown.rows}

\* The type of the state, with that of a reader: what is shown has a header for
\* each transaction with an entry, and none for another.
ReadingTypeOK ==
  /\ TypeOK
  /\ dropped \subseteq DOMAIN log /\ reads \in 0..MaxReads
  /\ reader.at \in {"none", "entries", "headers"}
  /\ DOMAIN reader.rows \cup DOMAIN shown.rows \subseteq DOMAIN log
  /\ DOMAIN shown.headers = {r.tx : r \in ShownRows}

\* Nothing hidden is shown: every entry, the entry a label is taken from and
\* the scope a header names are ones the reader may see, however its
\* transaction is shared with entries of other scopes or without one.
NothingHiddenIsShown ==
  /\ \A r \in ShownRows : MaySee(shown.v, r)
  /\ \A t \in DOMAIN shown.headers :
       shown.v.scopes # None => shown.headers[t].scope \in shown.v.scopes
  /\ shown.label # 0 => MaySee(shown.v, log[shown.label])

\* The entries a call was asked to erase in, and the headers: a transaction's
\* row only if all its entries are in the scopes, a snapshot with its entry's.
AskedFor(o, row) ==
  /\ Within(row.scope, o.scopes)
  /\ IF o.kind = "scrub"
     THEN /\ ~row.system
          /\ o.object = row.object \/ (o.targets /\ o.object = row.target)
          /\ o.since <= row.at
     ELSE row.actor = o.actor
HeaderAskedFor(o, t, header) ==
  /\ o.kind = "scrub_actor" /\ header.actor = o.actor
  /\ IF header.from = "row"
     THEN \A j \in Entries(log, t) : Within(log[j].scope, o.scopes)
     ELSE Within(header.scope, o.scopes)

\* A scrub reaches the reader: a read that begins after a scrub has committed
\* shows nothing of what the scrub was asked to erase and was there when it
\* began: no values of an entry of the object or, with targets, of a child's,
\* and no label taken from one; no personal context in an entry of the actor,
\* in the header of a transaction whose row is there, or in a header rebuilt
\* from an entry.
ErasedIsNotShown ==
  \A c \in shown.done :
    LET o == call[c].op IN
    /\ \A i \in DOMAIN shown.rows :
         (i <= call[c].start /\ AskedFor(o, shown.rows[i])) =>
           IF o.kind = "scrub" THEN shown.rows[i].values # "kept"
                               ELSE shown.rows[i].personal # "kept"
    /\ (o.kind = "scrub" /\ shown.label # 0 /\ AskedFor(o, log[shown.label])) =>
         shown.label > call[c].start
    /\ \A t \in DOMAIN shown.headers :
         (t <= call[c].start /\ HeaderAskedFor(o, t, shown.headers[t])) =>
           shown.headers[t].personal # "kept"
================================================================================
