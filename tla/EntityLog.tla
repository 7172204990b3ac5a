------------------------------- MODULE EntityLog -------------------------------
(***************************************************************************)
(* The entity.* rows that the flushes of one database transaction write    *)
(* about some objects (listener.py, diff.py), and the net change readers   *)
(* are shown instead (_compaction.py).                                     *)
(*                                                                         *)
(* An object has one plain column, one "redact" column and one tracked     *)
(* collection; a flush changes one object.  Labels, targets, severities    *)
(* and contexts are left out: a merged row takes the last one's.           *)
(***************************************************************************)
EXTENDS Naturals, Sequences, FiniteSets, SequencesExt

CONSTANTS
  Objects, Actors, Scopes,
  Values,       \* values of the plain column
  Secrets,      \* values of the "redact" column
  Items,        \* ids of collection members
  MaxFlushes    \* bound: flushes of the transaction

VARIABLES
  before,   \* the objects when the transaction began
  object,   \* the objects as flushed
  log,      \* the rows written, in the order of their ids
  flushes,  \* number of flushes
  switched  \* history: the objects deleted and re-added in one flush

vars == <<before, object, log, flushes, switched>>

\* JSON null and the markers of diff.py; no plain column holds a marker's text.
Null == "null"
Redacted == "***"
Erased == "[erased]"
Markers == {Redacted, Erased}

ASSUME ValuesAssumption == Values \cap Markers = {}
\* A collection has finitely many members.
ASSUME ItemsAssumption == IsFiniteSet(Items)

\* A deleted object keeps the collection it had.
ObjectState == [exists : BOOLEAN, col : Values, secret : Secrets, rel : SUBSET Items]

\* A column absent from data.changes, and a collection absent from it.
NoField == <<>>
NoChange == [added |-> {}, removed |-> {}, erasedAdded |-> 0, erasedRemoved |-> 0]

-----------------------------------------------------------------------------
(* diff.entity_changes: one column of each kind of entry. *)

Redact(v) == IF v = Null THEN Null ELSE Redacted

Changed(old, new) == IF old = new THEN NoField ELSE <<old, new>>

\* Raw values are compared before they are redacted.
ChangedSecret(old, new) ==
  IF old = new THEN NoField ELSE <<Redact(old), Redact(new)>>

RelationChange(old, new) ==
  [NoChange EXCEPT !.added = new \ old, !.removed = old \ new]

EntryRow(id, o, verb, author, col, secret, rel) ==
  [id |-> id, object |-> o, verb |-> verb, actor |-> author.actor,
   scope |-> author.scope, col |-> col, secret |-> secret, rel |-> rel]

CreatedRow(id, o, author, new) ==
  EntryRow(id, o, "created", author, <<Null, new.col>>,
           <<Null, Redact(new.secret)>>, RelationChange({}, new.rel))

UpdatedRow(id, o, author, old, new) ==
  EntryRow(id, o, "updated", author, Changed(old.col, new.col),
           ChangedSecret(old.secret, new.secret), RelationChange(old.rel, new.rel))

\* The delta of a deleted instance is dropped.
DeletedRow(id, o, author, old) ==
  EntryRow(id, o, "deleted", author, <<old.col, Null>>,
           <<Redact(old.secret), Null>>, NoChange)

-----------------------------------------------------------------------------
Authors == [actor : Actors, scope : Scopes]
NextId == Len(log) + 1

Init ==
  /\ before \in [Objects -> ObjectState]
  /\ \A o \in Objects : ~before[o].exists => before[o].rel = {}
  /\ object = before
  /\ log = <<>>
  /\ flushes = 0
  /\ switched = {}

Flushed(o, new, rows) ==
  /\ flushes < MaxFlushes
  /\ flushes' = flushes + 1
  /\ object' = [object EXCEPT ![o] = new]
  /\ log' = log \o rows
  /\ UNCHANGED before

Insert(o, new, author) ==
  /\ ~object[o].exists /\ new.exists
  /\ Flushed(o, new, <<CreatedRow(NextId, o, author, new)>>)
  /\ UNCHANGED switched

\* An update without a change writes no entry.
Update(o, new, author) ==
  /\ object[o].exists /\ new.exists
  /\ new # object[o]
  /\ Flushed(o, new, <<UpdatedRow(NextId, o, author, object[o], new)>>)
  /\ UNCHANGED switched

Delete(o, author) ==
  /\ object[o].exists
  /\ Flushed(o, [object[o] EXCEPT !.exists = FALSE],
             <<DeletedRow(NextId, o, author, object[o])>>)
  /\ UNCHANGED switched

\* session.delete(old) and session.add(new) with the same id in one flush, which
\* the unit of work turns into an UPDATE.  _entries walks session.new before
\* session.deleted.  (Objects without members.)
Replace(o, new, author) ==
  /\ object[o].exists /\ new.exists
  /\ object[o].rel = {} /\ new.rel = {}
  /\ Flushed(o, new, <<CreatedRow(NextId, o, author, new),
                       DeletedRow(NextId + 1, o, author, object[o])>>)
  /\ switched' = switched \cup {o}

Next ==
  \E o \in Objects, author \in Authors :
    \/ \E new \in ObjectState : Insert(o, new, author)
    \/ \E new \in ObjectState : Update(o, new, author)
    \/ Delete(o, author)
    \/ \E new \in ObjectState : Replace(o, new, author)

Spec == Init /\ [][Next]_vars

-----------------------------------------------------------------------------
(***************************************************************************)
(* _compaction.py.                                                         *)
(***************************************************************************)

BugNoReinsert(previous, current) == previous # "deleted" /\ current # "created"

MayFollow(previous, current) ==
  IF previous = "deleted" THEN current = "created" ELSE current # "created"

HasRelation(row) == row.rel # NoChange

\* A group is the set of the rows of an object; their ids order it.
GroupOf(rows, o) == {r \in Range(rows) : r.object = o}
Earliest(group) == CHOOSE r \in group : \A s \in group : r.id <= s.id
Latest(group) == CHOOSE r \in group : \A s \in group : s.id <= r.id
Adjacent(group, r, s) ==
  r.id < s.id /\ \A t \in group : t.id <= r.id \/ s.id <= t.id

Reinserts(group) ==
  \E r, s \in group : Adjacent(group, r, s) /\ r.verb = "deleted" /\ s.verb = "created"

CanCompact(group) ==
  /\ \A r, s \in group : r.actor = s.actor
  /\ \A r, s \in group : Adjacent(group, r, s) => MayFollow(r.verb, s.verb)
  /\ ~(Reinserts(group) /\ \E r \in group : HasRelation(r))

BugEqualMarkers(pair) == pair[1] = pair[2]

\* A marker hides whether the value changed.
Unchanged(pair) == pair[1] = pair[2] /\ pair[1] \notin Markers

\* First old, last new.
MergedColumn(group, field, verb) ==
  LET changed == {r \in group : r[field] # NoField}
      pair == <<Earliest(changed)[field][1], Latest(changed)[field][2]>>
  IN IF changed = {} \/ (verb = "updated" /\ Unchanged(pair)) THEN NoField ELSE pair

\* Removals, then additions; an id cancels the opposite one recorded before,
\* erased ids only add up.
MergeRelation(delta, change) ==
  LET added == delta.added \ change.removed
      removed == delta.removed \cup (change.removed \ delta.added)
  IN [added |-> added \cup (change.added \ removed),
      removed |-> removed \ change.added,
      erasedAdded |-> delta.erasedAdded + change.erasedAdded,
      erasedRemoved |-> delta.erasedRemoved + change.erasedRemoved]

\* The changes of all rows, the last one's merged into those before it.
MergedRelation(group) ==
  MapThenFoldSet(LAMBDA change, delta : MergeRelation(delta, change), NoChange,
                 LAMBDA r : r.rel, Latest, group)

MergedVerb(group) ==
  IF Earliest(group).verb = "created" THEN "created"
  ELSE IF Latest(group).verb = "deleted" THEN "deleted" ELSE "updated"

MergedRow(group) ==
  EntryRow(Earliest(group).id, Earliest(group).object, MergedVerb(group),
           [actor |-> Earliest(group).actor, scope |-> Latest(group).scope],
           MergedColumn(group, "col", MergedVerb(group)),
           MergedColumn(group, "secret", MergedVerb(group)), MergedRelation(group))

\* The merged row, or none: of an object that was only there for a while, and
\* of an update that leaves no field.
Merge(group) ==
  LET row == MergedRow(group) IN
  IF \/ Earliest(group).verb = "created" /\ Latest(group).verb = "deleted"
     \/ row.verb = "updated" /\ row.col = NoField /\ row.secret = NoField /\ ~HasRelation(row)
  THEN {} ELSE {row}

BugFirstPlace(rows, i) ==
  LET group == GroupOf(rows, rows[i].object) IN
  IF group = {rows[i]} \/ ~CanCompact(group) THEN {rows[i]}
  ELSE IF \A j \in DOMAIN rows : rows[j] \in group => i <= j THEN Merge(group) ELSE {}

BugKeepsMerged(rows, i) ==
  LET group == GroupOf(rows, rows[i].object) IN
  IF group = {rows[i]} \/ ~CanCompact(group) THEN {rows[i]}
  ELSE IF rows[i] = Earliest(group) THEN Merge(group) ELSE {rows[i]}

\* What takes the place of a row: the merged one that of the lowest id.
Placed(rows, i) ==
  LET group == GroupOf(rows, rows[i].object) IN
  IF group = {rows[i]} \/ ~CanCompact(group) THEN {rows[i]}
  ELSE IF rows[i] = Earliest(group) THEN Merge(group) ELSE {}

\* compact_rows: what takes a row's place stands in the row's order.
Nth(S, k) == CHOOSE i \in S : Cardinality({j \in S : j <= i}) = k
Compact(rows) ==
  LET kept == {i \in DOMAIN rows : Placed(rows, i) # {}}
  IN [k \in 1 .. Cardinality(kept) |-> CHOOSE r \in Placed(rows, Nth(kept, k)) : TRUE]

-----------------------------------------------------------------------------
(* privacy._ERASED_CHANGES: what a scrub leaves of a row. *)

EraseValue(v) == IF v = Null THEN Null ELSE Erased
EraseField(pair) ==
  IF pair = NoField THEN NoField ELSE <<EraseValue(pair[1]), EraseValue(pair[2])>>

EraseRow(row) ==
  [row EXCEPT
    !.col = EraseField(row.col),
    !.secret = EraseField(row.secret),
    !.rel = [NoChange EXCEPT !.erasedAdded = Cardinality(row.rel.added) + row.rel.erasedAdded,
                             !.erasedRemoved = Cardinality(row.rel.removed) + row.rel.erasedRemoved]]

\* scrub of the object o, restricted to scopes.
Scrub(rows, o, scopes) ==
  [i \in DOMAIN rows |->
     IF rows[i].object = o /\ rows[i].scope \in scopes THEN EraseRow(rows[i]) ELSE rows[i]]

-----------------------------------------------------------------------------

ShownOf(rows, o) == GroupOf(Compact(rows), o)

\* The difference between two states of an object, as a row.
Touched(o) == \E r \in GroupOf(log, o) : r.secret # NoField
NetVerb(o) ==
  IF before[o].exists THEN (IF object[o].exists THEN "updated" ELSE "deleted")
  ELSE (IF object[o].exists THEN "created" ELSE "none")

NetSecret(o) ==
  LET old == IF before[o].exists THEN Redact(before[o].secret) ELSE Null
      new == IF object[o].exists THEN Redact(object[o].secret) ELSE Null
  IN IF NetVerb(o) = "updated" /\ (~Touched(o) \/ (old = Null /\ new = Null))
     THEN NoField ELSE <<old, new>>

NetCol(o) ==
  LET old == IF before[o].exists THEN before[o].col ELSE Null
      new == IF object[o].exists THEN object[o].col ELSE Null
  IN IF NetVerb(o) = "updated" THEN Changed(old, new) ELSE <<old, new>>

Readded(o) ==
  \E r, s \in GroupOf(log, o) : r.id < s.id /\ r.verb = "deleted" /\ s.verb = "created"

\* The members an object had before it was deleted are not in its rows, so
\* nothing is shown of them when it comes back without any.
NetRel(o) == IF Readded(o) THEN NoChange ELSE RelationChange(before[o].rel, object[o].rel)

\* What a reader is shown of an object is the difference between it before the
\* transaction and after, or nothing if there is none; the rows of several
\* actors, and of a re-inserted object with members, are shown as they are.
ShownNet(o) ==
  LET group == GroupOf(log, o)
      shown == ShownOf(log, o)
      raw == \/ \E r, s \in group : r.actor # s.actor
             \/ Readded(o) /\ \E r \in group : HasRelation(r)
      none == \/ NetVerb(o) = "none"
              \/ /\ NetVerb(o) = "updated" /\ NetCol(o) = NoField
                 /\ NetSecret(o) = NoField /\ NetRel(o) = NoChange
  IN IF group = {} THEN shown = {}
     ELSE IF raw THEN shown = group
     ELSE IF none THEN shown = {}
     ELSE \E r \in shown : /\ shown = {r}
                          /\ r.verb = NetVerb(o) /\ r.col = NetCol(o)
                          /\ r.secret = NetSecret(o) /\ r.rel = NetRel(o)

\* docs/guides/querying.md, "merged into the net change of the transaction":
\* this is so whatever the flushes did in between.
NetChange == \A o \in Objects : ShownNet(o)

\* So it is of every object no flush deleted and re-added at once.
NetChangeUnlessSwitched == \A o \in Objects \ switched : ShownNet(o)

\* _compaction.py: "Compacting a compacted result changes nothing", scrubbed
\* in part or not.
Idempotent ==
  \A o \in Objects, scopes \in SUBSET Scopes :
    LET once == Compact(Scrub(log, o, scopes)) IN Compact(once) = once

\* Rows read newest first are merged like rows read oldest first, and stay
\* sorted (object_history and list_groups read in opposite directions).
DirectionKept == Compact(Reverse(log)) = Reverse(Compact(log))

\* A scrub never hides that something changed: every field shown before it
\* is shown after it, and an object shown stays shown.
ErasedStillShown ==
  \A o \in Objects, scopes \in SUBSET Scopes :
    \A r \in ShownOf(log, o) : \E s \in ShownOf(Scrub(log, o, scopes), o) :
      /\ s.id = r.id /\ s.verb = r.verb
      /\ r.col # NoField => s.col # NoField
      /\ r.secret # NoField => s.secret # NoField
      /\ HasRelation(r) => HasRelation(s)

=============================================================================
