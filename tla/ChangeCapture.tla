----------------------------- MODULE ChangeCapture -----------------------------
(***************************************************************************)
(* What the listener knows about one persistent instance between flushes:  *)
(* the delta of a tracked collection (relations.py) and the copy of a      *)
(* snapshot_on_load column (mixin.py), kept in InstanceState.info beside   *)
(* what the ORM keeps itself.  A session opens savepoints, expires the     *)
(* instance and switches capture off and on.                               *)
(***************************************************************************)
EXTENDS Naturals

CONSTANTS
  Items,           \* what may be a member of the collection
  Docs,            \* values of the snapshot column
  MaxCopies,       \* how often a list collection holds one member
  MayToggle,       \* whether the host switches capture off and on
  ExpireOnCommit,  \* Session(expire_on_commit=...)
  MaxDepth,        \* bound: open SessionTransactions, the root included
  Expired, Missing, Unset, NoValue   \* model values

ASSUME BoundsAssumption == MaxCopies \in Nat \ {0} /\ MaxDepth \in Nat \ {0}

ASSUME MarkersAssumption ==
  /\ {Expired, Missing, Unset, NoValue} \cap Docs = {}
  /\ Expired # Missing /\ Unset # NoValue

VARIABLES
  db,         \* the row and its members as flushed
  saves,      \* db when each open SessionTransaction began
  dirtyIn,    \* whether each of them flushed the instance (its _dirty)
  depth,      \* the innermost one; 1 is the root
  members,    \* the collection in memory: copies of each member
  doc,        \* the column in memory, Expired if it is to be loaded
  committed,  \* committed_state of the column: Unset, NoValue (changed in
              \* place) or the value an assignment replaced
  modified,   \* InstanceState.modified: the instance is in session.dirty
  delta,      \* state.info["audit_trail.relations"]
  snapshot,   \* state.info["audit_trail.snapshot"], or Missing
  captureOn,  \* session.info["audit_enabled"]
  since,      \* history: the members in the database when delta was last emptied
  silent,     \* history: a flush was not captured and its traces may remain
  last        \* history: the last captured flush

orm == <<db, saves, dirtyIn, depth, members, doc, committed, modified>>
audit == <<delta, snapshot, captureOn, since, silent, last>>
vars == <<db, saves, dirtyIn, depth, members, doc, committed, modified,
          delta, snapshot, captureOn, since, silent, last>>

DbState == [rel : SUBSET Items, doc : Docs]
Depths == 1..MaxDepth

\* The members of a collection, and the collection a load puts in memory.
MembersOf(copies) == {i \in Items : copies[i] > 0}
Loaded(set) == [i \in Items |-> IF i \in set THEN 1 ELSE 0]

Change(old, new) ==
  [added |-> new.rel \ old.rel, removed |-> old.rel \ new.rel,
   doc |-> IF old.doc = new.doc THEN <<>> ELSE <<old.doc, new.doc>>]

-----------------------------------------------------------------------------
(* _Delta, _on_expire, _take_snapshot. *)

EmptyDelta == [added |-> {}, removed |-> {}]

BugNeverCancels(d, i) == [d EXCEPT !.added = @ \cup {i}]

Appended(d, i) ==
  IF i \in d.removed THEN [d EXCEPT !.removed = @ \ {i}]
  ELSE [d EXCEPT !.added = @ \cup {i}]

BugForgetsRemoval(d, i) == [d EXCEPT !.added = @ \ {i}]

Removed(d, i) ==
  IF i \in d.added THEN [d EXCEPT !.added = @ \ {i}]
  ELSE [d EXCEPT !.removed = @ \cup {i}]

BugExpireKeeps(d) == d

\* _on_expire, discard_relationship_changes.
Discarded(d) == EmptyDelta

\* refresh_snapshot.
Refreshed(value, old) == IF value = Expired THEN Missing ELSE value

\* entity_changes, kind "updated": NoValue is a history without a deleted value.
OldDoc == IF committed = NoValue THEN snapshot ELSE committed
DocChange ==
  IF committed = Unset \/ OldDoc = doc THEN <<>> ELSE <<OldDoc, doc>>

Captured == [added |-> delta.added, removed |-> delta.removed, doc |-> DocChange]

-----------------------------------------------------------------------------
Init ==
  /\ db \in DbState
  /\ saves = [k \in Depths |-> db]
  /\ dirtyIn = [k \in Depths |-> FALSE]
  /\ depth = 1
  /\ members = Loaded(db.rel)
  /\ doc = db.doc
  /\ committed = Unset
  /\ modified = FALSE
  /\ delta = EmptyDelta
  /\ snapshot = doc
  /\ captureOn = TRUE
  /\ since = db.rel
  /\ silent = FALSE
  /\ last = [entry |-> Change(db, db), effect |-> Change(db, db), silent |-> FALSE]

AddMember(i) ==
  /\ members[i] < MaxCopies
  /\ members' = [members EXCEPT ![i] = @ + 1]
  /\ delta' = Appended(delta, i)
  /\ modified' = TRUE
  /\ UNCHANGED <<db, saves, dirtyIn, depth, doc, committed,
                 snapshot, captureOn, since, silent, last>>

RemoveMember(i) ==
  /\ members[i] > 0
  /\ members' = [members EXCEPT ![i] = @ - 1]
  /\ delta' = Removed(delta, i)
  /\ modified' = TRUE
  /\ UNCHANGED <<db, saves, dirtyIn, depth, doc, committed,
                 snapshot, captureOn, since, silent, last>>

\* A load of the expired column runs _on_refresh.
LoadDoc ==
  /\ doc = Expired
  /\ doc' = db.doc
  /\ snapshot' = db.doc
  /\ UNCHANGED <<db, saves, dirtyIn, depth, members, committed, modified,
                 delta, captureOn, since, silent, last>>

\* active_history loads the old value before it is replaced; the first change
\* since the flush decides committed_state.
AssignDoc(new) ==
  /\ doc # Expired
  /\ doc' = new
  /\ committed' = IF committed = Unset THEN doc ELSE committed
  /\ modified' = TRUE
  /\ UNCHANGED <<db, saves, dirtyIn, depth, members,
                 delta, snapshot, captureOn, since, silent, last>>

\* MutableDict: flag_modified.
MutateDoc(new) ==
  /\ doc # Expired
  /\ doc' = new
  /\ committed' = NoValue
  /\ modified' = TRUE
  /\ UNCHANGED <<db, saves, dirtyIn, depth, members,
                 delta, snapshot, captureOn, since, silent, last>>

\* The flush writes what is in memory; after_flush runs before the ORM
\* forgets the history.
Flush ==
  LET flushed == [rel |-> MembersOf(members),
                  doc |-> IF doc = Expired THEN db.doc ELSE doc]
  IN /\ modified
     /\ db' = flushed
     /\ dirtyIn' = [dirtyIn EXCEPT ![depth] = TRUE]
     /\ committed' = Unset
     /\ modified' = FALSE
     /\ \/ /\ captureOn
           /\ last' = [entry |-> Captured, effect |-> Change(db, flushed), silent |-> silent]
           /\ delta' = EmptyDelta
           /\ snapshot' = Refreshed(doc, snapshot)
           /\ since' = flushed.rel
           /\ silent' = FALSE
        \/ /\ ~captureOn
           /\ silent' = TRUE
           /\ UNCHANGED <<last, delta, snapshot, since>>
     /\ UNCHANGED <<saves, depth, members, doc, captureOn>>

ToggleCapture ==
  /\ MayToggle
  /\ captureOn' = ~captureOn
  /\ UNCHANGED <<orm, delta, snapshot, since, silent, last>>

\* The whole instance is expired, its row being r.
ExpireAll(r) ==
  /\ members' = Loaded(r.rel)
  /\ doc' = Expired
  /\ committed' = Unset
  /\ modified' = FALSE
  /\ delta' = Discarded(delta)
  /\ since' = r.rel
  /\ silent' = FALSE

\* Session.expire(obj); refresh(obj) is this and LoadDoc.
Expire ==
  /\ ExpireAll(db)
  /\ UNCHANGED <<db, saves, dirtyIn, depth, snapshot, captureOn, last>>

\* Session.expire(obj, [attribute]).
ExpireMembers ==
  /\ members' = Loaded(db.rel)
  /\ delta' = Discarded(delta)
  /\ since' = db.rel
  /\ UNCHANGED <<db, saves, dirtyIn, depth, doc, committed, modified,
                 snapshot, captureOn, silent, last>>

ExpireDoc ==
  /\ doc' = Expired
  /\ committed' = Unset
  /\ UNCHANGED <<db, saves, dirtyIn, depth, members, modified, audit>>

\* begin_nested, the end of a savepoint and commit flush first.
BeginNested ==
  /\ ~modified
  /\ depth < MaxDepth
  /\ depth' = depth + 1
  /\ saves' = [saves EXCEPT ![depth + 1] = db]
  /\ dirtyIn' = [dirtyIn EXCEPT ![depth + 1] = FALSE]
  /\ UNCHANGED <<db, members, doc, committed, modified, audit>>

Release ==
  /\ ~modified
  /\ depth > 1
  /\ depth' = depth - 1
  /\ dirtyIn' = [dirtyIn EXCEPT ![depth - 1] = @ \/ dirtyIn[depth]]
  /\ UNCHANGED <<db, saves, members, doc, committed, modified, audit>>

\* Expires the instance only if it was changed in the savepoint; _after_rollback
\* drops its delta in any case.
RollbackNested ==
  /\ depth > 1
  /\ depth' = depth - 1
  /\ db' = saves[depth]
  /\ \/ /\ modified \/ dirtyIn[depth]
        /\ ExpireAll(saves[depth])
     \/ /\ ~modified /\ ~dirtyIn[depth]
        /\ delta' = Discarded(delta)
        /\ since' = saves[depth].rel
        /\ UNCHANGED <<members, doc, committed, modified, silent>>
  /\ UNCHANGED <<saves, dirtyIn, snapshot, captureOn, last>>

Rollback ==
  /\ depth' = 1
  /\ db' = saves[1]
  /\ dirtyIn' = [dirtyIn EXCEPT ![1] = FALSE]
  /\ ExpireAll(saves[1])
  /\ UNCHANGED <<saves, snapshot, captureOn, last>>

Commit ==
  /\ ~modified
  /\ depth = 1
  /\ saves' = [saves EXCEPT ![1] = db]
  /\ dirtyIn' = [dirtyIn EXCEPT ![1] = FALSE]
  /\ \/ ExpireOnCommit /\ ExpireAll(db)
     \/ /\ ~ExpireOnCommit
        /\ UNCHANGED <<members, doc, committed, modified, delta, since, silent>>
  /\ UNCHANGED <<db, depth, snapshot, captureOn, last>>

Next ==
  \/ \E i \in Items : AddMember(i) \/ RemoveMember(i)
  \/ \E new \in Docs : AssignDoc(new) \/ MutateDoc(new)
  \/ LoadDoc
  \/ Flush
  \/ ToggleCapture
  \/ Expire \/ ExpireMembers \/ ExpireDoc
  \/ BeginNested \/ Release \/ RollbackNested
  \/ Rollback \/ Commit

Spec == Init /\ [][Next]_vars

-----------------------------------------------------------------------------
Delta == [added : SUBSET Items, removed : SUBSET Items]

TypeOK ==
  /\ db \in DbState
  /\ saves \in [Depths -> DbState]
  /\ dirtyIn \in [Depths -> BOOLEAN]
  /\ depth \in Depths
  /\ members \in [Items -> 0..MaxCopies]
  /\ doc \in Docs \cup {Expired}
  /\ committed \in Docs \cup {Unset, NoValue}
  /\ modified \in BOOLEAN
  /\ delta \in Delta
  /\ snapshot \in Docs \cup {Missing}
  /\ captureOn \in BOOLEAN
  /\ since \in SUBSET Items
  /\ silent \in BOOLEAN

\* RelationshipChange, "net change of one tracked collection": whatever is
\* added, removed, expired, flushed or rolled back, the pending delta is the
\* difference between the database when it was last emptied and the memory.
DeltaIsNet ==
  /\ delta.added = MembersOf(members) \ since
  /\ delta.removed = since \ MembersOf(members)

\* An entry says what its flush changed in the database, unless the traces of
\* a flush that was not captured were still there (the old value of a column
\* changed in place is never unknown).
EntryIsChange == ~last.silent => last.entry = last.effect

\* The ORM's history of the column: what an assignment replaced is what the
\* database holds; without unflushed changes memory and database agree.
HistoryKnown ==
  /\ committed = Unset => doc \in {Expired, db.doc}
  /\ committed # Unset => doc # Expired
  /\ committed \in Docs => committed = db.doc
  /\ ~modified => committed = Unset /\ MembersOf(members) = db.rel

\* Nothing pending describes an older database than the one it is compared
\* with, unless a flush was not captured.
NothingStale ==
  /\ doc # Expired => snapshot # Missing
  /\ ~silent => since = db.rel /\ (doc # Expired => snapshot = db.doc)

\* A savepoint that did not flush the instance began with what is there now.
SavepointsKnown ==
  \A k \in Depths :
    k <= depth /\ ~dirtyIn[k] =>
      saves[k] = IF k = depth THEN db ELSE saves[k + 1]

\* The inductive invariant behind DeltaIsNet and EntryIsChange.
IInv ==
  /\ TypeOK
  /\ DeltaIsNet
  /\ HistoryKnown
  /\ NothingStale
  /\ SavepointsKnown
  /\ EntryIsChange

\* relations.py, "Net change of one tracked collection since the last flush",
\* and mixin.py, "the flushed values are the new committed state, and the next
\* in-place change must be compared with them".
EntryIsChangeSinceLastFlush == last.entry = last.effect

=============================================================================
