-------------------------- MODULE ChangeCaptureProofs --------------------------
(***************************************************************************)
(* Proofs about ChangeCapture, for every set of members, all values of the *)
(* column and any number of savepoints.                                    *)
(***************************************************************************)
EXTENDS ChangeCapture, TLAPS

\* What a load puts in memory are the members it read.
LEMMA MembersLoaded ==
  ASSUME NEW S \in SUBSET Items
  PROVE  /\ Loaded(S) \in [Items -> 0..MaxCopies]
         /\ MembersOf(Loaded(S)) = S
  <1>1. 0 \in 0..MaxCopies /\ 1 \in 0..MaxCopies
      BY BoundsAssumption
  <1>2. Loaded(S) \in [Items -> 0..MaxCopies]
      BY <1>1 DEF Loaded
  <1>3. \A i \in Items : Loaded(S)[i] > 0 <=> i \in S
      BY DEF Loaded
  <1> QED
      BY <1>2, <1>3 DEF MembersOf

\* _Delta keeps its two sides within the members.
LEMMA DeltaTyped ==
  ASSUME NEW d \in Delta, NEW i \in Items
  PROVE  Appended(d, i) \in Delta /\ Removed(d, i) \in Delta
  BY DEF Delta, Appended, Removed

\* An expired instance is well typed.
LEMMA ExpiredTyped ==
  ASSUME NEW r \in DbState, ExpireAll(r)
  PROVE  /\ members' \in [Items -> 0..MaxCopies]
         /\ MembersOf(members') = r.rel
         /\ doc' = Expired /\ committed' = Unset /\ modified' = FALSE
         /\ delta' \in Delta
         /\ delta'.added = {} /\ delta'.removed = {}
         /\ since' = r.rel /\ since' \in SUBSET Items
         /\ silent' = FALSE
  BY MembersLoaded DEF ExpireAll, DbState, Discarded, EmptyDelta, Delta

-----------------------------------------------------------------------------
LEMMA InitTyped == Init => TypeOK
  <1> SUFFICES ASSUME Init PROVE TypeOK
      OBVIOUS
  <1>1. Loaded(db.rel) \in [Items -> 0..MaxCopies]
      BY MembersLoaded DEF Init, DbState
  <1>2. depth \in Depths
      BY BoundsAssumption DEF Init, Depths
  <1>3. db \in DbState /\ db.rel \in SUBSET Items /\ db.doc \in Docs
      BY DEF Init, DbState
  <1>4. saves \in [Depths -> DbState] /\ dirtyIn \in [Depths -> BOOLEAN]
      BY <1>3 DEF Init
  <1>5. delta \in Delta
      BY DEF Init, EmptyDelta, Delta
  <1> QED
      BY <1>1, <1>2, <1>3, <1>4, <1>5 DEF Init, TypeOK

LEMMA NextTyped == TypeOK /\ [Next]_vars => TypeOK'
  <1> SUFFICES ASSUME TypeOK, [Next]_vars PROVE TypeOK'
      OBVIOUS
  <1> USE DEF TypeOK
  <1>1. ASSUME NEW i \in Items, AddMember(i) PROVE TypeOK'
      BY <1>1, DeltaTyped, BoundsAssumption DEF AddMember
  <1>2. ASSUME NEW i \in Items, RemoveMember(i) PROVE TypeOK'
      BY <1>2, DeltaTyped, BoundsAssumption DEF RemoveMember
  <1>3. ASSUME NEW new \in Docs, AssignDoc(new) PROVE TypeOK'
      BY <1>3 DEF AssignDoc
  <1>4. ASSUME NEW new \in Docs, MutateDoc(new) PROVE TypeOK'
      BY <1>4 DEF MutateDoc
  <1>5. CASE LoadDoc
      BY <1>5 DEF LoadDoc, DbState
  <1>6. CASE Flush
    <2> DEFINE flushed == [rel |-> MembersOf(members),
                           doc |-> IF doc = Expired THEN db.doc ELSE doc]
    <2>1. flushed \in DbState /\ flushed.rel \in SUBSET Items
        BY DEF MembersOf, DbState
    <2>2. db' \in DbState /\ dirtyIn' \in [Depths -> BOOLEAN]
        BY <1>6, <2>1 DEF Flush
    <2>3. delta' \in Delta /\ since' \in SUBSET Items /\ silent' \in BOOLEAN
      <3>1. EmptyDelta \in Delta
          BY DEF EmptyDelta, Delta
      <3>2. CASE captureOn
          BY <1>6, <2>1, <3>1, <3>2 DEF Flush
      <3>3. CASE ~captureOn
          BY <1>6, <3>3 DEF Flush
      <3> QED
          BY <3>2, <3>3
    <2>4. snapshot' \in Docs \cup {Missing}
        BY <1>6 DEF Flush, Refreshed
    <2> QED
        BY <1>6, <2>2, <2>3, <2>4 DEF Flush
  <1>7. CASE ToggleCapture
      BY <1>7 DEF ToggleCapture, orm
  <1>8. CASE Expire
      BY <1>8, ExpiredTyped DEF Expire
  <1>9. CASE ExpireMembers
      BY <1>9, MembersLoaded DEF ExpireMembers, Discarded, EmptyDelta, Delta, DbState
  <1>10. CASE ExpireDoc
      BY <1>10 DEF ExpireDoc, audit
  <1>11. CASE BeginNested
      BY <1>11, BoundsAssumption DEF BeginNested, audit, Depths
  <1>12. CASE Release
      BY <1>12, BoundsAssumption DEF Release, audit, Depths
  <1>13. CASE RollbackNested
    <2>1. saves[depth] \in DbState /\ depth - 1 \in Depths
        BY <1>13, BoundsAssumption DEF RollbackNested, Depths
    <2>2. CASE ExpireAll(saves[depth])
        BY <1>13, <2>1, <2>2, ExpiredTyped DEF RollbackNested
    <2>3. CASE ~modified /\ ~dirtyIn[depth]
        BY <1>13, <2>1, <2>3, ExpiredTyped
        DEF RollbackNested, Discarded, EmptyDelta, Delta, DbState
    <2> QED
        BY <1>13, <2>2, <2>3 DEF RollbackNested
  <1>14. CASE Rollback
    <2>1. saves[1] \in DbState /\ 1 \in Depths
        BY BoundsAssumption DEF Depths
    <2> QED
        BY <1>14, <2>1, ExpiredTyped DEF Rollback
  <1>15. CASE Commit
    <2>1. 1 \in Depths
        BY BoundsAssumption DEF Depths
    <2> QED
        BY <1>15, <2>1, ExpiredTyped DEF Commit
  <1>16. CASE UNCHANGED vars
      BY <1>16 DEF vars
  <1> QED
      BY <1>1, <1>2, <1>3, <1>4, <1>5, <1>6, <1>7, <1>8, <1>9, <1>10, <1>11,
         <1>12, <1>13, <1>14, <1>15, <1>16 DEF Next

\* The state stays well typed: in particular a snapshot is a value of the
\* column or missing, never the mark of an expired one.
THEOREM TypeCorrect == Spec => []TypeOK
  BY InitTyped, NextTyped, PTL DEF Spec

-----------------------------------------------------------------------------
(***************************************************************************)
(* The rest holds of collections that hold a member at most once; a list   *)
(* with two copies of one breaks DeltaIsNet.                               *)
(***************************************************************************)

\* An event changes the delta as it changes the collection.
LEMMA DeltaFollows ==
  ASSUME TypeOK, DeltaIsNet, MaxCopies = 1, NEW i \in Items,
         AddMember(i) \/ RemoveMember(i)
  PROVE  DeltaIsNet'
  <1> USE DEF TypeOK
  <1>1. \A j \in Items : members[j] \in 0..1
      OBVIOUS
  <1>2. CASE AddMember(i)
    <2>1. MembersOf(members)' = MembersOf(members) \cup {i} /\ i \notin MembersOf(members)
      <3>1. members[i] = 0
          BY <1>1, <1>2 DEF AddMember
      <3>2. members'[i] = 1
          BY <1>2, <3>1 DEF AddMember
      <3>3. \A j \in Items \ {i} : members'[j] = members[j]
          BY <1>2 DEF AddMember
      <3> QED
          BY <3>1, <3>2, <3>3 DEF MembersOf
    <2>2. delta' = Appended(delta, i) /\ since' = since
        BY <1>2 DEF AddMember
    <2> QED
        BY <2>1, <2>2 DEF DeltaIsNet, Appended, Delta
  <1>3. CASE RemoveMember(i)
    <2>1. MembersOf(members)' = MembersOf(members) \ {i} /\ i \in MembersOf(members)
      <3>1. members[i] = 1
          BY <1>1, <1>3 DEF RemoveMember
      <3>2. members'[i] = 0
          BY <1>3, <3>1 DEF RemoveMember
      <3>3. \A j \in Items \ {i} : members'[j] = members[j]
          BY <1>3 DEF RemoveMember
      <3> QED
          BY <3>1, <3>2, <3>3 DEF MembersOf
    <2>2. delta' = Removed(delta, i) /\ since' = since
        BY <1>3 DEF RemoveMember
    <2> QED
        BY <2>1, <2>2 DEF DeltaIsNet, Removed, Delta
  <1> QED
      BY <1>2, <1>3

\* Of an instance expired together with its row, nothing is pending.
LEMMA ExpiredClean ==
  ASSUME NEW r \in DbState, ExpireAll(r), db' = r
  PROVE  DeltaIsNet' /\ HistoryKnown' /\ NothingStale'
  <1>1. /\ MembersOf(members)' = r.rel
        /\ doc' = Expired /\ committed' = Unset
        /\ delta'.added = {} /\ delta'.removed = {}
        /\ since' = r.rel
      BY ExpiredTyped DEF MembersOf
  <1>2. DeltaIsNet'
      BY <1>1 DEF DeltaIsNet
  <1>3. HistoryKnown'
      BY <1>1, MarkersAssumption DEF HistoryKnown
  <1>4. NothingStale'
      BY <1>1 DEF NothingStale
  <1> QED
      BY <1>2, <1>3, <1>4

\* What an entry says of the column, when the snapshot is not stale.
LEMMA DocChangeIsTrue ==
  ASSUME TypeOK, HistoryKnown, NothingStale, ~silent
  PROVE  DocChange = LET new == IF doc = Expired THEN db.doc ELSE doc
                     IN IF db.doc = new THEN <<>> ELSE <<db.doc, new>>
  <1>1. CASE committed = Unset
      BY <1>1 DEF HistoryKnown, DocChange
  <1>2. CASE committed # Unset
    <2>1. doc # Expired /\ OldDoc = db.doc
      <3>1. CASE committed = NoValue
          BY <1>2, <3>1 DEF HistoryKnown, NothingStale, OldDoc
      <3>2. CASE committed # NoValue
          BY <1>2, <3>2 DEF TypeOK, HistoryKnown, OldDoc
      <3> QED
          BY <1>2, <3>1, <3>2
    <2> QED
        BY <1>2, <2>1 DEF DocChange
  <1> QED
      BY <1>1, <1>2

\* A flush: the entry is the change, and nothing is pending afterwards.
LEMMA FlushKeeps ==
  ASSUME IInv, MaxCopies = 1, Flush
  PROVE  DeltaIsNet' /\ HistoryKnown' /\ NothingStale' /\ EntryIsChange'
  <1> DEFINE flushed == [rel |-> MembersOf(members),
                         doc |-> IF doc = Expired THEN db.doc ELSE doc]
  <1> USE DEF IInv
  <1>1. /\ db' = flushed /\ committed' = Unset
        /\ members' = members /\ doc' = doc
        /\ MembersOf(members)' = MembersOf(members)
      BY DEF Flush, MembersOf
  <1>2. HistoryKnown'
      BY <1>1, MarkersAssumption DEF HistoryKnown
  <1>3. CASE captureOn
    <2>1. /\ delta' = EmptyDelta /\ since' = flushed.rel
          /\ snapshot' = Refreshed(doc, snapshot) /\ silent' = FALSE
          /\ last' = [entry |-> Captured, effect |-> Change(db, flushed), silent |-> silent]
        BY <1>3 DEF Flush
    <2>2. DeltaIsNet'
        BY <1>1, <2>1 DEF DeltaIsNet, EmptyDelta
    <2>3. NothingStale'
        BY <1>1, <2>1, MarkersAssumption DEF NothingStale, Refreshed, TypeOK
    <2>4. ~silent => Captured = Change(db, flushed)
        BY DocChangeIsTrue DEF Captured, Change, DeltaIsNet, NothingStale
    <2>5. EntryIsChange'
        BY <2>1, <2>4 DEF EntryIsChange
    <2> QED
        BY <1>2, <2>2, <2>3, <2>5
  <1>4. CASE ~captureOn
    <2>1. silent' = TRUE /\ UNCHANGED <<last, delta, snapshot, since>>
        BY <1>4 DEF Flush
    <2>2. DeltaIsNet' /\ EntryIsChange'
        BY <1>1, <2>1 DEF DeltaIsNet, EntryIsChange
    <2>3. NothingStale'
        BY <1>1, <2>1 DEF NothingStale
    <2> QED
        BY <1>2, <2>2, <2>3
  <1> QED
      BY <1>3, <1>4

-----------------------------------------------------------------------------
LEMMA InitInductive == Init => IInv
  <1> SUFFICES ASSUME Init PROVE IInv
      OBVIOUS
  <1>1. TypeOK
      BY InitTyped
  <1>2. MembersOf(members) = db.rel /\ db.doc \in Docs
      BY MembersLoaded DEF Init, DbState
  <1>3. DeltaIsNet /\ HistoryKnown /\ NothingStale
      BY <1>2, MarkersAssumption DEF Init, DeltaIsNet, HistoryKnown, NothingStale, EmptyDelta
  <1>4. SavepointsKnown
      BY BoundsAssumption DEF Init, SavepointsKnown, Depths
  <1>5. EntryIsChange
      BY DEF Init, EntryIsChange
  <1> QED
      BY <1>1, <1>3, <1>4, <1>5 DEF IInv

\* The savepoints, in every step.
LEMMA SavepointsKept ==
  ASSUME TypeOK, SavepointsKnown, [Next]_vars
  PROVE  SavepointsKnown'
  <1> USE BoundsAssumption DEF SavepointsKnown, Depths, TypeOK
  <1>1. ASSUME UNCHANGED <<db, saves, dirtyIn, depth>> PROVE SavepointsKnown'
      BY <1>1
  <1>2. CASE Flush
      BY <1>2 DEF Flush
  <1>3. CASE BeginNested
      BY <1>3 DEF BeginNested
  <1>4. CASE Release
      BY <1>4 DEF Release
  <1>5. CASE RollbackNested
      BY <1>5 DEF RollbackNested
  <1>6. CASE Rollback
      BY <1>6 DEF Rollback
  <1>7. CASE Commit
      BY <1>7 DEF Commit
  <1> QED
      BY <1>1, <1>2, <1>3, <1>4, <1>5, <1>6, <1>7
      DEF Next, vars, orm, AddMember, RemoveMember, AssignDoc, MutateDoc, LoadDoc,
          ToggleCapture, Expire, ExpireMembers, ExpireDoc

LEMMA NextInductive ==
  ASSUME MaxCopies = 1, IInv, [Next]_vars
  PROVE  IInv'
  <1> USE DEF IInv
  <1>1. TypeOK'
      BY NextTyped
  <1>2. SavepointsKnown'
      BY SavepointsKept
  <1> DEFINE Pending == DeltaIsNet' /\ HistoryKnown' /\ NothingStale'
  <1>3. Flush \/ last' = last
      BY DEF Next, vars, audit, AddMember, RemoveMember, AssignDoc, MutateDoc, LoadDoc,
         ToggleCapture, Expire, ExpireMembers, ExpireDoc, BeginNested, Release,
         RollbackNested, Rollback, Commit
  <1>4. EntryIsChange'
      BY <1>3, FlushKeeps DEF EntryIsChange
  <1> SUFFICES Pending
      BY <1>1, <1>2, <1>4
  <1>5. db \in DbState /\ db.rel \in SUBSET Items /\ db.doc \in Docs
      BY DEF TypeOK, DbState
  <1>6. ASSUME NEW i \in Items, AddMember(i) \/ RemoveMember(i) PROVE Pending
    <2>1. DeltaIsNet'
        BY <1>6, DeltaFollows
    <2>2. HistoryKnown' /\ NothingStale'
        BY <1>6 DEF AddMember, RemoveMember, HistoryKnown, NothingStale
    <2> QED
        BY <2>1, <2>2
  <1>7. ASSUME UNCHANGED <<members, delta, since>> PROVE DeltaIsNet'
      BY <1>7 DEF DeltaIsNet, MembersOf
  <1>8. ASSUME NEW new \in Docs, AssignDoc(new) \/ MutateDoc(new) PROVE Pending
    <2>1. HistoryKnown'
        BY <1>8, MarkersAssumption DEF AssignDoc, MutateDoc, HistoryKnown, TypeOK
    <2>2. NothingStale'
        BY <1>8 DEF AssignDoc, MutateDoc, NothingStale
    <2> QED
        BY <1>7, <1>8, <2>1, <2>2 DEF AssignDoc, MutateDoc
  <1>9. CASE LoadDoc
    <2>1. HistoryKnown'
        BY <1>5, <1>9, MarkersAssumption DEF LoadDoc, HistoryKnown, MembersOf
    <2>2. NothingStale'
        BY <1>5, <1>9, MarkersAssumption DEF LoadDoc, NothingStale
    <2> QED
        BY <1>7, <1>9, <2>1, <2>2 DEF LoadDoc
  <1>10. CASE Flush
      BY <1>10, FlushKeeps
  <1>11. ASSUME UNCHANGED <<db, members, doc, committed, modified, delta, snapshot, since, silent>>
         PROVE  Pending
      BY <1>7, <1>11 DEF HistoryKnown, NothingStale, MembersOf
  <1>12. CASE ToggleCapture \/ BeginNested \/ Release \/ UNCHANGED vars
      BY <1>11, <1>12 DEF ToggleCapture, BeginNested, Release, vars, orm, audit
  <1>13. CASE Expire
      BY <1>5, <1>13, ExpiredClean DEF Expire
  <1>14. CASE ExpireMembers
    <2>1. MembersOf(members)' = db.rel
        BY <1>5, <1>14, MembersLoaded DEF ExpireMembers, MembersOf
    <2>2. DeltaIsNet'
        BY <1>14, <2>1 DEF ExpireMembers, DeltaIsNet, Discarded, EmptyDelta
    <2>3. HistoryKnown' /\ NothingStale'
        BY <1>14, <2>1 DEF ExpireMembers, HistoryKnown, NothingStale
    <2> QED
        BY <2>2, <2>3
  <1>15. CASE ExpireDoc
    <2>1. HistoryKnown' /\ NothingStale'
        BY <1>15, MarkersAssumption DEF ExpireDoc, audit, HistoryKnown, NothingStale, MembersOf
    <2> QED
        BY <1>7, <1>15, <2>1 DEF ExpireDoc, audit
  <1>16. CASE RollbackNested
    <2>1. saves[depth] \in DbState /\ db' = saves[depth]
        BY <1>16 DEF RollbackNested, TypeOK
    <2>2. CASE ExpireAll(saves[depth])
        BY <2>1, <2>2, ExpiredClean
    <2>3. CASE /\ ~modified /\ ~dirtyIn[depth]
               /\ delta' = Discarded(delta)
               /\ since' = saves[depth].rel
               /\ UNCHANGED <<members, doc, committed, modified, silent>>
      <3>1. db' = db /\ snapshot' = snapshot
          BY <1>16, <2>1, <2>3 DEF RollbackNested, SavepointsKnown, TypeOK, Depths
      <3>2. MembersOf(members)' = db.rel /\ since' = db.rel
          BY <2>1, <2>3, <3>1 DEF HistoryKnown, MembersOf
      <3>3. DeltaIsNet'
          BY <2>3, <3>2 DEF DeltaIsNet, Discarded, EmptyDelta
      <3>4. HistoryKnown' /\ NothingStale'
          BY <2>3, <3>1, <3>2 DEF HistoryKnown, NothingStale
      <3> QED
          BY <3>3, <3>4
    <2> QED
        BY <1>16, <2>2, <2>3 DEF RollbackNested
  <1>17. CASE Rollback
    <2>1. saves[1] \in DbState
        BY BoundsAssumption DEF TypeOK, Depths
    <2> QED
        BY <1>17, <2>1, ExpiredClean DEF Rollback
  <1>18. CASE Commit
    <2>1. CASE ExpireAll(db)
        BY <1>5, <1>18, <2>1, ExpiredClean DEF Commit
    <2>2. CASE UNCHANGED <<members, doc, committed, modified, delta, since, silent>>
        BY <1>11, <1>18, <2>2 DEF Commit
    <2> QED
        BY <1>18, <2>1, <2>2 DEF Commit
  <1> QED
      BY <1>6, <1>8, <1>9, <1>10, <1>12, <1>13, <1>14, <1>15, <1>16,
         <1>17, <1>18 DEF Next

\* The invariant all of this rests on.
THEOREM Inductive ==
  ASSUME MaxCopies = 1
  PROVE  Spec => []IInv
  BY InitInductive, NextInductive, PTL DEF Spec

\* The pending delta is always the net change of the collection since it was
\* last emptied, whatever the session did in between.
THEOREM DeltaIsAlwaysNet ==
  ASSUME MaxCopies = 1
  PROVE  Spec => []DeltaIsNet
  <1>1. IInv => DeltaIsNet
      BY DEF IInv
  <1> QED
      BY <1>1, Inductive, PTL

\* An entry is the change of its flush, unless capture was off during an
\* earlier one whose traces are still there.
THEOREM EntriesAreChanges ==
  ASSUME MaxCopies = 1
  PROVE  Spec => []EntryIsChange
  <1>1. IInv => EntryIsChange
      BY DEF IInv
  <1> QED
      BY <1>1, Inductive, PTL

=============================================================================
