--------------------------- MODULE SessionAuditProofs ---------------------------
(***************************************************************************)
(* Theorems about SessionAudit, for every set of connections, every bound  *)
(* and both values of on_error.  The argument is in IInv: the cached row   *)
(* of a connection is one that a rollback forgets exactly when it undoes   *)
(* the row, and every entry lies at its savepoint or deeper.               *)
(* From it follows that the listener implements AuditScopes.               *)
(***************************************************************************)
EXTENDS SessionAudit, FiniteSetTheorems, TLAPS

USE BoundsAssumption

-----------------------------------------------------------------------------
(* Lemmas on the stack, the cache and the rows of a connection. *)

LEMMA CutLemma ==
  ASSUME TypeOK, NEW k \in 1..Depth
  PROVE  LET s == SubSeq(stack, 1, k - 1) IN
         /\ s \in Seq(Transactions)
         /\ Len(s) = k - 1
         /\ \A i \in 1..(k - 1) : s[i] = stack[i]
  BY DEF TypeOK, Depth, Transactions

LEMMA PushLemma ==
  ASSUME TypeOK, NEW t \in Transactions
  PROVE  LET s == Append(stack, t) IN
         /\ s \in Seq(Transactions)
         /\ Len(s) = Depth + 1
         /\ \A i \in 1..Depth : s[i] = stack[i]
         /\ s[Depth + 1] = t
  BY DEF TypeOK, Depth, Transactions

\* Undo and MoveUp keep rows rows.
LEMMA UndoType ==
  ASSUME TypeOK, NEW k \in Nat
  PROVE  UndoFrom(k) \in [Conns -> SUBSET Row]
  BY DEF TypeOK, UndoFrom, Undo

LEMMA MoveUpType ==
  ASSUME NEW rs \in SUBSET Row, NEW k \in Nat, k > 1
  PROVE  MoveUp(rs, k) \in SUBSET Row
  BY DEF MoveUp, Row

LEMMA OwnerType ==
  ASSUME TypeOK, Depth > 0
  PROVE  Owner \in Transactions /\ Owner \in 0..MaxTransactions
  BY DEF TypeOK, Depth, Owner, Transactions

LEMMA NoRowType == EmptyCache \in [Conns -> CachedRow] /\ NoRow \in CachedRow
  BY DEF EmptyCache, NoRow, CachedRow

LEMMA CacheAfterType ==
  ASSUME TypeOK, Depth > 0, NEW c \in Conns, NEW n \in WriteIds
  PROVE  CacheAfter(c, n) \in CachedRow
  BY OwnerType DEF TypeOK, CacheAfter, CachedRow, WriteIds

LEMMA GroupRowsType ==
  ASSUME TypeOK, Depth > 0, NEW c \in Conns, NEW n \in WriteIds, NEW kind \in AuditKinds
  PROVE  GroupRows(c, n, kind) \in SUBSET Row
  <1>1. HeaderOf(c, n) \in 0..MaxWrites
    BY DEF TypeOK, CachedRow, HeaderOf, WriteIds
  <1>2. Depth \in Nat \ {0}
    BY DEF TypeOK, Depth
  <1> QED BY <1>1, <1>2 DEF GroupRows, Row, Kinds, AuditKinds, WriteIds

LEMMA FlushedRowType ==
  ASSUME TypeOK, Depth > 0, NEW n \in WriteIds
  PROVE  FlushedRow(n) \in Row /\ [FlushedRow(n) EXCEPT !.kind = "silent"] \in Row
  BY DEF TypeOK, Depth, FlushedRow, Row, Kinds, WriteIds

LEMMA RecoverType ==
  ASSUME TypeOK, NEW k \in Nat
  PROVE  Recover(k) \in [Conns -> Nat]
  BY DEF TypeOK, Recover

LEMMA BatchesType ==
  ASSUME TypeOK, NEW S \in SUBSET Conns
  PROVE  Batches(S) \in SUBSET [conn : Conns, rows : SUBSET BatchRow]
  BY DEF TypeOK, Batches, Batch, BatchRow, Row

LEMMA SoftRollbackType ==
  ASSUME NEW t, NEW ch \in [Conns -> CachedRow]
  PROVE  AfterSoftRollback(t, ch) \in [Conns -> CachedRow]
  BY NoRowType DEF AfterSoftRollback

LEMMA TransactionEndType ==
  ASSUME NEW k, NEW ch \in [Conns -> CachedRow]
  PROVE  AfterTransactionEnd(k, ch) \in [Conns -> CachedRow]
  BY NoRowType DEF AfterTransactionEnd

-----------------------------------------------------------------------------
LEMMA NextWriteType == ASSUME TypeOK, NextWrite PROVE writes' \in WriteIds /\ writes' \in 0..MaxWrites
  BY DEF TypeOK, NextWrite, WriteIds

LEMMA EndRootType ==
  ASSUME TypeOK, EndRoot
  PROVE  /\ stack' \in Seq(Transactions) /\ usable' \in BOOLEAN
         /\ cache' \in [Conns -> CachedRow] /\ rows' \in [Conns -> SUBSET Row]
         /\ failedAt' \in [Conns -> Nat]
  BY TransactionEndType DEF TypeOK, EndRoot, NoRows, AllHealthy

\* The steps of the session's transaction calls preserve the types.
LEMMA TypeInvariance == TypeOK /\ [Next]_vars => TypeOK'
<1> SUFFICES ASSUME TypeOK, [Next]_vars PROVE TypeOK'
  OBVIOUS
<1>0. UNCHANGED onError
  BY DEF Next, vars
<1> USE <1>0
<1>1. ASSUME NEW ancestors \in SUBSET Transactions, Push(ancestors) PROVE TypeOK'
  <2>1. begun' \in Transactions /\ begun' \in 0..MaxTransactions
    BY <1>1 DEF Push, TypeOK, Transactions
  <2>2. stack' \in Seq(Transactions)
    BY <1>1, <2>1, PushLemma DEF Push
  <2>3. lineage' \in [Transactions -> SUBSET Transactions]
    BY <1>1, <2>1 DEF Push, TypeOK
  <2> QED BY <1>1, <2>1, <2>2, <2>3 DEF Push, TypeOK
<1>2. CASE Begin
  BY <1>1, <1>2 DEF Begin
<1>3. CASE BeginNested
  <2>1. lineage[Owner] \in SUBSET Transactions
    BY <1>3, OwnerType DEF BeginNested, TypeOK
  <2> QED BY <1>1, <1>3, <2>1 DEF BeginNested
<1>4. CASE ToggleCapture
  BY <1>4 DEF ToggleCapture, TypeOK
<1>5. ASSUME NEW written \in (SUBSET Conns) \ {{}}, NEW audited \in SUBSET written,
             NEW dropped \in SUBSET audited, Flush(written, audited, dropped)
      PROVE  TypeOK'
  <2>1. Depth > 0 /\ writes' \in WriteIds /\ writes' \in 0..MaxWrites
    BY <1>5, NextWriteType DEF Flush
  <2>2. \A c \in Conns : /\ CacheAfter(c, writes') \in CachedRow
                         /\ GroupRows(c, writes', "entry") \in SUBSET Row
    BY <2>1, CacheAfterType, GroupRowsType DEF AuditKinds
  <2>3. FlushedRow(writes') \in Row /\ [FlushedRow(writes') EXCEPT !.kind = "silent"] \in Row
    BY <2>1, FlushedRowType
  <2>4. cache' \in [Conns -> CachedRow]
    BY <1>5, <2>2 DEF Flush, TypeOK
  <2>5. rows' \in [Conns -> SUBSET Row]
    BY <1>5, <2>2, <2>3 DEF Flush, TypeOK
  <2>6. lost' \in SUBSET (Conns \X WriteIds)
    BY <1>5, <2>1 DEF Flush, TypeOK
  <2> QED BY <1>5, <2>1, <2>4, <2>5, <2>6 DEF Flush, TypeOK
<1>6. ASSUME NEW stored \in SUBSET Conns, FlushFails(stored) PROVE TypeOK'
  <2>1. Depth > 0 /\ Depth \in Nat /\ writes' \in WriteIds /\ writes' \in 0..MaxWrites
    BY <1>6, NextWriteType DEF FlushFails, TypeOK, Depth
  <2>2. \A c \in Conns : CacheAfter(c, writes') \in CachedRow
    BY <2>1, CacheAfterType
  <2>3. cache' \in [Conns -> CachedRow]
    BY <1>6, <2>2 DEF FlushFails, TypeOK
  <2> QED BY <1>6, <2>1, <2>3, UndoType, RecoverType DEF FlushFails, TypeOK
<1>7. ASSUME NEW c \in Conns, LogEvent(c) PROVE TypeOK'
  <2>1. Depth > 0 /\ writes' \in WriteIds /\ writes' \in 0..MaxWrites
    BY <1>7, NextWriteType DEF LogEvent
  <2>2. CacheAfter(c, writes') \in CachedRow /\ GroupRows(c, writes', "event") \in SUBSET Row
    BY <2>1, CacheAfterType, GroupRowsType DEF AuditKinds
  <2> QED BY <1>7, <2>1, <2>2 DEF LogEvent, TypeOK
<1>8. ASSUME NEW c \in Conns, LogEventFails(c) PROVE TypeOK'
  <2>1. writes' \in WriteIds /\ writes' \in 0..MaxWrites
    BY <1>8, NextWriteType DEF LogEventFails
  <2>2. lost' \in SUBSET (Conns \X WriteIds)
    BY <1>8, <2>1 DEF LogEventFails, TypeOK
  <2>3. failedAt' \in [Conns -> Nat]
    BY <1>8 DEF LogEventFails, TypeOK, Depth
  <2> QED BY <1>8, <2>1, <2>2, <2>3 DEF LogEventFails, TypeOK
<1>9. ASSUME NEW c \in Conns, LogEventRefused(c) PROVE TypeOK'
  <2>1. Depth > 0 /\ writes' \in WriteIds /\ writes' \in 0..MaxWrites
    BY <1>9, NextWriteType DEF LogEventRefused
  <2>2. GroupRows(c, writes', "event") \in SUBSET Row
    BY <2>1, GroupRowsType DEF AuditKinds
  <2> QED BY <1>9, <2>1, <2>2 DEF LogEventRefused, TypeOK
<1>10. ASSUME NEW c \in Conns, HostStatementFails(c) PROVE TypeOK'
  BY <1>10 DEF HostStatementFails, TypeOK, Depth
<1>11. ASSUME NEW k \in Transactions, Release(k) PROVE TypeOK'
  <2>1. k \in 1..Depth /\ k \in Nat /\ k > 1
    BY <1>11 DEF Release, Transactions
  <2>2. \A c \in Conns : MoveUp(rows[c], k) \in SUBSET Row
    BY <2>1, MoveUpType DEF TypeOK
  <2>3. stack' \in Seq(Transactions)
    BY <1>11, <2>1, CutLemma DEF Release
  <2> QED BY <1>11, <2>2, <2>3, TransactionEndType DEF Release, TypeOK
<1>12. ASSUME NEW k \in Transactions, Rollback(k) PROVE TypeOK'
  <2>1. k \in 1..Depth /\ k \in Nat
    BY <1>12 DEF Rollback, Transactions
  <2>2. stack' \in Seq(Transactions)
    BY <1>12, <2>1, CutLemma DEF Rollback
  <2>3. cache' \in [Conns -> CachedRow]
    BY <1>12, TransactionEndType, SoftRollbackType DEF Rollback, TypeOK
  <2> QED BY <1>12, <2>1, <2>2, <2>3, UndoType, RecoverType DEF Rollback, TypeOK
<1>13. CASE Commit
  BY <1>13, EndRootType, BatchesType DEF Commit, TypeOK
<1>14. ASSUME NEW done \in SUBSET Conns, CommitFails(done) PROVE TypeOK'
  <2>1. SubSeq(stack, 1, 1) \in Seq(Transactions)
    BY <1>14 DEF CommitFails, TypeOK, Depth
  <2> QED BY <1>14, <2>1, BatchesType DEF CommitFails, TypeOK, NoRows, AllHealthy
<1>15. CASE Close
  BY <1>15, EndRootType DEF Close, TypeOK
<1>16. CASE UNCHANGED vars
  BY <1>16 DEF vars, TypeOK
<1> QED
  BY <1>2, <1>3, <1>4, <1>5, <1>6, <1>7, <1>8, <1>9, <1>10, <1>11, <1>12, <1>13,
     <1>14, <1>15, <1>16 DEF Next

LEMMA TypeInit == Init => TypeOK
  BY NoRowType DEF Init, TypeOK, NoRows, AllHealthy

\* Every reachable state is made of SessionTransactions, rows and batches of
\* the kinds the model names: the listener's cache holds a row or nothing.
THEOREM TypeCorrect == Spec => []TypeOK
<1>1. Init => TypeOK
  BY TypeInit
<1>2. TypeOK /\ [Next]_vars => TypeOK'
  BY TypeInvariance
<1> QED BY <1>1, <1>2, PTL DEF Spec

-----------------------------------------------------------------------------
(* What each kind of step does to the cached row of one connection. *)

LEMMA StackFacts ==
  ASSUME TypeOK, StackInv
  PROVE  /\ Depth \in Nat
         /\ begun \in Nat
         /\ \A i \in 1..Depth : stack[i] \in Transactions /\ stack[i] \in 1..begun
         /\ Depth > 0 => \A i \in 1..Depth : stack[i] \in lineage[Owner]
<1>1. stack \in Seq(Transactions) /\ Depth \in Nat /\ begun \in Nat
  BY DEF TypeOK, Depth
<1>2. \A i \in 1..Depth : stack[i] \in Transactions /\ stack[i] \in 1..begun
  BY <1>1 DEF StackInv, Depth
<1>3. ASSUME Depth > 0, NEW i \in 1..Depth PROVE stack[i] \in lineage[Owner]
  <2>1. Depth \in 1..Depth /\ i <= Depth /\ Owner = stack[Depth]
    BY <1>1, <1>3 DEF Owner, Depth
  <2> QED BY <2>1 DEF StackInv
<1> QED BY <1>1, <1>2, <1>3

LEMMA RowFacts ==
  ASSUME TypeOK, RowsInv, NEW c \in Conns, NEW r \in rows[c]
  PROVE  /\ r \in Row
         /\ r.depth \in Nat \ {0} /\ r.depth <= Depth
         /\ r.id \in WriteIds /\ r.id <= writes
  BY DEF TypeOK, RowsInv, Row

\* A group of entries that is written joins the anchored row, or inserts one.
LEMMA WriteAnchors ==
  ASSUME TypeOK, StackInv, RowsInv, CacheInv, usable, Depth > 0, NextWrite,
         NEW c \in Conns, NEW kind \in AuditKinds, NEW X,
         \A x \in X : x.kind \notin AuditKinds,
         UNCHANGED <<stack, lineage, begun>>,
         rows'[c] = rows[c] \cup X \cup GroupRows(c, writes', kind),
         cache'[c] = CacheAfter(c, writes')
  PROVE  CacheOK(c)'
<1>1. /\ writes \in Nat /\ writes' \in WriteIds /\ writes' = writes + 1
      /\ cache[c].row \in Nat
  BY DEF TypeOK, NextWrite, WriteIds, CachedRow
<1>2. Depth' = Depth /\ Depth \in Nat
  BY StackFacts DEF Depth
<1>3. CacheOK(c)
  BY DEF CacheInv
<1>4. CASE cache[c].row # 0
  <2>1. PICK h \in rows[c] : Anchors(c, h)
    BY <1>3, <1>4 DEF CacheOK, Doomed
  <2>2. cache'[c] = cache[c] /\ GroupRows(c, writes', kind) =
          {[kind |-> kind, id |-> writes', header |-> cache[c].row, depth |-> Depth]}
    BY <1>4 DEF CacheAfter, GroupRows, HeaderOf
  <2>3. h \in rows'[c] /\ h.depth <= Depth
    BY <2>1, RowFacts
  <2>4. ASSUME NEW r \in rows'[c], r.kind \in AuditKinds
        PROVE  r.header = h.id /\ h.depth <= r.depth
    BY <2>1, <2>2, <2>3, <2>4 DEF Anchors
  <2>5. Anchors(c, h)'
    BY <1>2, <2>1, <2>2, <2>4 DEF Anchors
  <2> QED BY <1>1, <1>2, <1>3, <1>4, <2>2, <2>3, <2>5 DEF CacheOK
<1>5. CASE cache[c].row = 0
  <2>0. PICK h : h = [kind |-> "header", id |-> writes', header |-> writes', depth |-> Depth]
    OBVIOUS
  <2>1. cache'[c] = [owner |-> Owner, row |-> writes'] /\ GroupRows(c, writes', kind) =
          {[kind |-> kind, id |-> writes', header |-> writes', depth |-> Depth], h}
    BY <1>5, <2>0 DEF CacheAfter, GroupRows, HeaderOf
  <2>2. NoAuditRows(c)
    BY <1>3, <1>5 DEF CacheOK
  <2>3. ASSUME NEW r \in rows'[c], r.kind \in AuditKinds
        PROVE  r.header = h.id /\ h.depth <= r.depth
    BY <1>2, <2>0, <2>1, <2>2, <2>3 DEF NoAuditRows, AuditKinds
  <2>4. \A i \in 1..Depth : stack[i] \in lineage[Owner] /\ i <= Depth
    BY <1>2, StackFacts
  <2>5. Anchors(c, h)'
    BY <1>2, <2>0, <2>1, <2>3, <2>4 DEF Anchors
  <2>6. Owner \in 1..begun
    BY <1>2, StackFacts DEF Owner, Depth
  <2> QED BY <1>1, <1>2, <2>1, <2>5, <2>6 DEF CacheOK, WriteIds
<1> QED BY <1>4, <1>5

\* Rows other than entries change nothing for the cached row.
LEMMA OtherRows ==
  ASSUME TypeOK, CacheInv, NEW c \in Conns, NEW X,
         \A x \in X : x.kind \notin AuditKinds,
         UNCHANGED <<stack, lineage, begun, usable>>,
         writes' \in Nat, writes <= writes',
         rows'[c] = rows[c] \cup X,
         cache'[c] = cache[c]
  PROVE  CacheOK(c)'
<1>1. CacheOK(c) /\ Depth' = Depth /\ writes \in Nat /\ cache[c].row \in Nat
  BY DEF CacheInv, Depth, TypeOK, CachedRow
<1>2. NoAuditRows(c) => NoAuditRows(c)'
  BY DEF NoAuditRows
<1>3. Doomed(c) => Doomed(c)'
  BY <1>1, <1>2 DEF Doomed
<1>4. ASSUME NEW h \in rows[c], Anchors(c, h) PROVE Anchors(c, h)' /\ h \in rows'[c]
  BY <1>1, <1>4 DEF Anchors
<1> QED BY <1>1, <1>2, <1>3, <1>4 DEF CacheOK

\* A failed flush dooms the rows it cached and those of its savepoint.
LEMMA FailedFlush ==
  ASSUME TypeOK, StackInv, RowsInv, CacheInv, usable, Depth > 0, NextWrite,
         NEW c \in Conns,
         UNCHANGED <<stack, lineage, begun>>, usable' = FALSE,
         rows'[c] = Undo(rows[c], Depth),
         cache'[c] = CacheAfter(c, writes') \/ cache'[c] = cache[c]
  PROVE  CacheOK(c)'
<1>1. /\ CacheOK(c) /\ Depth' = Depth /\ Depth \in Nat /\ writes \in Nat
      /\ writes' = writes + 1 /\ writes' \in WriteIds /\ cache[c].row \in Nat
  BY StackFacts DEF CacheInv, Depth, TypeOK, CachedRow, NextWrite, WriteIds
<1>2. rows'[c] = {r \in rows[c] : r.depth < Depth}
  BY DEF Undo
<1>3. CASE cache[c].row # 0
  <2>1. PICK h \in rows[c] : Anchors(c, h)
    BY <1>1, <1>3 DEF CacheOK, Doomed
  <2>2. cache'[c] = cache[c]
    BY <1>3 DEF CacheAfter
  <2>3. h.depth \in Nat /\ h.depth <= Depth
    BY RowFacts
  <2>4. CASE h.depth < Depth
    <3>1. Anchors(c, h)' /\ h \in rows'[c]
      BY <1>1, <1>2, <2>1, <2>2, <2>4 DEF Anchors
    <3> QED BY <1>1, <1>3, <2>2, <3>1 DEF CacheOK
  <2>5. CASE h.depth = Depth
    <3>1. NoAuditRows(c)'
      <4>1. ASSUME NEW r \in rows'[c], r.kind \in AuditKinds PROVE FALSE
        <5>1. r \in rows[c] /\ r.depth < Depth
          BY <1>2
        <5>2. r.depth \in Nat /\ h.depth <= r.depth
          BY <2>1, <4>1, <5>1, RowFacts DEF Anchors
        <5> QED BY <1>1, <2>5, <5>1, <5>2
      <4> QED BY <4>1 DEF NoAuditRows
    <3>2. \A i \in 1..Depth : stack[i] \in lineage[cache[c].owner]
      BY <2>1, <2>5 DEF Anchors
    <3>3. Doomed(c)'
      BY <1>1, <2>2, <3>1, <3>2 DEF Doomed
    <3> QED BY <1>1, <1>3, <2>2, <3>3 DEF CacheOK
  <2> QED BY <1>1, <2>3, <2>4, <2>5
<1>4. CASE cache[c].row = 0
  <2>1. NoAuditRows(c)'
    BY <1>1, <1>2, <1>4 DEF CacheOK, NoAuditRows
  <2>2. CASE cache'[c] = cache[c]
    BY <1>4, <2>1, <2>2 DEF CacheOK
  <2>3. CASE cache'[c] = CacheAfter(c, writes')
    <3>1. cache'[c] = [owner |-> Owner, row |-> writes']
      BY <1>4, <2>3 DEF CacheAfter
    <3>2. Owner \in 1..begun
      BY <1>1, StackFacts DEF Owner, Depth
    <3>3. Doomed(c)'
      BY <1>1, <2>1, <3>1, StackFacts DEF Doomed
    <3> QED BY <1>1, <3>1, <3>2, <3>3 DEF CacheOK, WriteIds
  <2> QED BY <2>2, <2>3
<1> QED BY <1>3, <1>4

\* A new savepoint lies above every anchored row.
LEMMA PushedCache ==
  ASSUME TypeOK, StackInv, RowsInv, CacheInv, usable, NEW ancestors, Push(ancestors),
         NEW c \in Conns
  PROVE  CacheOK(c)'
<1>1. /\ CacheOK(c) /\ Depth \in Nat /\ begun \in Nat /\ begun' = begun + 1
      /\ begun' \in Transactions
      /\ UNCHANGED <<usable, cache, rows, writes>>
  BY StackFacts DEF CacheInv, Push, Transactions, TypeOK
<1>2. /\ Depth' = Depth + 1
      /\ \A i \in 1..Depth : stack'[i] = stack[i]
      /\ stack'[Depth + 1] = begun'
  BY <1>1, PushLemma DEF Push, Depth
<1>3. CASE cache[c].row = 0
  BY <1>1, <1>3 DEF CacheOK, NoAuditRows
<1>4. CASE cache[c].row # 0
  <2>1. PICK h \in rows[c] : Anchors(c, h)
    BY <1>1, <1>4 DEF CacheOK, Doomed
  <2>2. h.depth \in Nat /\ h.depth <= Depth
    BY RowFacts
  <2>3. /\ cache[c].owner \in 1..begun /\ cache[c].owner # begun'
        /\ cache[c].owner \in Transactions
    BY <1>1, <1>4 DEF CacheOK, Transactions, TypeOK
  <2>4. lineage'[cache[c].owner] = lineage[cache[c].owner]
    BY <2>3 DEF Push, TypeOK
  <2>5. begun' \notin lineage[cache[c].owner]
    BY <1>1, <2>3 DEF StackInv
  <2>6. ASSUME NEW i \in 1..Depth'
        PROVE  stack'[i] \in lineage'[cache[c].owner] <=> i <= h.depth
    <3>1. CASE i = Depth + 1
      BY <1>1, <1>2, <2>2, <2>4, <2>5, <3>1
    <3>2. CASE i \in 1..Depth
      BY <1>2, <2>1, <2>4, <3>2 DEF Anchors
    <3> QED BY <1>1, <1>2, <3>1, <3>2
  <2>7. Anchors(c, h)'
    BY <1>1, <2>1, <2>6 DEF Anchors
  <2> QED BY <1>1, <1>2, <1>4, <2>1, <2>3, <2>7 DEF CacheOK
<1> QED BY <1>3, <1>4

\* A released savepoint takes its rows, and the anchor, one level up.
LEMMA ReleasedCache ==
  ASSUME TypeOK, StackInv, RowsInv, CacheInv, NEW k \in Transactions, Release(k),
         NEW c \in Conns
  PROVE  CacheOK(c)'
<1>1. /\ CacheOK(c) /\ Depth \in Nat /\ k \in Nat /\ k > 1 /\ k <= Depth /\ usable
      /\ cache' = cache
      /\ UNCHANGED <<lineage, begun, usable, writes>>
  BY StackFacts DEF CacheInv, Release, Transactions, AfterTransactionEnd
<1>2. Depth' = k - 1 /\ \A i \in 1..(k - 1) : stack'[i] = stack[i]
  BY <1>1, CutLemma DEF Release, Depth
<1> DEFINE up(r) == [r EXCEPT !.depth = IF r.depth < k THEN r.depth ELSE k - 1]
<1>3. rows'[c] = {up(r) : r \in rows[c]}
  BY DEF Release, MoveUp
<1>4. \A r \in rows[c] : /\ up(r).kind = r.kind /\ up(r).id = r.id /\ up(r).header = r.header
                          /\ up(r).depth = IF r.depth < k THEN r.depth ELSE k - 1
  BY RowFacts DEF Row
<1> HIDE DEF up
<1>5. CASE cache[c].row = 0
  <2>1. NoAuditRows(c)
    BY <1>1, <1>5 DEF CacheOK
  <2>2. NoAuditRows(c)'
    BY <1>3, <1>4, <2>1 DEF NoAuditRows
  <2> QED BY <1>1, <1>5, <2>2 DEF CacheOK
<1>6. CASE cache[c].row # 0
  <2>1. PICK h \in rows[c] : Anchors(c, h)
    BY <1>1, <1>6 DEF CacheOK, Doomed
  <2>2. h.depth \in Nat
    BY RowFacts
  <2>3. ASSUME NEW i \in 1..(k - 1)
        PROVE  stack'[i] \in lineage[cache[c].owner] <=> i <= up(h).depth
    <3>1. i \in 1..Depth /\ i \in Nat /\ i <= k - 1
      BY <1>1
    <3>2. stack'[i] \in lineage[cache[c].owner] <=> i <= h.depth
      BY <1>2, <2>1, <3>1 DEF Anchors
    <3>3. i <= h.depth <=> i <= up(h).depth
      BY <1>1, <1>4, <2>2, <3>1
    <3> QED BY <3>2, <3>3
  <2>4. ASSUME NEW r \in rows[c], r.kind \in AuditKinds
        PROVE  r.header = h.id /\ up(h).depth <= up(r).depth
    <3>1. r.header = h.id /\ h.depth <= r.depth /\ r.depth \in Nat
      BY <2>1, <2>4, RowFacts DEF Anchors
    <3> QED BY <1>1, <1>4, <2>2, <3>1
  <2>5. PICK g \in rows'[c] : g = up(h)
    BY <1>3
  <2>6. Anchors(c, g)'
    <3>1. g.kind = "header" /\ g.id = cache'[c].row
      BY <1>1, <1>4, <2>1, <2>5 DEF Anchors
    <3>2. \A i \in 1..Depth' : stack'[i] \in lineage'[cache'[c].owner] <=> i <= g.depth
      BY <1>1, <1>2, <2>3, <2>5
    <3>3. \A r \in rows'[c] : r.kind \in AuditKinds => r.header = g.id /\ g.depth <= r.depth
      BY <1>3, <1>4, <2>4, <2>5
    <3> QED BY <3>1, <3>2, <3>3 DEF Anchors
  <2> QED BY <1>1, <1>2, <1>6, <2>5, <2>6 DEF CacheOK
<1> QED BY <1>5, <1>6

\* A rollback forgets the cached row exactly when it undoes it.
LEMMA RolledBackCache ==
  ASSUME TypeOK, StackInv, RowsInv, CacheInv, NEW k \in Transactions, Rollback(k),
         NEW c \in Conns
  PROVE  CacheOK(c)'
<1>1. /\ CacheOK(c) /\ Depth \in Nat /\ k \in Nat /\ 1 <= k /\ k <= Depth
      /\ UNCHANGED <<lineage, begun, writes>> /\ usable' = TRUE
  BY StackFacts DEF CacheInv, Rollback, Transactions
<1>2. Depth' = k - 1 /\ \A i \in 1..(k - 1) : stack'[i] = stack[i]
  BY <1>1, CutLemma DEF Rollback, Depth
<1>3. rows'[c] = {r \in rows[c] : r.depth < k}
  BY DEF Rollback, UndoFrom, Undo
<1>4. CASE cache[c].row = 0
  <2>1. cache'[c].row = 0
    BY <1>4 DEF Rollback, AfterSoftRollback, AfterTransactionEnd, EmptyCache, NoRow
  <2> QED BY <1>1, <1>3, <1>4, <2>1 DEF CacheOK, NoAuditRows
<1>5. CASE cache[c].row # 0 /\ stack[k] \in lineage[cache[c].owner]
  <2>1. cache'[c].row = 0
    BY <1>5 DEF Rollback, AfterSoftRollback, AfterTransactionEnd, EmptyCache, NoRow
  <2>2. CASE Doomed(c)
    BY <1>3, <2>1, <2>2 DEF CacheOK, NoAuditRows, Doomed
  <2>3. ASSUME NEW h \in rows[c], Anchors(c, h) PROVE CacheOK(c)'
    <3>1. k <= h.depth /\ h.depth \in Nat
      BY <1>1, <1>5, <2>3, RowFacts DEF Anchors
    <3>2. ASSUME NEW r \in rows'[c], r.kind \in AuditKinds PROVE FALSE
      <4>1. r \in rows[c] /\ r.depth < k
        BY <1>3
      <4>2. r.depth \in Nat /\ h.depth <= r.depth
        BY <2>3, <3>2, <4>1, RowFacts DEF Anchors
      <4> QED BY <1>1, <3>1, <4>1, <4>2
    <3> QED BY <2>1, <3>2 DEF CacheOK, NoAuditRows
  <2> QED BY <1>1, <1>5, <2>2, <2>3 DEF CacheOK
<1>6. CASE cache[c].row # 0 /\ stack[k] \notin lineage[cache[c].owner]
  <2>1. PICK h \in rows[c] : Anchors(c, h)
    BY <1>1, <1>6 DEF CacheOK, Doomed
  <2>2. h.depth \in Nat \ {0} /\ h.depth < k
    BY <1>1, <1>6, <2>1, RowFacts DEF Anchors
  <2>3. k # 1 /\ cache'[c] = cache[c]
    BY <1>1, <1>6, <2>2 DEF Rollback, AfterSoftRollback, AfterTransactionEnd
  <2>4. h \in rows'[c]
    BY <1>3, <2>2
  <2>5. \A i \in 1..(k - 1) : i \in 1..Depth
    BY <1>1
  <2>6. Anchors(c, h)'
    BY <1>1, <1>2, <1>3, <2>1, <2>3, <2>5 DEF Anchors
  <2> QED BY <1>1, <1>2, <1>6, <2>3, <2>4, <2>6 DEF CacheOK
<1> QED BY <1>4, <1>5, <1>6

\* A failed commit leaves the root open, and every cached row doomed.
LEMMA FailedCommit ==
  ASSUME TypeOK, StackInv, RowsInv, CacheInv, NEW done, CommitFails(done), NEW c \in Conns
  PROVE  CacheOK(c)'
<1>1. /\ CacheOK(c) /\ Depth \in Nat /\ Depth > 0 /\ usable
      /\ UNCHANGED <<lineage, begun, writes, cache>> /\ usable' = FALSE
      /\ rows'[c] = {}
  BY StackFacts DEF CacheInv, CommitFails, NoRows
<1>2. Depth' = 1 /\ stack'[1] = stack[1]
  BY <1>1 DEF CommitFails, TypeOK, Depth
<1>3. NoAuditRows(c)'
  BY <1>1 DEF NoAuditRows
<1>4. CASE cache[c].row # 0
  <2>1. PICK h \in rows[c] : Anchors(c, h)
    BY <1>1, <1>4 DEF CacheOK, Doomed
  <2>2. 1 <= h.depth
    BY RowFacts
  <2>3. stack[1] \in lineage[cache[c].owner]
    BY <1>1, <2>1, <2>2 DEF Anchors
  <2>4. Doomed(c)'
    BY <1>1, <1>2, <1>3, <2>3 DEF Doomed
  <2> QED BY <1>1, <1>2, <1>4, <2>4 DEF CacheOK
<1> QED BY <1>1, <1>3, <1>4 DEF CacheOK

\* Nothing is left of a root that ended.
LEMMA EndedCache ==
  ASSUME EndRoot, NEW c \in Conns
  PROVE  CacheOK(c)'
  BY DEF EndRoot, AfterTransactionEnd, EmptyCache, NoRow, NoRows, CacheOK, NoAuditRows

-----------------------------------------------------------------------------
(* The conjuncts of IInv are preserved. *)

LEMMA StackKept ==
  ASSUME StackInv, UNCHANGED <<stack, lineage, begun>>
  PROVE  StackInv'
  BY DEF StackInv, Depth

LEMMA StackCut ==
  ASSUME TypeOK, StackInv, NEW k \in 1..(Depth + 1), stack' = SubSeq(stack, 1, k - 1),
         UNCHANGED <<lineage, begun>>
  PROVE  StackInv'
<1>1. /\ Depth' = k - 1 /\ Depth \in Nat /\ 1..(k - 1) \subseteq 1..Depth
      /\ \A i \in 1..(k - 1) : stack'[i] = stack[i]
  BY DEF TypeOK, Depth
<1> QED BY <1>1 DEF StackInv

LEMMA StackPushed ==
  ASSUME TypeOK, StackInv, Begin \/ BeginNested
  PROVE  StackInv'
<1>1. Depth \in Nat /\ begun \in Nat /\ begun' = begun + 1 /\ begun' \in Transactions
  BY StackFacts DEF Begin, BeginNested, Push, Transactions, TypeOK
<1>2. /\ Depth' = Depth + 1
      /\ \A i \in 1..Depth : stack'[i] = stack[i]
      /\ stack'[Depth + 1] = begun'
  BY <1>1, PushLemma DEF Begin, BeginNested, Push, Depth
<1>3. PICK anc : /\ lineage' = [lineage EXCEPT ![begun'] = {begun'} \cup anc]
                 /\ anc \subseteq 1..begun
                 /\ \A i \in 1..Depth : stack[i] \in anc
  <2>1. CASE Begin
    <3>1. lineage' = [lineage EXCEPT ![begun'] = {begun'} \cup {}]
      BY <2>1 DEF Begin, Push
    <3>2. Depth = 0
      BY <2>1 DEF Begin, Depth
    <3>3. {} \subseteq 1..begun /\ \A i \in 1..Depth : stack[i] \in {}
      BY <3>2
    <3> QED BY <3>1, <3>3
  <2>2. CASE BeginNested
    <3>1. lineage[Owner] \subseteq 1..begun
      BY <2>2, OwnerType DEF BeginNested, StackInv
    <3> QED BY <2>2, <3>1, StackFacts DEF BeginNested, Push
  <2> QED BY <2>1, <2>2
<1>4. /\ lineage'[begun'] = {begun'} \cup anc
      /\ \A t \in Transactions : t # begun' => lineage'[t] = lineage[t]
  BY <1>1, <1>3 DEF TypeOK
<1>5. \A t \in Transactions : lineage'[t] \subseteq 1..begun'
  <2>1. 1..begun \subseteq 1..begun' /\ begun' \in 1..begun'
    BY <1>1
  <2> QED BY <1>3, <1>4, <2>1 DEF StackInv
<1>6. ASSUME NEW i \in 1..Depth'
      PROVE  /\ stack'[i] \in 1..begun'
             /\ \A j \in 1..Depth' : stack'[j] \in lineage'[stack'[i]] <=> j <= i
  <2>1. CASE i = Depth + 1
    <3>1. stack'[i] = begun'
      BY <1>2, <2>1
    <3> QED BY <1>1, <1>2, <1>3, <1>4, <2>1, <3>1
  <2>2. CASE i \in 1..Depth
    <3>1. stack'[i] = stack[i] /\ stack[i] \in 1..begun /\ stack[i] \in Transactions
      BY <1>2, <2>2, StackFacts
    <3>2. lineage'[stack'[i]] = lineage[stack[i]] /\ begun' \notin lineage[stack[i]]
      BY <1>1, <1>4, <3>1 DEF StackInv
    <3> QED BY <1>1, <1>2, <2>2, <3>1, <3>2 DEF StackInv
  <2> QED BY <1>1, <1>2, <2>1, <2>2
<1> QED BY <1>5, <1>6 DEF StackInv

LEMMA StackStep == IInv /\ [Next]_vars => StackInv'
<1> SUFFICES ASSUME TypeOK, StackInv, [Next]_vars PROVE StackInv'
  BY DEF IInv
<1>1. CASE Begin \/ BeginNested
  BY <1>1, StackPushed
<1>2. ASSUME NEW k \in Transactions, Release(k) \/ Rollback(k) PROVE StackInv'
  BY <1>2, StackCut, StackFacts DEF Release, Rollback, Transactions
<1>3. ASSUME EndRoot, UNCHANGED <<lineage, begun>> PROVE StackInv'
  BY <1>3 DEF EndRoot, StackInv, Depth
<1>4. ASSUME NEW done \in SUBSET Conns, CommitFails(done) PROVE StackInv'
  <2>1. 2 \in 1..(Depth + 1) /\ stack' = SubSeq(stack, 1, 2 - 1)
    BY <1>4, StackFacts DEF CommitFails
  <2> QED BY <1>4, <2>1, StackCut DEF CommitFails
<1> QED BY <1>1, <1>2, <1>3, <1>4, StackKept
  DEF Next, vars, ToggleCapture, Flush, FlushFails, LogEvent, LogEventFails,
      LogEventRefused, HostStatementFails, Commit, Close

\* Every row is at an open savepoint and was written by an earlier write.
LEMMA RowsStep == IInv /\ [Next]_vars => RowsInv'
<1> SUFFICES ASSUME TypeOK, StackInv, RowsInv, [Next]_vars PROVE RowsInv'
  BY DEF IInv
<1>0. Depth \in Nat /\ writes \in Nat
  BY StackFacts DEF TypeOK
<1>1. ASSUME \A c \in Conns : \A r \in rows'[c] :
               \/ r \in rows[c]
               \/ r.depth = Depth /\ r.id = writes',
             Depth' = Depth, NextWrite
      PROVE  RowsInv'
  <2>1. writes' = writes + 1
    BY <1>1 DEF NextWrite
  <2>2. ASSUME NEW c \in Conns, NEW r \in rows'[c]
        PROVE  r.depth <= Depth' /\ r.id <= writes'
    <3>1. CASE r \in rows[c]
      BY <1>0, <1>1, <2>1, <3>1, RowFacts DEF WriteIds
    <3>2. CASE r.depth = Depth /\ r.id = writes'
      BY <1>0, <1>1, <2>1, <3>2
    <3> QED BY <1>1, <2>2, <3>1, <3>2
  <2> QED BY <2>2 DEF RowsInv
<1>2. CASE Begin \/ BeginNested
  <2>1. Depth' = Depth + 1 /\ UNCHANGED <<rows, writes>>
    <3>1. begun' \in Transactions
      BY <1>2, StackFacts DEF Begin, BeginNested, Push, Transactions, TypeOK
    <3> QED BY <1>2, <3>1, PushLemma DEF Begin, BeginNested, Push, Depth
  <2> QED BY <1>0, <2>1, RowFacts DEF RowsInv
<1>3. ASSUME NEW written \in (SUBSET Conns) \ {{}}, NEW audited \in SUBSET written,
             NEW dropped \in SUBSET audited, Flush(written, audited, dropped)
      PROVE  RowsInv'
  <2>1. ASSUME NEW c \in Conns, NEW r \in rows'[c]
        PROVE  r \in rows[c] \/ (r.depth = Depth /\ r.id = writes')
    BY <1>3, <2>1 DEF Flush, GroupRows, FlushedRow
  <2> QED BY <1>1, <1>3, <2>1 DEF Flush, Depth
<1>4. ASSUME NEW stored \in SUBSET Conns, FlushFails(stored) PROVE RowsInv'
  BY <1>1, <1>4 DEF FlushFails, UndoFrom, Undo, Depth
<1>5. ASSUME NEW c \in Conns, LogEvent(c) \/ LogEventRefused(c) PROVE RowsInv'
  <2>1. ASSUME NEW d \in Conns, NEW r \in rows'[d]
        PROVE  r \in rows[d] \/ (r.depth = Depth /\ r.id = writes')
    BY <1>5, <2>1 DEF TypeOK, LogEvent, LogEventRefused, GroupRows
  <2> QED BY <1>1, <1>5, <2>1 DEF LogEvent, LogEventRefused, Depth
<1>6. ASSUME NEW c \in Conns, LogEventFails(c) PROVE RowsInv'
  BY <1>1, <1>6 DEF LogEventFails, Depth
<1>7. ASSUME NEW k \in Transactions, Release(k) PROVE RowsInv'
  <2>1. Depth' = k - 1 /\ k \in Nat /\ k > 1 /\ k \in 1..Depth /\ writes' = writes
    BY <1>0, <1>7, CutLemma DEF Release, Depth, Transactions
  <2>2. ASSUME NEW c \in Conns, NEW r \in rows'[c] PROVE r.depth <= k - 1 /\ r.id <= writes
    <3>1. PICK q \in rows[c] : r = [q EXCEPT !.depth = IF q.depth < k THEN q.depth ELSE k - 1]
      BY <1>7, <2>2 DEF Release, MoveUp
    <3>2. q \in Row /\ q.depth \in Nat /\ q.id <= writes
      BY RowFacts
    <3>3. r.id = q.id /\ r.depth = IF q.depth < k THEN q.depth ELSE k - 1
      BY <3>1, <3>2 DEF Row
    <3> QED BY <2>1, <3>2, <3>3
  <2> QED BY <2>1, <2>2 DEF RowsInv
<1>8. ASSUME NEW k \in Transactions, Rollback(k) PROVE RowsInv'
  <2>1. Depth' = k - 1 /\ k \in Nat /\ writes' = writes
    BY <1>0, <1>8, CutLemma DEF Rollback, Depth, Transactions
  <2>2. ASSUME NEW c \in Conns, NEW r \in rows'[c] PROVE r \in rows[c] /\ r.depth < k
    BY <1>8, <2>2 DEF Rollback, UndoFrom, Undo
  <2> QED BY <2>1, <2>2, RowFacts DEF RowsInv
<1>9. ASSUME rows' = NoRows PROVE RowsInv'
  BY <1>9 DEF NoRows, RowsInv
<1>10. ASSUME UNCHANGED <<stack, rows, writes>> PROVE RowsInv'
  BY <1>10 DEF RowsInv, Depth
<1> QED BY <1>2, <1>3, <1>4, <1>5, <1>6, <1>7, <1>8, <1>9, <1>10
  DEF Next, vars, ToggleCapture, HostStatementFails, Commit, CommitFails, Close, EndRoot

LEMMA CacheStep == IInv /\ [Next]_vars => CacheInv'
<1> SUFFICES ASSUME TypeOK, StackInv, RowsInv, CacheInv, [Next]_vars, NEW c \in Conns
             PROVE  CacheOK(c)'
  BY DEF IInv, CacheInv
<1>0. Depth \in Nat /\ writes \in Nat /\ (NextWrite => writes' \in Nat /\ writes <= writes')
  BY StackFacts DEF TypeOK, NextWrite
<1>1. CASE Begin
  <2>1. Depth = 0 /\ UNCHANGED <<cache, rows>>
    BY <1>1 DEF Begin, Push, Depth
  <2>2. cache[c].row = 0 /\ NoAuditRows(c)
    BY <2>1 DEF CacheInv, CacheOK
  <2> QED BY <2>1, <2>2 DEF CacheOK, NoAuditRows
<1>2. CASE BeginNested
  BY <1>2, PushedCache DEF BeginNested
<1>3. ASSUME NEW written \in (SUBSET Conns) \ {{}}, NEW audited \in SUBSET written,
             NEW dropped \in SUBSET audited, Flush(written, audited, dropped)
      PROVE  CacheOK(c)'
  <2> DEFINE X == IF c \in audited THEN {FlushedRow(writes')}
                  ELSE IF c \in written
                       THEN {[FlushedRow(writes') EXCEPT !.kind = "silent"]} ELSE {}
  <2>1. \A x \in X : x.kind \notin AuditKinds
    BY DEF FlushedRow, AuditKinds
  <2> HIDE DEF X
  <2>2. CASE c \in audited \ dropped
    <3>1. /\ rows'[c] = rows[c] \cup X \cup GroupRows(c, writes', "entry")
          /\ cache'[c] = CacheAfter(c, writes')
      BY <1>3, <2>2 DEF Flush, X
    <3>2. "entry" \in AuditKinds
      BY DEF AuditKinds
    <3> QED BY <1>3, <2>1, <3>1, <3>2, WriteAnchors DEF Flush
  <2>3. CASE c \notin audited \ dropped
    <3>1. rows'[c] = rows[c] \cup X /\ cache'[c] = cache[c]
      BY <1>3, <2>3 DEF Flush, X
    <3> QED BY <1>0, <1>3, <2>1, <3>1, OtherRows DEF Flush
  <2> QED BY <2>2, <2>3
<1>4. ASSUME NEW stored \in SUBSET Conns, FlushFails(stored) PROVE CacheOK(c)'
  <2>1. /\ rows'[c] = Undo(rows[c], Depth)
        /\ cache'[c] = CacheAfter(c, writes') \/ cache'[c] = cache[c]
    BY <1>4 DEF FlushFails, UndoFrom
  <2> QED BY <1>4, <2>1, FailedFlush DEF FlushFails
<1>5. ASSUME NEW d \in Conns, LogEvent(d) PROVE CacheOK(c)'
  <2> PICK X : X = {}
    OBVIOUS
  <2>1. CASE c = d
    <3>1. /\ rows'[c] = rows[c] \cup X \cup GroupRows(c, writes', "event")
          /\ cache'[c] = CacheAfter(c, writes')
      BY <1>5, <2>1 DEF LogEvent, TypeOK
    <3>2. "event" \in AuditKinds /\ \A x \in X : x.kind \notin AuditKinds
      BY DEF AuditKinds
    <3> QED BY <1>5, <3>1, <3>2, WriteAnchors DEF LogEvent
  <2>2. CASE c # d
    <3>1. rows'[c] = rows[c] \cup X /\ cache'[c] = cache[c]
      BY <1>5, <2>2 DEF LogEvent, TypeOK
    <3> QED BY <1>0, <1>5, <3>1, OtherRows DEF LogEvent
  <2> QED BY <2>1, <2>2
<1>6. ASSUME NEW d \in Conns, LogEventFails(d) PROVE CacheOK(c)'
  <2> PICK X : X = {}
    OBVIOUS
  <2>1. rows'[c] = rows[c] \cup X /\ cache'[c] = cache[c]
    BY <1>6 DEF LogEventFails
  <2> QED BY <1>0, <1>6, <2>1, OtherRows DEF LogEventFails
<1>7. ASSUME NEW d \in Conns, LogEventRefused(d) PROVE CacheOK(c)'
  <2>1. PICK X : rows'[c] = rows[c] \cup X /\ \A x \in X : x.kind \notin AuditKinds
    <3> PICK Y : Y = IF c = d
                     THEN {r \in GroupRows(c, writes', "event") : r.kind = "header"} ELSE {}
      OBVIOUS
    <3>1. rows'[c] = rows[c] \cup Y
      BY <1>7 DEF LogEventRefused, TypeOK
    <3>2. \A x \in Y : x.kind \notin AuditKinds
      BY DEF AuditKinds
    <3> QED BY <3>1, <3>2
  <2> QED BY <1>0, <1>7, <2>1, OtherRows DEF LogEventRefused
<1>8. ASSUME NEW k \in Transactions, Release(k) PROVE CacheOK(c)'
  BY <1>8, ReleasedCache
<1>9. ASSUME NEW k \in Transactions, Rollback(k) PROVE CacheOK(c)'
  BY <1>9, RolledBackCache
<1>10. CASE Commit \/ Close
  BY <1>10, EndedCache DEF Commit, Close
<1>11. ASSUME NEW done \in SUBSET Conns, CommitFails(done) PROVE CacheOK(c)'
  BY <1>11, FailedCommit
<1>12. ASSUME UNCHANGED <<stack, lineage, begun, usable, cache, rows, writes>>
       PROVE  CacheOK(c)'
  <2> PICK X : X = {}
    OBVIOUS
  <2>1. rows'[c] = rows[c] \cup X /\ cache'[c] = cache[c] /\ writes' \in Nat /\ writes <= writes'
    BY <1>0, <1>12
  <2> QED BY <1>12, <2>1, OtherRows
<1>13. CASE ToggleCapture \/ UNCHANGED vars \/ \E d \in Conns : HostStatementFails(d)
  BY <1>12, <1>13 DEF ToggleCapture, vars, HostStatementFails
<1> QED BY <1>1, <1>2, <1>3, <1>4, <1>5, <1>6, <1>7, <1>8, <1>9, <1>10, <1>11, <1>13
  DEF Next

\* What a usable session commits is under the row anchored in it.
LEMMA CommittedBatch ==
  ASSUME TypeOK, CacheInv, usable, NEW c \in Conns
  PROVE  AuditRowsOf(Batch(c)) # {} =>
           \E h \in HeadersOf(Batch(c)) : \A r \in AuditRowsOf(Batch(c)) : r.header = h.id
<1> DEFINE strip(r) == [kind |-> r.kind, id |-> r.id, header |-> r.header]
<1>1. Batch(c).rows = {strip(r) : r \in rows[c]}
  BY DEF Batch
<1>2. CacheOK(c)
  BY DEF CacheInv
<1> SUFFICES ASSUME AuditRowsOf(Batch(c)) # {}
             PROVE  \E h \in HeadersOf(Batch(c)) :
                      \A r \in AuditRowsOf(Batch(c)) : r.header = h.id
  OBVIOUS
<1>3. PICK q \in rows[c] : q.kind \in AuditKinds
  BY <1>1 DEF AuditRowsOf
<1>4. PICK h \in rows[c] : Anchors(c, h)
  BY <1>2, <1>3 DEF CacheOK, NoAuditRows, Doomed
<1>5. strip(h) \in HeadersOf(Batch(c)) /\ strip(h).id = h.id
  BY <1>1, <1>4 DEF HeadersOf, Anchors
<1>6. \A r \in AuditRowsOf(Batch(c)) : r.header = h.id
  BY <1>1, <1>4 DEF AuditRowsOf, Anchors
<1> QED BY <1>5, <1>6

LEMMA SharedStep == IInv /\ [Next]_vars => SharedHeader'
<1> SUFFICES ASSUME TypeOK, CacheInv, SharedHeader, [Next]_vars PROVE SharedHeader'
  BY DEF IInv
<1>1. ASSUME NEW S \in SUBSET Conns, published' = published \cup Batches(S), usable
      PROVE  SharedHeader'
  BY <1>1, CommittedBatch DEF Batches, SharedHeader, AuditRowsOf, HeadersOf
<1>2. ASSUME published' = published PROVE SharedHeader'
  BY <1>2 DEF SharedHeader, AuditRowsOf, HeadersOf
<1> QED BY <1>1, <1>2
  DEF Next, vars, Begin, BeginNested, Push, ToggleCapture, Flush, FlushFails, LogEvent,
      LogEventFails, LogEventRefused, HostStatementFails, Release, Rollback, Commit,
      CommitFails, Close

-----------------------------------------------------------------------------
(* Rows that belong together: an entry with its change, a transaction row   *)
(* with one of its entries.  A write adds them at one savepoint, and a       *)
(* savepoint moves or undoes them together.                                  *)

\* Rows are undone by savepoint, so what lies together is undone together.
LEMMA UndonePairs ==
  ASSUME NEW c \in Conns, NEW k, rows'[c] = Undo(rows[c], k),
         onError' = onError, lost \subseteq lost'
  PROVE  /\ Paired(c) => Paired(c)'
         /\ HeaderUsed(c) => HeaderUsed(c)'
<1>1. rows'[c] = {r \in rows[c] : r.depth < k}
  BY DEF Undo
<1> QED BY <1>1 DEF Paired, HeaderUsed

\* A released savepoint moves its rows up together.
LEMMA MovedPairs ==
  ASSUME TypeOK, NEW c \in Conns, NEW k, rows'[c] = MoveUp(rows[c], k),
         onError' = onError, lost' = lost
  PROVE  /\ Paired(c) => Paired(c)'
         /\ HeaderUsed(c) => HeaderUsed(c)'
<1> DEFINE level(d) == IF d < k THEN d ELSE k - 1
           up(r) == [r EXCEPT !.depth = level(r.depth)]
<1>1. rows'[c] = {up(r) : r \in rows[c]}
  BY DEF MoveUp
<1>2. \A r \in rows[c] : /\ up(r).kind = r.kind /\ up(r).id = r.id
                          /\ up(r).depth = level(r.depth)
  BY DEF TypeOK, Row
<1> HIDE DEF up, level
<1>3. ASSUME Paired(c) PROVE Paired(c)'
  <2> SUFFICES ASSUME NEW r \in rows[c]
               PROVE  /\ up(r).kind = "entry" =>
                           \E x \in rows'[c] : /\ x.kind = "change" /\ x.id = up(r).id
                                               /\ x.depth = up(r).depth
                      /\ up(r).kind = "change" =>
                           \/ \E x \in rows'[c] : /\ x.kind = "entry" /\ x.id = up(r).id
                                                  /\ x.depth = up(r).depth
                           \/ onError = "log" /\ <<c, up(r).id>> \in lost
    BY <1>1 DEF Paired
  <2>1. ASSUME NEW x \in rows[c], x.depth = r.depth
        PROVE  up(x) \in rows'[c] /\ up(x).depth = up(r).depth
    BY <1>1, <1>2, <2>1
  <2> QED BY <1>2, <1>3, <2>1 DEF Paired
<1>4. ASSUME HeaderUsed(c) PROVE HeaderUsed(c)'
  <2> SUFFICES ASSUME NEW h \in rows[c], up(h).kind = "header"
               PROVE  /\ \E r \in rows'[c] : r.kind \in AuditKinds /\ r.depth = up(h).depth
                      /\ \A g \in rows'[c] : g.kind = "header" => g = up(h)
    BY <1>1 DEF HeaderUsed
  <2>1. PICK r \in rows[c] : r.kind \in AuditKinds /\ r.depth = h.depth
    BY <1>2, <1>4 DEF HeaderUsed
  <2>2. up(r) \in rows'[c] /\ up(r).kind \in AuditKinds /\ up(r).depth = up(h).depth
    BY <1>1, <1>2, <2>1
  <2>3. \A g \in rows[c] : up(g).kind = "header" => g = h
    BY <1>2, <1>4 DEF HeaderUsed
  <2> QED BY <1>1, <2>2, <2>3
<1> QED BY <1>3, <1>4

\* Entries are added with the changes they are about, or these are reported as
\* lost; a group adds a transaction row only where no entry is, hence no other.
LEMMA WrittenPairs ==
  ASSUME TypeOK, CacheInv, RowsInv, usable, NEW c \in Conns, NEW n, NEW B, NEW A,
         rows'[c] = rows[c] \cup B \cup A,
         \A b \in B : /\ b.kind \notin AuditKinds /\ b.kind # "header"
                      /\ b.depth = Depth /\ b.id = n,
         A = {} \/ \E kind \in AuditKinds : A = GroupRows(c, n, kind),
         (\E a \in A : a.kind = "entry") => \E b \in B : b.kind = "change",
         (\E b \in B : b.kind = "change") =>
           (\E a \in A : a.kind = "entry") \/ (onError = "log" /\ <<c, n>> \in lost'),
         onError' = onError, lost \subseteq lost'
  PROVE  /\ Paired(c) => Paired(c)'
         /\ HeaderUsed(c) => HeaderUsed(c)'
<1>1. \A a \in A : /\ a.depth = Depth /\ a.id = n
                   /\ a.kind \in AuditKinds \/ a.kind = "header"
  BY DEF GroupRows
<1>2. ASSUME Paired(c) PROVE Paired(c)'
  <2> SUFFICES ASSUME NEW r \in rows'[c]
               PROVE  /\ r.kind = "entry" =>
                           \E x \in rows'[c] : /\ x.kind = "change" /\ x.id = r.id
                                               /\ x.depth = r.depth
                      /\ r.kind = "change" =>
                           \/ \E x \in rows'[c] : /\ x.kind = "entry" /\ x.id = r.id
                                                  /\ x.depth = r.depth
                           \/ onError' = "log" /\ <<c, r.id>> \in lost'
    BY DEF Paired
  <2>1. CASE r \in rows[c]
    BY <1>2, <2>1 DEF Paired
  <2>2. CASE r \in B
    BY <1>1, <2>2 DEF AuditKinds
  <2>3. CASE r \in A
    BY <1>1, <2>3 DEF AuditKinds
  <2> QED BY <2>1, <2>2, <2>3
<1>3. ASSUME HeaderUsed(c) PROVE HeaderUsed(c)'
  <2>1. ASSUME NEW h \in A, h.kind = "header"
        PROVE  /\ \E r \in A : r.kind \in AuditKinds /\ r.depth = h.depth
               /\ \A g \in rows[c] : g.kind # "header"
               /\ \A g \in A : g.kind = "header" => g = h
    <3>1. PICK kind \in AuditKinds : A = GroupRows(c, n, kind)
      BY <2>1
    <3>2. cache[c].row = 0
      BY <2>1, <3>1 DEF GroupRows, AuditKinds
    <3>3. NoAuditRows(c)
      BY <3>2 DEF CacheInv, CacheOK
    <3>4. \A g \in rows[c] : g.kind # "header"
      BY <1>3, <3>3 DEF HeaderUsed, NoAuditRows
    <3>5. \A g \in A : g.kind = "header" => g = h
      BY <2>1, <3>1, <3>2 DEF GroupRows, AuditKinds
    <3>6. \E r \in A : r.kind \in AuditKinds /\ r.depth = h.depth
      BY <1>1, <2>1, <3>1 DEF GroupRows
    <3> QED BY <3>4, <3>5, <3>6
  <2> SUFFICES ASSUME NEW h \in rows'[c], h.kind = "header"
               PROVE  /\ \E r \in rows'[c] : r.kind \in AuditKinds /\ r.depth = h.depth
                      /\ \A g \in rows'[c] : g.kind = "header" => g = h
    BY DEF HeaderUsed
  <2>2. h \in rows[c] \/ h \in A
    OBVIOUS
  <2>3. CASE h \in A
    BY <2>1, <2>3
  <2>4. CASE h \in rows[c]
    <3>1. \A a \in A : a.kind # "header"
      BY <2>1, <2>4
    <3> QED BY <1>3, <2>4, <3>1 DEF HeaderUsed
  <2> QED BY <2>2, <2>3, <2>4
<1> QED BY <1>2, <1>3

LEMMA SamePairs ==
  ASSUME NEW c \in Conns, rows'[c] = rows[c], onError' = onError, lost \subseteq lost'
  PROVE  /\ Paired(c) => Paired(c)'
         /\ HeaderUsed(c) => HeaderUsed(c)'
  BY DEF Paired, HeaderUsed

LEMMA NoPairs ==
  ASSUME NEW c \in Conns, rows'[c] = {}
  PROVE  Paired(c)' /\ HeaderUsed(c)'
  BY DEF Paired, HeaderUsed

LEMMA PairsStep == IInv /\ [Next]_vars => PairsInv'
<1> SUFFICES ASSUME TypeOK, StackInv, RowsInv, CacheInv, PairsInv, [Next]_vars, NEW c \in Conns
             PROVE  Paired(c)' /\ (onError' = "log" => HeaderUsed(c)')
  BY DEF IInv, PairsInv
<1>0. /\ onError' = onError
      /\ Paired(c) /\ (onError = "log" => HeaderUsed(c))
  BY DEF PairsInv, Next, vars
<1>1. ASSUME rows' = rows, lost \subseteq lost'
      PROVE  Paired(c)' /\ (onError' = "log" => HeaderUsed(c)')
  BY <1>0, <1>1, SamePairs
<1>2. ASSUME rows' = NoRows
      PROVE  Paired(c)' /\ (onError' = "log" => HeaderUsed(c)')
  BY <1>2, NoPairs DEF NoRows
<1>3. ASSUME NEW written \in (SUBSET Conns) \ {{}}, NEW audited \in SUBSET written,
             NEW dropped \in SUBSET audited, Flush(written, audited, dropped)
      PROVE  Paired(c)' /\ (onError' = "log" => HeaderUsed(c)')
  <2> DEFINE B == IF c \in audited THEN {FlushedRow(writes')}
                  ELSE IF c \in written
                       THEN {[FlushedRow(writes') EXCEPT !.kind = "silent"]} ELSE {}
             A == IF c \in audited \ dropped THEN GroupRows(c, writes', "entry") ELSE {}
  <2>1. rows'[c] = rows[c] \cup B \cup A
    BY <1>3 DEF Flush
  <2>2. \A b \in B : /\ b.kind \notin AuditKinds /\ b.kind # "header"
                     /\ b.depth = Depth /\ b.id = writes'
    BY DEF FlushedRow, AuditKinds
  <2>3. A = {} \/ \E kind \in AuditKinds : A = GroupRows(c, writes', kind)
    BY DEF AuditKinds
  <2>4. (\E a \in A : a.kind = "entry") => \E b \in B : b.kind = "change"
    BY <1>3 DEF Flush, Capturing, FlushedRow
  <2>5. (\E b \in B : b.kind = "change") =>
          (\E a \in A : a.kind = "entry") \/ (onError = "log" /\ <<c, writes'>> \in lost')
    <3> SUFFICES ASSUME \E b \in B : b.kind = "change"
                 PROVE  \/ \E a \in A : a.kind = "entry"
                        \/ onError = "log" /\ <<c, writes'>> \in lost'
      OBVIOUS
    <3>1. c \in audited
      BY DEF FlushedRow
    <3>2. CASE c \in dropped
      BY <1>3, <3>2 DEF Flush, NotIsolated, TypeOK
    <3>3. CASE c \notin dropped
      <4>1. A = GroupRows(c, writes', "entry")
        BY <3>1, <3>3
      <4> QED BY <4>1 DEF GroupRows
    <3> QED BY <3>2, <3>3
  <2>6. lost \subseteq lost' /\ usable
    BY <1>3 DEF Flush
  <2> HIDE DEF A, B
  <2>7. /\ Paired(c) => Paired(c)'
        /\ HeaderUsed(c) => HeaderUsed(c)'
    <3> PICK n, X, Y : n = writes' /\ X = B /\ Y = A
      OBVIOUS
    <3> QED BY <1>0, <2>1, <2>2, <2>3, <2>4, <2>5, <2>6, WrittenPairs
  <2> QED BY <1>0, <2>7
<1>4. ASSUME NEW stored \in SUBSET Conns, FlushFails(stored)
      PROVE  Paired(c)' /\ (onError' = "log" => HeaderUsed(c)')
  <2>1. rows'[c] = Undo(rows[c], Depth) /\ lost' = lost
    BY <1>4 DEF FlushFails, UndoFrom
  <2> QED BY <1>0, <2>1, UndonePairs
<1>5. ASSUME NEW d \in Conns, LogEvent(d)
      PROVE  Paired(c)' /\ (onError' = "log" => HeaderUsed(c)')
  <2> DEFINE A == IF c = d THEN GroupRows(c, writes', "event") ELSE {}
  <2> PICK B : B = {}
    OBVIOUS
  <2>1. rows'[c] = rows[c] \cup B \cup A /\ lost \subseteq lost' /\ usable
    BY <1>5 DEF LogEvent, TypeOK
  <2>2. A = {} \/ \E kind \in AuditKinds : A = GroupRows(c, writes', kind)
    BY DEF AuditKinds
  <2>3. \A a \in A : a.kind # "entry"
    BY DEF GroupRows
  <2>4. \A b \in B : /\ b.kind \notin AuditKinds /\ b.kind # "header"
                     /\ b.depth = Depth /\ b.id = writes'
    OBVIOUS
  <2>5. /\ (\E a \in A : a.kind = "entry") => \E b \in B : b.kind = "change"
        /\ (\E b \in B : b.kind = "change") =>
             (\E a \in A : a.kind = "entry") \/ (onError = "log" /\ <<c, writes'>> \in lost')
    BY <2>3
  <2> HIDE DEF A
  <2>6. /\ Paired(c) => Paired(c)'
        /\ HeaderUsed(c) => HeaderUsed(c)'
    BY <1>0, <2>1, <2>2, <2>4, <2>5, WrittenPairs
  <2> QED BY <1>0, <2>6
<1>6. ASSUME NEW d \in Conns, LogEventFails(d)
      PROVE  Paired(c)' /\ (onError' = "log" => HeaderUsed(c)')
  BY <1>1, <1>6 DEF LogEventFails
<1>7. ASSUME NEW d \in Conns, LogEventRefused(d)
      PROVE  Paired(c)' /\ (onError' = "log" => HeaderUsed(c)')
  <2>1. onError' # "log" /\ lost' = lost
    BY <1>0, <1>7 DEF LogEventRefused, NotIsolated
  <2>2. \A r \in rows'[c] : r \in rows[c] \/ r.kind = "header"
    BY <1>7 DEF LogEventRefused, TypeOK
  <2>3. rows[c] \subseteq rows'[c]
    BY <1>7 DEF LogEventRefused, TypeOK
  <2> QED BY <1>0, <2>1, <2>2, <2>3 DEF Paired
<1>8. ASSUME NEW k \in Transactions, Release(k)
      PROVE  Paired(c)' /\ (onError' = "log" => HeaderUsed(c)')
  <2>1. rows'[c] = MoveUp(rows[c], k) /\ lost' = lost
    BY <1>8 DEF Release
  <2> QED BY <1>0, <2>1, MovedPairs
<1>9. ASSUME NEW k \in Transactions, Rollback(k)
      PROVE  Paired(c)' /\ (onError' = "log" => HeaderUsed(c)')
  <2>1. rows'[c] = Undo(rows[c], k) /\ lost' = lost
    BY <1>9 DEF Rollback, UndoFrom
  <2> QED BY <1>0, <2>1, UndonePairs
<1> QED BY <1>1, <1>2, <1>3, <1>4, <1>5, <1>6, <1>7, <1>8, <1>9
  DEF Next, vars, Begin, BeginNested, Push, ToggleCapture, HostStatementFails,
      Commit, CommitFails, Close, EndRoot

-----------------------------------------------------------------------------
(* What has been committed. *)

\* A committed batch holds what lay together in the rows of its connection.
LEMMA BatchPairs ==
  ASSUME TypeOK, NEW c \in Conns, NEW b, b = Batch(c), Paired(c)
  PROVE  /\ b.conn = c
         /\ \A e \in b.rows : e.kind = "entry" =>
              \E x \in b.rows : x.kind = "change" /\ x.id = e.id
         /\ \A x \in b.rows : x.kind = "change" =>
              \/ \E e \in b.rows : e.kind = "entry" /\ e.id = x.id
              \/ onError = "log" /\ <<c, x.id>> \in lost
<1> DEFINE strip(r) == [kind |-> r.kind, id |-> r.id, header |-> r.header]
<1>1. b.conn = c /\ b.rows = {strip(r) : r \in rows[c]}
  BY DEF Batch
<1>2. \A r \in rows[c] : strip(r).kind = r.kind /\ strip(r).id = r.id
  OBVIOUS
<1> HIDE DEF strip
<1>3. ASSUME NEW e \in b.rows, e.kind = "entry"
      PROVE  \E x \in b.rows : x.kind = "change" /\ x.id = e.id
  <2>1. PICK r \in rows[c] : e = strip(r)
    BY <1>1
  <2>2. PICK x \in rows[c] : x.kind = "change" /\ x.id = r.id
    BY <1>2, <1>3, <2>1 DEF Paired
  <2>3. strip(x) \in b.rows
    BY <1>1
  <2> QED BY <1>2, <2>1, <2>2, <2>3
<1>4. ASSUME NEW e \in b.rows, e.kind = "change"
      PROVE  \/ \E x \in b.rows : x.kind = "entry" /\ x.id = e.id
             \/ onError = "log" /\ <<c, e.id>> \in lost
  <2>1. PICK r \in rows[c] : e = strip(r)
    BY <1>1
  <2>2. CASE \E x \in rows[c] : x.kind = "entry" /\ x.id = r.id
    <3>1. PICK x \in rows[c] : x.kind = "entry" /\ x.id = r.id
      BY <2>2
    <3>2. strip(x) \in b.rows
      BY <1>1
    <3> QED BY <1>2, <2>1, <3>1, <3>2
  <2>3. CASE onError = "log" /\ <<c, r.id>> \in lost
    BY <1>2, <2>1, <2>3
  <2> QED BY <1>2, <1>4, <2>1, <2>2, <2>3 DEF Paired
<1> QED BY <1>1, <1>3, <1>4

\* Its transaction rows are those of the connection.
LEMMA BatchHeaders ==
  ASSUME TypeOK, NEW c \in Conns, NEW b, b = Batch(c), HeaderUsed(c)
  PROVE  /\ \A g, h \in HeadersOf(b) : g = h
         /\ HeadersOf(b) # {} => AuditRowsOf(b) # {}
<1> DEFINE strip(r) == [kind |-> r.kind, id |-> r.id, header |-> r.header]
<1>1. b.rows = {strip(r) : r \in rows[c]}
  BY DEF Batch
<1>2. \A r \in rows[c] : strip(r).kind = r.kind
  OBVIOUS
<1> HIDE DEF strip
<1>3. ASSUME NEW g \in HeadersOf(b), NEW h \in HeadersOf(b) PROVE g = h
  <2>1. PICK p \in rows[c] : g = strip(p) /\ p.kind = "header"
    BY <1>1, <1>2 DEF HeadersOf
  <2>2. PICK q \in rows[c] : h = strip(q) /\ q.kind = "header"
    BY <1>1, <1>2 DEF HeadersOf
  <2>3. p = q
    BY <2>1, <2>2 DEF HeaderUsed
  <2> QED BY <2>1, <2>2, <2>3
<1>4. ASSUME NEW h \in HeadersOf(b) PROVE AuditRowsOf(b) # {}
  <2>1. PICK p \in rows[c] : p.kind = "header"
    BY <1>1, <1>2 DEF HeadersOf
  <2>2. PICK r \in rows[c] : r.kind \in AuditKinds
    BY <2>1 DEF HeaderUsed
  <2>3. strip(r) \in AuditRowsOf(b)
    BY <1>1, <1>2, <2>2 DEF AuditRowsOf
  <2> QED BY <2>3
<1> QED BY <1>3, <1>4

\* Batches are committed from a usable session only, and kept.
LEMMA CommittedStep ==
  ASSUME [Next]_vars, NEW b \in published'
  PROVE  /\ onError' = onError /\ lost \subseteq lost'
         /\ b \in published \/ (usable /\ \E c \in Conns : b = Batch(c))
<1>1. onError' = onError
  BY DEF Next, vars
<1>2. lost \subseteq lost'
  BY DEF Next, vars, Begin, BeginNested, Push, ToggleCapture, Flush, FlushFails, LogEvent,
         LogEventFails, LogEventRefused, HostStatementFails, Release, Rollback, Commit,
         CommitFails, Close
<1>3. b \in published \/ (usable /\ \E c \in Conns : b = Batch(c))
  BY DEF Next, vars, Begin, BeginNested, Push, ToggleCapture, Flush, FlushFails, LogEvent,
         LogEventFails, LogEventRefused, HostStatementFails, Release, Rollback, Commit,
         CommitFails, Close, Batches
<1> QED BY <1>1, <1>2, <1>3

LEMMA HeaderCountStep == IInv /\ [Next]_vars => OneHeaderWhenLogging'
<1> SUFFICES ASSUME TypeOK, CacheInv, PairsInv, OneHeaderWhenLogging, [Next]_vars,
                    onError' = "log", NEW b \in published'
             PROVE  /\ AuditRowsOf(b) # {} => Cardinality(HeadersOf(b)) = 1
                    /\ AuditRowsOf(b) = {} => HeadersOf(b) = {}
  BY DEF IInv, OneHeaderWhenLogging, OneHeader, AuditRowsOf, HeadersOf
<1>1. onError = "log" /\ (b \in published \/ (usable /\ \E c \in Conns : b = Batch(c)))
  BY CommittedStep
<1>2. CASE b \in published
  BY <1>1, <1>2 DEF OneHeaderWhenLogging, OneHeader
<1>3. ASSUME usable, NEW c \in Conns, b = Batch(c)
      PROVE  /\ AuditRowsOf(b) # {} => Cardinality(HeadersOf(b)) = 1
             /\ AuditRowsOf(b) = {} => HeadersOf(b) = {}
  <2>1. HeaderUsed(c)
    BY <1>1 DEF PairsInv
  <2>2. /\ \A g, h \in HeadersOf(b) : g = h
        /\ HeadersOf(b) # {} => AuditRowsOf(b) # {}
    BY <1>3, <2>1, BatchHeaders
  <2>3. ASSUME AuditRowsOf(b) # {} PROVE Cardinality(HeadersOf(b)) = 1
    <3>1. PICK h \in HeadersOf(b) : TRUE
      BY <1>3, <2>3, CommittedBatch
    <3>2. HeadersOf(b) = {h}
      BY <2>2
    <3> QED BY <3>2, FS_Singleton
  <2> QED BY <2>2, <2>3
<1> QED BY <1>1, <1>2, <1>3

LEMMA MatchStep == IInv /\ [Next]_vars => EntriesMatchChanges'
<1> DEFINE ids(b, kind) == {r.id : r \in {x \in b.rows : x.kind = kind}}
<1> SUFFICES ASSUME TypeOK, PairsInv, EntriesMatchChanges, [Next]_vars, NEW b \in published'
             PROVE  /\ ids(b, "entry") \subseteq ids(b, "change")
                    /\ \A n \in ids(b, "change") \ ids(b, "entry") :
                         onError' = "log" /\ <<b.conn, n>> \in lost'
  BY DEF IInv, EntriesMatchChanges
<1>1. /\ onError' = onError /\ lost \subseteq lost'
      /\ b \in published \/ \E c \in Conns : b = Batch(c)
  BY CommittedStep
<1>2. CASE b \in published
  BY <1>1, <1>2 DEF EntriesMatchChanges
<1>3. ASSUME NEW c \in Conns, b = Batch(c)
      PROVE  /\ ids(b, "entry") \subseteq ids(b, "change")
             /\ \A n \in ids(b, "change") \ ids(b, "entry") :
                  onError' = "log" /\ <<b.conn, n>> \in lost'
  <2>1. Paired(c)
    BY DEF PairsInv
  <2> QED BY <1>1, <1>3, <2>1, BatchPairs
<1> QED BY <1>1, <1>2, <1>3

-----------------------------------------------------------------------------
LEMMA InductiveInit == Init => IInv
<1> SUFFICES ASSUME Init PROVE IInv
  OBVIOUS
<1>1. Depth = 0
  BY DEF Init, Depth
<1>2. StackInv /\ RowsInv
  BY <1>1 DEF Init, StackInv, RowsInv, NoRows
<1>3. CacheInv
  BY DEF Init, CacheInv, CacheOK, EmptyCache, NoRow, NoRows, NoAuditRows
<1>4. PairsInv
  BY DEF Init, PairsInv, Paired, HeaderUsed, NoRows
<1>5. SharedHeader /\ OneHeaderWhenLogging /\ EntriesMatchChanges
  BY DEF Init, SharedHeader, OneHeaderWhenLogging, OneHeader, EntriesMatchChanges
<1> QED BY <1>2, <1>3, <1>4, <1>5, TypeInit DEF IInv

LEMMA InductiveStep == IInv /\ [Next]_vars => IInv'
  BY TypeInvariance, StackStep, RowsStep, CacheStep, PairsStep, SharedStep,
     HeaderCountStep, MatchStep DEF IInv

\* At every savepoint, the listener's cached row is one that a rollback forgets
\* exactly when it undoes it.
THEOREM Inductive == Spec => []IInv
<1>1. Init => IInv
  BY InductiveInit
<1>2. IInv /\ [Next]_vars => IInv'
  BY InductiveStep
<1> QED BY <1>1, <1>2, PTL DEF Spec

\* A write never reuses an audit_transaction row that is gone.
THEOREM CacheIsSound == Spec => []CacheSound
<1>1. IInv => CacheSound
  BY DEF IInv, CacheInv, CacheOK, CacheSound, Doomed, Anchors
<1> QED BY <1>1, Inductive, PTL

\* The entries a usable session holds all refer to the row that is cached.
THEOREM CacheIsComplete == Spec => []CacheComplete
<1>1. IInv => CacheComplete
  BY DEF IInv, CacheInv, CacheOK, CacheComplete, Doomed, NoAuditRows, Anchors
<1> QED BY <1>1, Inductive, PTL

\* The entries of a committed database transaction share one
\* audit_transaction row, which was committed with them.
THEOREM OneSharedHeader == Spec => []SharedHeader
<1>1. IInv => SharedHeader
  BY DEF IInv
<1> QED BY <1>1, Inductive, PTL

\* With on_error="log", a database transaction that committed entries committed
\* one audit_transaction row, and one that committed none has none.
THEOREM OneHeaderIfLogged == Spec => []OneHeaderWhenLogging
<1>1. IInv => OneHeaderWhenLogging
  BY DEF IInv
<1> QED BY <1>1, Inductive, PTL

\* An entity.* entry and the change it is about are committed together or not
\* at all, over any savepoints, but for losses that on_error="log" logged.
THEOREM EntriesGoWithChanges == Spec => []EntriesMatchChanges
<1>1. IInv => EntriesMatchChanges
  BY DEF IInv
<1> QED BY <1>1, Inductive, PTL

-----------------------------------------------------------------------------
(***************************************************************************)
(* The listener implements AuditScopes, for every set of connections and   *)
(* every bound: each step of SessionAudit is a step of AuditScopes on the  *)
(* mapped state, or leaves it unchanged.                                   *)
(***************************************************************************)

\* The item of AuditScopes that a row stands for, and the ones of a batch.
Item(r) == [kind |-> r.kind, id |-> r.id, depth |-> r.depth]
Pending == [c \in Conns |-> ItemsOf(c)]
Log == {BatchOf(b) : b \in {x \in published : x.rows \ HeadersOf(x) # {}}}

\* What has to be shown of a step.
Simulated == [Scopes!Next]_(Scopes!scopes)

-----------------------------------------------------------------------------
(* What the rows of a connection stand for, under each operation on them.   *)

LEMMA ItemsAre ==
  ASSUME NEW c \in Conns, NEW i
  PROVE  i \in ItemsOf(c) <=> \E r \in rows[c] : r.kind # "header" /\ i = Item(r)
  BY DEF ItemsOf, Item

LEMMA ItemsAreAfter ==
  ASSUME NEW c \in Conns, NEW i
  PROVE  i \in ItemsOf(c)' <=> \E r \in rows'[c] : r.kind # "header" /\ i = Item(r)
  BY DEF ItemsOf, Item

LEMMA SameItems ==
  ASSUME rows' = rows
  PROVE  Pending' = Pending
  BY DEF Pending, ItemsOf

LEMMA NoItems ==
  ASSUME rows' = NoRows
  PROVE  Pending' = Scopes!NothingPending
  BY DEF Pending, ItemsOf, NoRows, Scopes!NothingPending

\* The rows of a savepoint and the items of a scope are undone together.
LEMMA UndoneItems ==
  ASSUME NEW k, rows' = UndoFrom(k)
  PROVE  Pending' = Scopes!UndoneFrom(k)
<1>1. ASSUME NEW c \in Conns
      PROVE  ItemsOf(c)' = {i \in ItemsOf(c) : i.depth < k}
  <2>1. \A r : r \in rows'[c] <=> r \in rows[c] /\ r.depth < k
    BY DEF UndoFrom, Undo
  <2>2. ASSUME NEW i
        PROVE  i \in ItemsOf(c)' <=> i \in ItemsOf(c) /\ i.depth < k
    BY <2>1, ItemsAre, ItemsAreAfter DEF Item
  <2> QED BY <2>2
<1> QED BY <1>1 DEF Pending, Scopes!UndoneFrom

\* Releasing a savepoint moves its rows into the scope around it.
LEMMA MovedItems ==
  ASSUME TypeOK, NEW k, rows' = [c \in Conns |-> MoveUp(rows[c], k)]
  PROVE  Pending' = [c \in Conns |->
           {[i EXCEPT !.depth = IF i.depth < k THEN i.depth ELSE k - 1] : i \in ItemsOf(c)}]
<1> DEFINE up(x) == [x EXCEPT !.depth = IF x.depth < k THEN x.depth ELSE k - 1]
<1>1. ASSUME NEW c \in Conns
      PROVE  ItemsOf(c)' = {up(i) : i \in ItemsOf(c)}
  <2>1. rows'[c] = {up(r) : r \in rows[c]}
    BY DEF MoveUp
  <2>2. ASSUME NEW r \in rows[c]
        PROVE  Item(up(r)) = up(Item(r)) /\ up(r).kind = r.kind
    <3>1. r \in Row
      BY DEF TypeOK
    <3>2. /\ up(r).kind = r.kind /\ up(r).id = r.id
          /\ up(r).depth = IF r.depth < k THEN r.depth ELSE k - 1
      BY <3>1 DEF Row
    <3>3. up(Item(r)) = [kind |-> r.kind, id |-> r.id,
                         depth |-> IF r.depth < k THEN r.depth ELSE k - 1]
      BY DEF Item
    <3> QED BY <3>2, <3>3 DEF Item
  <2> HIDE DEF up
  <2>3. ASSUME NEW i \in ItemsOf(c)' PROVE \E j \in ItemsOf(c) : i = up(j)
    <3>1. PICK r \in rows[c] : up(r).kind # "header" /\ i = Item(up(r))
      BY <2>1, <2>3, ItemsAreAfter
    <3> QED BY <2>2, <3>1, ItemsAre
  <2>4. ASSUME NEW j \in ItemsOf(c) PROVE up(j) \in ItemsOf(c)'
    <3>1. PICK r \in rows[c] : r.kind # "header" /\ j = Item(r)
      BY <2>4, ItemsAre
    <3> QED BY <2>1, <2>2, <3>1, ItemsAreAfter
  <2> QED BY <2>3, <2>4
<1> QED BY <1>1 DEF Pending

\* A write that adds the items of an outcome is a Write of AuditScopes.
LEMMA WriteSimulated ==
  ASSUME TypeOK, NEW outcome \in [Conns -> Scopes!Outcomes],
         Depth > 0, NextWrite, UNCHANGED <<stack, published>>,
         \A c \in Conns : /\ rows[c] \subseteq rows'[c]
                          /\ \A r \in rows'[c] \ rows[c] : r.kind # "header" =>
                               /\ r.id = writes' /\ r.depth = Depth
                               /\ r.kind \in outcome[c]
                          /\ \A kind \in outcome[c] : \E r \in rows'[c] :
                               /\ r.kind = kind /\ kind # "header"
                               /\ r.id = writes' /\ r.depth = Depth
  PROVE  Simulated
<1> DEFINE new(c) == {[kind |-> x, id |-> writes', depth |-> Depth] : x \in outcome[c]}
<1>1. ASSUME NEW c \in Conns PROVE ItemsOf(c)' = ItemsOf(c) \cup new(c)
  <2>1. ASSUME NEW i \in ItemsOf(c)' PROVE i \in ItemsOf(c) \cup new(c)
    <3>1. PICK r \in rows'[c] : r.kind # "header" /\ i = Item(r)
      BY <2>1, ItemsAreAfter
    <3>2. CASE r \in rows[c]
      BY <3>1, <3>2, ItemsAre
    <3>3. CASE r \notin rows[c]
      <4>1. r.id = writes' /\ r.depth = Depth /\ r.kind \in outcome[c]
        BY <3>1, <3>3
      <4> QED BY <3>1, <4>1 DEF Item
    <3> QED BY <3>2, <3>3
  <2>2. ASSUME NEW i \in ItemsOf(c) PROVE i \in ItemsOf(c)'
    BY <2>2, ItemsAre, ItemsAreAfter
  <2>3. ASSUME NEW x \in outcome[c]
        PROVE  [kind |-> x, id |-> writes', depth |-> Depth] \in ItemsOf(c)'
    <3>1. PICK r \in rows'[c] : /\ r.kind = x /\ x # "header"
                                /\ r.id = writes' /\ r.depth = Depth
      BY <2>3
    <3> QED BY <3>1, ItemsAreAfter DEF Item
  <2> QED BY <2>1, <2>2, <2>3
<1>2. /\ Depth' = Depth /\ Depth > 0 /\ writes < MaxWrites /\ writes' = writes + 1
      /\ Log' = Log
  BY DEF NextWrite, Depth, Log, BatchOf, AuditRowsOf, HeadersOf
<1>3. [c \in Conns |-> ItemsOf(c)]' = [c \in Conns |-> ItemsOf(c) \cup new(c)]
  BY <1>1
<1>4. Scopes!Write(outcome)
  BY <1>2, <1>3 DEF Scopes!Write, Log
<1> QED BY <1>4 DEF Simulated, Scopes!Next

-----------------------------------------------------------------------------
(* What is committed.                                                       *)

\* The batch a usable session commits is the one that AuditScopes publishes.
LEMMA PublishedBatch ==
  ASSUME TypeOK, CacheInv, usable, NEW c \in Conns
  PROVE  BatchOf(Batch(c)) = Scopes!Published(c)
<1> DEFINE strip(r) == [kind |-> r.kind, id |-> r.id, header |-> r.header]
           short(i) == [kind |-> i.kind, id |-> i.id]
           b == Batch(c)
<1>1. b.conn = c /\ b.rows = {strip(r) : r \in rows[c]}
  BY DEF Batch
<1>2. \A r \in rows[c] : strip(r).kind = r.kind /\ short(strip(r)) = short(Item(r))
                          /\ Item(r).kind = r.kind
  BY DEF Item
<1> HIDE DEF strip, short, b
<1>3. {short(r) : r \in {x \in b.rows : x.kind # "header"}} = {short(i) : i \in ItemsOf(c)}
  <2>1. ASSUME NEW q \in b.rows, q.kind # "header"
        PROVE  \E i \in ItemsOf(c) : short(q) = short(i)
    <3>1. PICK r \in rows[c] : q = strip(r)
      BY <1>1
    <3>2. Item(r) \in ItemsOf(c)
      BY <1>2, <2>1, <3>1, ItemsAre
    <3> QED BY <1>2, <3>1, <3>2
  <2>2. ASSUME NEW i \in ItemsOf(c)
        PROVE  \E q \in b.rows : q.kind # "header" /\ short(i) = short(q)
    <3>1. PICK r \in rows[c] : r.kind # "header" /\ i = Item(r)
      BY ItemsAre
    <3>2. strip(r) \in b.rows /\ strip(r).kind # "header"
      BY <1>1, <1>2, <3>1
    <3> QED BY <1>2, <3>1, <3>2
  <2> QED BY <2>1, <2>2
<1>4. AuditRowsOf(b) = {} <=> ~\E i \in ItemsOf(c) : i.kind \in Scopes!EntryKinds
  <2>1. ASSUME NEW q \in AuditRowsOf(b)
        PROVE  \E i \in ItemsOf(c) : i.kind \in Scopes!EntryKinds
    <3>1. PICK r \in rows[c] : q = strip(r) /\ r.kind \in AuditKinds
      BY <1>1, <1>2 DEF AuditRowsOf
    <3>2. Item(r) \in ItemsOf(c)
      BY <3>1, ItemsAre DEF AuditKinds
    <3> QED BY <1>2, <3>1, <3>2 DEF AuditKinds, Scopes!EntryKinds
  <2>2. ASSUME NEW i \in ItemsOf(c), i.kind \in Scopes!EntryKinds
        PROVE  AuditRowsOf(b) # {}
    <3>1. PICK r \in rows[c] : i = Item(r)
      BY ItemsAre
    <3>2. strip(r) \in AuditRowsOf(b)
      BY <1>1, <1>2, <2>2, <3>1 DEF AuditRowsOf, AuditKinds, Scopes!EntryKinds
    <3> QED BY <3>2
  <2> QED BY <2>1, <2>2
<1>5. AuditRowsOf(b) # {} =>
        \E h \in HeadersOf(b) : \A r \in AuditRowsOf(b) : r.header = h.id
  BY CommittedBatch DEF b
<1>6. BatchOf(b) =
        [conn |-> b.conn,
         items |-> {short(r) : r \in {x \in b.rows : x.kind # "header"}},
         header |-> IF AuditRowsOf(b) = {} THEN "none" ELSE "one"]
  BY <1>5 DEF BatchOf, short
<1>7. Scopes!Published(c) =
        [conn |-> c,
         items |-> {short(i) : i \in ItemsOf(c)},
         header |-> IF \E i \in ItemsOf(c) : i.kind \in Scopes!EntryKinds
                    THEN "one" ELSE "none"]
  BY DEF Scopes!Published, short
<1> QED BY <1>1, <1>3, <1>4, <1>6, <1>7 DEF b

\* A batch counts if it holds more than a transaction row, that is if anything
\* is pending on its connection.
LEMMA NonEmptyBatch ==
  ASSUME NEW c \in Conns
  PROVE  Batch(c).rows \ HeadersOf(Batch(c)) # {} <=> ItemsOf(c) # {}
<1> DEFINE strip(r) == [kind |-> r.kind, id |-> r.id, header |-> r.header]
<1>1. Batch(c).rows = {strip(r) : r \in rows[c]}
  BY DEF Batch
<1>2. \A r \in rows[c] : strip(r).kind = r.kind
  OBVIOUS
<1> HIDE DEF strip
<1>3. ASSUME NEW q \in Batch(c).rows \ HeadersOf(Batch(c)) PROVE ItemsOf(c) # {}
  <2>1. PICK r \in rows[c] : q = strip(r) /\ r.kind # "header"
    BY <1>1, <1>2 DEF HeadersOf
  <2> QED BY <2>1, ItemsAre
<1>4. ASSUME NEW i \in ItemsOf(c) PROVE Batch(c).rows \ HeadersOf(Batch(c)) # {}
  <2>1. PICK r \in rows[c] : r.kind # "header"
    BY ItemsAre
  <2>2. strip(r) \in Batch(c).rows \ HeadersOf(Batch(c))
    BY <1>1, <1>2, <2>1 DEF HeadersOf
  <2> QED BY <2>2
<1> QED BY <1>3, <1>4

\* The databases that commit publish what is pending on them.
LEMMA CommitPublishes ==
  ASSUME TypeOK, CacheInv, usable, NEW S \in SUBSET Conns,
         published' = published \cup Batches(S)
  PROVE  Log' = Log \cup
           {Scopes!Published(c) : c \in {d \in S : failedAt[d] = 0 /\ ItemsOf(d) # {}}}
<1> DEFINE full(x) == x.rows \ HeadersOf(x) # {}
<1>0. Log' = {BatchOf(b) : b \in {x \in published' : full(x)}}
  BY DEF Log, BatchOf, AuditRowsOf, HeadersOf
<1>1. ASSUME NEW c \in S, failedAt[c] = 0, ItemsOf(c) # {}
      PROVE  Batch(c) \in published' /\ full(Batch(c))
  <2>1. rows[c] # {}
    BY <1>1, ItemsAre
  <2> QED BY <1>1, <2>1, NonEmptyBatch DEF Batches
<1>2. ASSUME NEW b \in published', full(b), b \notin published
      PROVE  \E c \in S : failedAt[c] = 0 /\ ItemsOf(c) # {} /\ b = Batch(c)
  <2>1. PICK c \in S : failedAt[c] = 0 /\ b = Batch(c)
    BY <1>2 DEF Batches
  <2> QED BY <1>2, <2>1, NonEmptyBatch
<1>3. \A c \in S : BatchOf(Batch(c)) = Scopes!Published(c)
  BY PublishedBatch
<1>4. Log = {BatchOf(b) : b \in {x \in published : full(x)}}
  BY DEF Log
<1> HIDE DEF full
<1> QED BY <1>0, <1>1, <1>2, <1>3, <1>4

-----------------------------------------------------------------------------
(* One step of the session at a time.                                       *)

\* Nothing a caller was promised anything about changes.
LEMMA StutterSimulated ==
  ASSUME UNCHANGED <<stack, rows, writes, published>>
  PROVE  Simulated
<1>1. Pending' = Pending
  BY SameItems
<1>2. Depth' = Depth /\ writes' = writes /\ Log' = Log
  BY DEF Depth, Log, BatchOf, AuditRowsOf, HeadersOf
<1> QED BY <1>1, <1>2 DEF Simulated, Scopes!scopes, Pending, Log

LEMMA PushSimulated ==
  ASSUME TypeOK, NEW ancestors, Push(ancestors)
  PROVE  Simulated
<1>1. Pending' = Pending
  BY SameItems DEF Push
<1>2. Depth' = Depth + 1
  BY DEF Push, Depth, TypeOK, Transactions
<1>3. writes' = writes /\ Log' = Log
  BY DEF Push, Log, BatchOf, AuditRowsOf, HeadersOf
<1>4. Scopes!Open
  BY <1>1, <1>2, <1>3 DEF Scopes!Open, Pending, Log
<1> QED BY <1>4 DEF Simulated, Scopes!Next

\* A group writes one row of its kind; what else it writes is a transaction row.
LEMMA GroupItems ==
  ASSUME NEW c \in Conns, NEW n, NEW kind
  PROVE  /\ \E r \in GroupRows(c, n, kind) :
              r.kind = kind /\ r.id = n /\ r.depth = Depth
         /\ \A r \in GroupRows(c, n, kind) : r.kind # "header" =>
              r.kind = kind /\ r.id = n /\ r.depth = Depth
<1> DEFINE item == [kind |-> kind, id |-> n, header |-> HeaderOf(c, n), depth |-> Depth]
<1>1. item \in GroupRows(c, n, kind)
  BY DEF GroupRows
<1>2. \A r \in GroupRows(c, n, kind) : r = item \/ r.kind = "header"
  BY DEF GroupRows
<1>3. item.kind = kind /\ item.id = n /\ item.depth = Depth
  OBVIOUS
<1> HIDE DEF item
<1> QED BY <1>1, <1>2, <1>3

LEMMA FlushSimulated ==
  ASSUME TypeOK, NEW written \in (SUBSET Conns) \ {{}}, NEW audited \in SUBSET written,
         NEW dropped \in SUBSET audited, Flush(written, audited, dropped)
  PROVE  Simulated
<1> DEFINE outcome == [c \in Conns |->
      IF c \in audited THEN IF c \in dropped THEN {"change"} ELSE {"change", "entry"}
      ELSE IF c \in written THEN {"silent"} ELSE {}]
    business(c) == IF c \in audited THEN {FlushedRow(writes')}
                   ELSE IF c \in written
                        THEN {[FlushedRow(writes') EXCEPT !.kind = "silent"]} ELSE {}
    entries(c) == IF c \in audited \ dropped THEN GroupRows(c, writes', "entry") ELSE {}
<1>1. outcome \in [Conns -> Scopes!Outcomes]
  BY DEF Scopes!Outcomes
<1>2. \A c \in Conns : rows'[c] = rows[c] \cup business(c) \cup entries(c)
  BY DEF Flush
<1>3. audited # {} => captureOn
  BY DEF Flush, Capturing
<1>4. ASSUME NEW c \in Conns
      PROVE  /\ \A r \in business(c) \cup entries(c) : r.kind # "header" =>
                  r.id = writes' /\ r.depth = Depth /\ r.kind \in outcome[c]
             /\ \A kind \in outcome[c] : \E r \in business(c) \cup entries(c) :
                  r.kind = kind /\ kind # "header" /\ r.id = writes' /\ r.depth = Depth
  <2>1. CASE c \in audited \ dropped
    <3>1. /\ business(c) = {FlushedRow(writes')} /\ entries(c) = GroupRows(c, writes', "entry")
          /\ outcome[c] = {"change", "entry"} /\ captureOn
      BY <1>3, <2>1
    <3>2. LET r == FlushedRow(writes') IN
          r.kind = "change" /\ r.id = writes' /\ r.depth = Depth
      BY <3>1 DEF FlushedRow
    <3> HIDE DEF business, entries, outcome
    <3> QED BY <3>1, <3>2, GroupItems
  <2>2. CASE c \in dropped
    BY <1>3, <2>2 DEF FlushedRow
  <2>3. CASE c \in written \ audited
    <3>1. /\ business(c) = {[FlushedRow(writes') EXCEPT !.kind = "silent"]}
          /\ entries(c) = {} /\ outcome[c] = {"silent"}
      BY <2>3
    <3>2. LET r == [FlushedRow(writes') EXCEPT !.kind = "silent"] IN
          r.kind = "silent" /\ r.id = writes' /\ r.depth = Depth
      BY DEF FlushedRow
    <3> HIDE DEF business, entries, outcome
    <3> QED BY <3>1, <3>2
  <2>4. CASE c \notin written
    BY <2>4
  <2> QED BY <2>1, <2>2, <2>3, <2>4
<1> HIDE DEF business, entries, outcome
<1>5. Depth > 0 /\ NextWrite /\ UNCHANGED <<stack, published>>
  BY DEF Flush
<1> QED BY <1>1, <1>2, <1>4, <1>5, WriteSimulated

\* Writes that are undone leave nothing.
LEMMA NothingWritten ==
  ASSUME TypeOK, Depth > 0, NextWrite, UNCHANGED <<stack, published>>,
         \A c \in Conns : /\ rows[c] \subseteq rows'[c]
                          /\ \A r \in rows'[c] \ rows[c] : r.kind = "header"
  PROVE  Simulated
<1> DEFINE outcome == [c \in Conns |-> {}]
<1>1. outcome \in [Conns -> Scopes!Outcomes] /\ \A c \in Conns : outcome[c] = {}
  BY DEF Scopes!Outcomes
<1> HIDE DEF outcome
<1> QED BY <1>1, WriteSimulated

LEMMA LogEventSimulated ==
  ASSUME TypeOK, NEW d \in Conns, LogEvent(d)
  PROVE  Simulated
<1> DEFINE outcome == [c \in Conns |-> IF c = d THEN {"event"} ELSE {}]
<1>1. outcome \in [Conns -> Scopes!Outcomes]
  BY DEF Scopes!Outcomes
<1>2. \A c \in Conns :
        rows'[c] = rows[c] \cup (IF c = d THEN GroupRows(c, writes', "event") ELSE {})
  BY DEF LogEvent, TypeOK
<1>3. ASSUME NEW c \in Conns
      PROVE  /\ rows[c] \subseteq rows'[c]
             /\ \A r \in rows'[c] \ rows[c] : r.kind # "header" =>
                  r.id = writes' /\ r.depth = Depth /\ r.kind \in outcome[c]
             /\ \A kind \in outcome[c] : \E r \in rows'[c] :
                  r.kind = kind /\ kind # "header" /\ r.id = writes' /\ r.depth = Depth
  <2>1. CASE c = d
    <3>1. rows'[c] = rows[c] \cup GroupRows(c, writes', "event") /\ outcome[c] = {"event"}
      BY <1>2, <2>1
    <3> HIDE DEF outcome
    <3> QED BY <3>1, GroupItems
  <2>2. CASE c # d
    BY <1>2, <2>2
  <2> QED BY <2>1, <2>2
<1> HIDE DEF outcome
<1>4. Depth > 0 /\ NextWrite /\ UNCHANGED <<stack, published>>
  BY DEF LogEvent
<1> QED BY <1>1, <1>3, <1>4, WriteSimulated

LEMMA FlushFailsSimulated ==
  ASSUME NEW stored \in SUBSET Conns, FlushFails(stored)
  PROVE  Simulated
<1>1. Pending' = Scopes!UndoneFrom(Depth)
  BY UndoneItems DEF FlushFails
<1>2. /\ Depth' = Depth /\ Depth > 0 /\ writes < MaxWrites /\ writes' = writes + 1
      /\ Log' = Log
  BY DEF FlushFails, NextWrite, Depth, Log, BatchOf, AuditRowsOf, HeadersOf
<1>3. Scopes!WriteFails
  BY <1>1, <1>2 DEF Scopes!WriteFails, Pending, Log
<1> QED BY <1>3 DEF Simulated, Scopes!Next

\* Closing the savepoint at depth k leaves k - 1 scopes open.
LEMMA DepthAfter ==
  ASSUME TypeOK, NEW k \in 1..Depth, stack' = SubSeq(stack, 1, k - 1)
  PROVE  Depth' = k - 1
  BY DEF TypeOK, Depth, Transactions

LEMMA ReleaseSimulated ==
  ASSUME TypeOK, NEW k \in Transactions, Release(k)
  PROVE  Simulated
<1>1. k \in 2..Depth /\ Depth' = k - 1
  BY DepthAfter DEF Release, Depth, TypeOK
<1>2. Pending' = [c \in Conns |->
        {[i EXCEPT !.depth = IF i.depth < k THEN i.depth ELSE k - 1] : i \in ItemsOf(c)}]
  BY MovedItems DEF Release
<1>3. writes' = writes /\ Log' = Log
  BY DEF Release, Log, BatchOf, AuditRowsOf, HeadersOf
<1>4. Scopes!Merge(k)
  BY <1>1, <1>2, <1>3 DEF Scopes!Merge, Pending, Log
<1> QED BY <1>1, <1>4 DEF Simulated, Scopes!Next

LEMMA RollbackSimulated ==
  ASSUME TypeOK, NEW k \in Transactions, Rollback(k)
  PROVE  Simulated
<1>1. k \in 1..Depth /\ Depth' = k - 1
  BY DepthAfter DEF Rollback, Depth, TypeOK
<1>2. Pending' = Scopes!UndoneFrom(k)
  BY UndoneItems DEF Rollback
<1>3. writes' = writes /\ Log' = Log
  BY DEF Rollback, Log, BatchOf, AuditRowsOf, HeadersOf
<1>4. Scopes!Undo(k)
  BY <1>1, <1>2, <1>3 DEF Scopes!Undo, Pending, Log
<1> QED BY <1>1, <1>4 DEF Simulated, Scopes!Next

\* Whether a commit succeeds or fails halfway, the databases that committed
\* publish and nothing stays pending.
LEMMA EndSimulated ==
  ASSUME TypeOK, CacheInv, usable, NEW S \in SUBSET Conns, NEW left \in {0, 1},
         Depth > 0, Depth' = left, rows' = NoRows, writes' = writes,
         published' = published \cup Batches(S)
  PROVE  Simulated
<1> PICK healthy : healthy = {c \in S : failedAt[c] = 0}
  OBVIOUS
<1>1. Pending' = Scopes!NothingPending
  BY NoItems
<1>2. Log' = Log \cup {Scopes!Published(c) : c \in {d \in healthy : ItemsOf(d) # {}}}
  <2>1. {d \in healthy : ItemsOf(d) # {}} = {d \in S : failedAt[d] = 0 /\ ItemsOf(d) # {}}
    OBVIOUS
  <2> QED BY <2>1, CommitPublishes
<1>3. {d \in healthy : Pending[d] # {}} = {d \in healthy : ItemsOf(d) # {}}
  BY DEF Pending
<1>4. Scopes!End(healthy, left)
  BY <1>1, <1>2, <1>3 DEF Scopes!End, Scopes!Publish, Pending, Log
<1>5. healthy \in SUBSET Conns
  OBVIOUS
<1> QED BY <1>4, <1>5 DEF Simulated, Scopes!Next

LEMMA CloseSimulated ==
  ASSUME TypeOK, Close
  PROVE  Simulated
<1>1. rows' = UndoFrom(1)
  BY DEF Close, EndRoot, NoRows, UndoFrom, Undo, TypeOK, Row
<1>2. Pending' = Scopes!UndoneFrom(1)
  BY <1>1, UndoneItems
<1>3. 1 \in 1..Depth /\ Depth' = 0
  BY DEF Close, EndRoot, Depth, TypeOK
<1>4. writes' = writes /\ Log' = Log
  BY DEF Close, Log, BatchOf, AuditRowsOf, HeadersOf
<1>5. Scopes!Undo(1)
  BY <1>2, <1>3, <1>4 DEF Scopes!Undo, Pending, Log
<1> QED BY <1>3, <1>5 DEF Simulated, Scopes!Next

-----------------------------------------------------------------------------
LEMMA ScopesInit == Init => Scopes!Init
<1> SUFFICES ASSUME Init PROVE Scopes!Init
  OBVIOUS
<1>1. Depth = 0 /\ writes = 0 /\ Log = {}
  BY DEF Init, Depth, Log
<1>2. \A c \in Conns : ItemsOf(c) = {}
  BY DEF Init, NoRows, ItemsOf
<1> QED BY <1>1, <1>2 DEF Scopes!Init, Scopes!NothingPending, Log

LEMMA ScopesStep == IInv /\ [Next]_vars => Simulated
<1> SUFFICES ASSUME TypeOK, CacheInv, [Next]_vars PROVE Simulated
  BY DEF IInv
<1>1. CASE Begin \/ BeginNested
  BY <1>1, PushSimulated DEF Begin, BeginNested
<1>2. CASE ToggleCapture \/ UNCHANGED vars \/ \E c \in Conns : HostStatementFails(c)
  BY <1>2, StutterSimulated DEF ToggleCapture, vars, HostStatementFails
<1>3. ASSUME NEW written \in (SUBSET Conns) \ {{}}, NEW audited \in SUBSET written,
             NEW dropped \in SUBSET audited, Flush(written, audited, dropped)
      PROVE  Simulated
  BY <1>3, FlushSimulated
<1>4. ASSUME NEW stored \in SUBSET Conns, FlushFails(stored) PROVE Simulated
  BY <1>4, FlushFailsSimulated
<1>5. ASSUME NEW c \in Conns, LogEvent(c) PROVE Simulated
  BY <1>5, LogEventSimulated
<1>6. ASSUME NEW c \in Conns, LogEventFails(c) PROVE Simulated
  BY <1>6, NothingWritten DEF LogEventFails
<1>7. ASSUME NEW d \in Conns, LogEventRefused(d) PROVE Simulated
  <2>1. \A c \in Conns : /\ rows[c] \subseteq rows'[c]
                          /\ \A r \in rows'[c] \ rows[c] : r.kind = "header"
    BY <1>7 DEF LogEventRefused, TypeOK
  <2> QED BY <1>7, <2>1, NothingWritten DEF LogEventRefused
<1>8. ASSUME NEW k \in Transactions, Release(k) PROVE Simulated
  BY <1>8, ReleaseSimulated
<1>9. ASSUME NEW k \in Transactions, Rollback(k) PROVE Simulated
  BY <1>9, RollbackSimulated
<1>10. CASE Commit
  <2>1. Depth' = 0
    BY <1>10 DEF Commit, EndRoot, Depth
  <2> QED BY <1>10, <2>1, EndSimulated DEF Commit, EndRoot
<1>11. ASSUME NEW done \in SUBSET Conns, CommitFails(done) PROVE Simulated
  <2>1. Depth' = 1
    BY <1>11 DEF CommitFails, Depth, TypeOK
  <2> QED BY <1>11, <2>1, EndSimulated DEF CommitFails
<1>12. CASE Close
  BY <1>12, CloseSimulated
<1> QED BY <1>1, <1>2, <1>3, <1>4, <1>5, <1>6, <1>7, <1>8, <1>9, <1>10, <1>11, <1>12 DEF Next

\* Changes and the entries about them live and die with their savepoint, are
\* published together, and under one transaction row: whatever the session and
\* the listener do, a caller sees what AuditScopes allows.
THEOREM ListenerImplementsScopes == Spec => ImplementsScopes
<1>1. Init => Scopes!Init
  BY ScopesInit
<1>2. IInv /\ [Next]_vars => [Scopes!Next]_(Scopes!scopes)
  BY ScopesStep DEF Simulated
<1> QED BY <1>1, <1>2, Inductive, PTL DEF Spec, ImplementsScopes, Scopes!Spec

=============================================================================
