---------------------------- MODULE PaginationProofs ----------------------------
(***************************************************************************)
(* Proofs about Pagination, for any log, streams, arguments and limit, and *)
(* any number of pages: each transaction is listed once, in the order of   *)
(* its newest entry, none that was there all the time is missed, and each  *)
(* page ends below the one before.                                         *)
(***************************************************************************)
EXTENDS Pagination, TLAPS, FiniteSetTheorems

-----------------------------------------------------------------------------
(* The inductive invariant.                                                *)

LogOk ==
  /\ ask \in Listings
  /\ tx \in [Rows -> Txs] /\ at \in [Txs -> Times] /\ in \in [Rows -> SUBSET ask.streams]
  /\ committed \subseteq Txs /\ atStart \subseteq committed
  /\ removed \in Nat /\ now \in Nat

\* The part of the log that the next page reads, and an entry it may list.
Below(r) == cursor.row = None \/ Newer(cursor.row, r)
Entry(r, t) == r \in Rows /\ tx[r] = t /\ Matches(r, first)

\* Nothing is listed before the first page has ended.  From then on the
\* lower bound is that of the first page.
BoundOk ==
  /\ first # None
  /\ ask.since # None => first = ask.since

CursorOk ==
  /\ cursor = NoCursor => listed = <<>> \/ page = Done
  /\ cursor # NoCursor =>
       BoundOk /\ cursor.row \in Rows /\ cursor = [row |-> cursor.row, since |-> first]

\* A group on an earlier page has an entry that is not below the cursor.
ListedOk ==
  /\ listed \in Seq(Txs \cup {None})
  /\ \A t \in ToSet(listed) \ {None} :
       t \in committed /\ \E r \in Rows : Entry(r, t) /\ (page # Done => ~Below(r))
  /\ ListedOnce

\* What a stream has left to merge: entries in order, none above the last one taken.
HitOk(hit) ==
  /\ Matches(hit, first) /\ tx[hit] \in committed /\ Below(hit)
  /\ page.last # None => ~Newer(hit, page.last)
  /\ tx[hit] \in ToSet(listed) => tx[hit] \in page.shown

StreamOk(st) ==
  /\ DOMAIN st = {"hits", "after", "ended"}
  /\ st.hits \in Seq(Rows) /\ st.ended \in BOOLEAN
  /\ \A i \in DOMAIN st.hits :
       HitOk(st.hits[i]) /\ \A j \in DOMAIN st.hits : i < j => Newer(st.hits[i], st.hits[j])
  /\ st.hits # <<>> => st.after = st.hits[Len(st.hits)]
  /\ st.hits = <<>> /\ ~st.ended =>
       st.after = IF page.last = None THEN cursor.row ELSE page.last

\* The groups picked so far, each by an entry that is not below this row.
PickedOk(row) ==
  /\ page.picked \in Seq(Txs)
  /\ \A i, j \in DOMAIN page.picked : page.picked[i] = page.picked[j] => i = j
  /\ \A t \in ToSet(page.picked) :
       /\ t \in committed /\ t \notin ToSet(listed)
       /\ \E r \in Rows : Entry(r, t) /\ (row # None => ~Newer(row, r))

SelectOk ==
  /\ BoundOk /\ page.bound = first
  /\ DOMAIN page = {"step", "bound", "picked", "last", "shown", "stream"}
  /\ PickedOk(page.last)
  /\ page.last = None => page.picked = <<>>
  /\ page.last # None =>
       /\ page.last \in Rows /\ Below(page.last)
       /\ tx[page.last] \in ToSet(page.picked) \cup page.shown
  /\ \A r \in Rows : Matches(r, first) /\ Below(r) /\ CreatedAt(r) > removed
                       /\ tx[r] \in ToSet(listed) => tx[r] \in page.shown
  /\ DOMAIN page.stream = ask.streams
  /\ \A s \in ask.streams : StreamOk(page.stream[s])

GroupsOk ==
  /\ BoundOk
  /\ DOMAIN page = {"step", "picked", "next"}
  /\ PickedOk(page.next.row)
  /\ page.next # NoCursor =>
       /\ page.next.row \in Rows /\ Below(page.next.row)
       /\ page.next = [row |-> page.next.row, since |-> first]

PageOk ==
  \/ page = Idle
  \/ page = Done
  \/ page.step = "select" /\ SelectOk
  \/ page.step = "groups" /\ GroupsOk

-----------------------------------------------------------------------------
(* Those that had committed when the listing started and are still there.  *)

Sure(t) == t \in atStart /\ at[t] > removed /\ t \notin Cancelling

Picked == IF page.step \in {"select", "groups"} THEN ToSet(page.picked) ELSE {}

\* This stream still has the row, or has it still to read.
Coming(r, st) == r \in ToSet(st.hits) \/ (~st.ended /\ (st.after = None \/ Newer(st.after, r)))

Ahead(r) ==
  CASE page.step = "idle" -> Below(r)
    [] page.step = "select" -> \A s \in in[r] : Coming(r, page.stream[s])
    [] page.step = "groups" -> page.next # NoCursor /\ Newer(page.next.row, r)
    [] OTHER -> FALSE

NoneLost ==
  /\ cursor = NoCursor /\ page = Idle => atStart = {}
  /\ \A r \in Rows : Sure(tx[r]) /\ Matches(r, first) =>
       tx[r] \in ToSet(listed) \cup Picked \/ Ahead(r)
  /\ page.step = "select" =>
       \A t \in page.shown : Sure(t) => t \in ToSet(listed)

\* A group is picked by its newest entry.
InOrder ==
  /\ NewestFirst
  /\ page.step \in {"select", "groups"} =>
       \A i \in DOMAIN page.picked : Sure(page.picked[i]) =>
         /\ Below(Newest(page.picked[i]))
         /\ \A j \in DOMAIN page.picked : i < j /\ Sure(page.picked[j]) =>
              Newer(Newest(page.picked[i]), Newest(page.picked[j]))

IInv == LogOk /\ CursorOk /\ ListedOk /\ PageOk /\ NoneLost /\ InOrder

-----------------------------------------------------------------------------
(* The order of rows, and what a statement with a LIMIT returns.           *)

LEMMA RowTyped ==
  ASSUME LogOk, NEW r \in Rows
  PROVE  CreatedAt(r) \in Nat /\ r \in Nat
  BY RowsAssumption DEF LogOk, CreatedAt

LEMMA NoneIsNoRow == None \notin Rows
  <1>1. None \notin Int
      BY MarkersAssumption
  <1>2. Rows \subseteq Nat
      BY RowsAssumption
  <1>3. None \notin Nat
      BY <1>1
  <1> QED
      BY <1>2, <1>3

LEMMA Order ==
  ASSUME LogOk
  PROVE  /\ \A r \in Rows : ~Newer(r, r)
         /\ \A r, s \in Rows : r = s \/ Newer(r, s) \/ Newer(s, r)
         /\ \A r, s \in Rows : ~(Newer(r, s) /\ Newer(s, r))
         /\ \A r, s, t \in Rows : Newer(r, s) /\ Newer(s, t) => Newer(r, t)
  <1>1. \A r \in Rows : CreatedAt(r) \in Nat /\ r \in Nat
      BY RowTyped
  <1> QED
      BY <1>1 DEF Newer

LEMMA TopOf ==
  ASSUME LogOk, NEW rows \in SUBSET Rows, NEW n \in Nat \ {0}
  PROVE  /\ Top(rows, n) \in Seq(rows) /\ Len(Top(rows, n)) <= n
         /\ \A i, j \in 1 .. Len(Top(rows, n)) :
              i < j => Newer(Top(rows, n)[i], Top(rows, n)[j])
         /\ \A r \in rows : \/ \E i \in 1 .. Len(Top(rows, n)) : r = Top(rows, n)[i]
                            \/ Len(Top(rows, n)) = n /\ Newer(Top(rows, n)[n], r)
  <1> DEFINE N == Cardinality(rows)
             Above(r) == {q \in rows : Newer(q, r)}
             rank == [r \in rows |-> Cardinality(Above(r))]
             m == IF N < n THEN N ELSE n
             top == Top(rows, n)
  <1>1. IsFiniteSet(rows) /\ N \in Nat
      BY RowsAssumption, FS_Subset, FS_CardinalityType
  <1>2. \A r \in rows : IsFiniteSet(Above(r)) /\ Cardinality(Above(r)) \in Nat
    <2> TAKE r \in rows
    <2>1. Above(r) \in SUBSET rows
        OBVIOUS
    <2> QED
        BY <1>1, <2>1, FS_Subset, FS_CardinalityType
  <1>3. \A x, y \in rows : Newer(x, y) => Cardinality(Above(x)) < Cardinality(Above(y))
    <2> SUFFICES ASSUME NEW x \in rows, NEW y \in rows, Newer(x, y)
                 PROVE  Cardinality(Above(x)) < Cardinality(Above(y))
        OBVIOUS
    <2>1. Above(x) \in SUBSET Above(y) /\ x \in Above(y) /\ x \notin Above(x)
        BY Order
    <2>2. Cardinality(Above(x)) <= Cardinality(Above(y)) /\
          Cardinality(Above(x)) # Cardinality(Above(y))
      <3> HIDE DEF Above
      <3> QED
          BY <1>2, <2>1, FS_Subset
    <2> QED
        BY <1>2, <2>2
  <1>4. \A r \in rows : Cardinality(Above(r)) < N
    <2> TAKE r \in rows
    <2>1. Above(r) \in SUBSET rows /\ r \notin Above(r)
        BY Order
    <2>2. Cardinality(Above(r)) <= N /\ Cardinality(Above(r)) # N
      <3> HIDE DEF Above
      <3> QED
          BY <1>1, <2>1, FS_Subset
    <2> QED
        BY <1>1, <1>2, <2>2
  <1>5. rank \in Injection(rows, 0 .. N - 1)
    <2>1. \A r \in rows : rank[r] \in 0 .. N - 1
      <3> HIDE DEF Above, N
      <3> QED
          BY <1>1, <1>2, <1>4
    <2>2. \A x, y \in rows : rank[x] = rank[y] => x = y
      <3> SUFFICES ASSUME NEW x \in rows, NEW y \in rows, rank[x] = rank[y], x # y
                   PROVE  FALSE
          OBVIOUS
      <3>1. Newer(x, y) \/ Newer(y, x)
          BY Order
      <3>2. rank[x] < rank[y] \/ rank[y] < rank[x]
          BY <3>1, <1>3
      <3> QED
          BY <3>2, <1>1, <2>1
    <2> QED
        BY <2>1, <2>2 DEF Injection, IsInjective
  <1>6. rank \in Surjection(rows, 0 .. N - 1)
    <2>1. IsFiniteSet(0 .. N - 1) /\ Cardinality(0 .. N - 1) = N
        BY <1>1, FS_Interval
    <2> HIDE DEF rank, N
    <2>2. Cardinality(rows) = Cardinality(0 .. N - 1)
        BY <2>1 DEF N
    <2> QED
        BY <1>5, <2>1, <2>2, FS_Injection
  <1>7. m \in Nat /\ m <= n /\ m <= N
      BY <1>1
  <1>8. top = [i \in 1 .. m |-> CHOOSE r \in rows : Cardinality(Above(r)) = i - 1]
      BY DEF Top
  <1>9. \A i \in 1 .. m : top[i] \in rows /\ Cardinality(Above(top[i])) = i - 1
    <2> TAKE i \in 1 .. m
    <2>1. i - 1 \in 0 .. N - 1
        BY <1>1, <1>7
    <2>2. \E r \in rows : rank[r] = i - 1
        BY <1>6, <2>1 DEF Surjection
    <2>3. \E r \in rows : Cardinality(Above(r)) = i - 1
        BY <2>2
    <2>4. top[i] = CHOOSE r \in rows : Cardinality(Above(r)) = i - 1
        BY <1>8
    <2> HIDE DEF Above, top, m, N
    <2> QED
        BY <2>3, <2>4
  <1>10. top \in Seq(rows) /\ Len(top) = m /\ DOMAIN top = 1 .. m
    <2> HIDE DEF Above, top, m, N
    <2> QED
        BY <1>7, <1>8, <1>9
  <1>11. \A i, j \in 1 .. m : i < j => Newer(top[i], top[j])
    <2> SUFFICES ASSUME NEW i \in 1 .. m, NEW j \in 1 .. m, i < j, ~Newer(top[i], top[j])
                 PROVE  FALSE
        OBVIOUS
    <2>1. top[i] = top[j] \/ Newer(top[j], top[i])
        BY <1>9, Order
    <2>2. Cardinality(Above(top[j])) <= Cardinality(Above(top[i]))
      <3> HIDE DEF Above, top, m, N
      <3> QED
          BY <1>2, <1>3, <1>9, <2>1
    <2> QED
        BY <1>7, <1>9, <2>2
  <1>12. \A r \in rows : (\E i \in 1 .. m : r = top[i]) \/ (m = n /\ Newer(top[n], r))
    <2> TAKE r \in rows
    <2> DEFINE k == Cardinality(Above(r))
    <2>1. k \in Nat /\ k < N
        BY <1>2, <1>4
    <2>2. CASE k < m
      <3>1. k + 1 \in 1 .. m
          BY <1>7, <2>1, <2>2
      <3>2. rank[top[k + 1]] = rank[r] /\ top[k + 1] \in rows
          BY <1>9, <2>1, <3>1
      <3>3. top[k + 1] = r
        <4> HIDE DEF rank, top
        <4> QED
            BY <1>5, <3>2 DEF Injection, IsInjective
      <3> QED
          BY <3>1, <3>3
    <2>3. CASE ~(k < m)
      <3>1. m = n /\ n \in 1 .. m
          BY <1>1, <1>7, <2>1, <2>3
      <3>2. Cardinality(Above(top[n])) < k /\ top[n] \in rows
          BY <1>9, <2>1, <2>3, <3>1
      <3>3. top[n] = r \/ Newer(top[n], r) \/ Newer(r, top[n])
          BY <3>2, Order
      <3>4. ~Newer(r, top[n]) /\ top[n] # r
        <4> HIDE DEF Above, top, m, N
        <4> QED
            BY <1>2, <1>3, <2>1, <3>2 DEF k
      <3> QED
          BY <3>1, <3>3, <3>4
    <2> QED
        BY <2>2, <2>3
  <1> HIDE DEF Above, top, m, N
  <1>13. top = Top(rows, n)
      BY DEF top
  <1> QED
      BY <1>7, <1>10, <1>11, <1>12, <1>13

LEMMA NewestIs ==
  ASSUME LogOk, NEW t, \E r \in Rows : Entry(r, t)
  PROVE  Entry(Newest(t), t) /\ \A r \in Rows : Entry(r, t) => ~Newer(r, Newest(t))
  <1> DEFINE rows == {r \in Rows : Entry(r, t)}
  <1> HIDE DEF rows
  <1>1. rows \in SUBSET Rows /\ \A r \in Rows : r \in rows <=> Entry(r, t)
      BY DEF rows
  <1>2. PICK top : top = Top(rows, 1)
      OBVIOUS
  <1>3. /\ top \in Seq(rows) /\ Len(top) <= 1
        /\ \A r \in rows : (\E i \in 1 .. Len(top) : r = top[i]) \/ (Len(top) = 1 /\ Newer(top[1], r))
    <2>1. 1 \in Nat \ {0}
        OBVIOUS
    <2>2. /\ Top(rows, 1) \in Seq(rows) /\ Len(Top(rows, 1)) <= 1
          /\ \A r \in rows : \/ \E i \in 1 .. Len(Top(rows, 1)) : r = Top(rows, 1)[i]
                             \/ Len(Top(rows, 1)) = 1 /\ Newer(Top(rows, 1)[1], r)
        BY <1>1, <2>1, TopOf
    <2> QED
        BY <1>2, <2>2
  <1>4. Len(top) = 1 /\ top[1] \in rows
    <2>1. PICK r \in rows : TRUE
        BY <1>1
    <2>2. PICK n \in Nat : n = Len(top) /\ n <= 1
        BY <1>3
    <2>3. (\E i \in 1 .. n : r = top[i]) \/ n = 1
        BY <1>3, <2>1, <2>2
    <2>4. n = 1
        BY <2>2, <2>3
    <2>5. \A i \in 1 .. n : top[i] \in rows
        BY <1>3, <2>2
    <2> QED
        BY <2>2, <2>4, <2>5
  <1>5. \A r \in rows : ~Newer(r, top[1])
    <2> TAKE r \in rows
    <2>1. r = top[1] \/ Newer(top[1], r)
        BY <1>3, <1>4
    <2> QED
        BY <1>1, <1>4, <2>1, Order
  <1>6. \E n \in Rows : Entry(n, t) /\ \A r \in Rows : Entry(r, t) => ~Newer(r, n)
      BY <1>1, <1>4, <1>5
  <1>7. \E n \in Rows : /\ tx[n] = t /\ Matches(n, first)
                        /\ \A q \in Rows : tx[q] = t /\ Matches(q, first) => ~Newer(q, n)
      BY <1>6 DEF Entry
  <1>8. /\ Newest(t) \in Rows /\ tx[Newest(t)] = t /\ Matches(Newest(t), first)
        /\ \A q \in Rows : tx[q] = t /\ Matches(q, first) => ~Newer(q, Newest(t))
      BY <1>7 DEF Newest
  <1> QED
      BY <1>8 DEF Entry

LEMMA LogSame ==
  ASSUME UNCHANGED <<log, first>>
  PROVE  /\ \A r, s : Newer(r, s)' <=> Newer(r, s)
         /\ \A r, t : Entry(r, t)' <=> Entry(r, t)
         /\ \A r : Matches(r, first)' <=> Matches(r, first)
         /\ \A r : CreatedAt(r)' = CreatedAt(r)
         /\ \A t : Newest(t)' = Newest(t)
  BY DEF log, Newer, Entry, Matches, InBounds, CreatedAt, Newest

-----------------------------------------------------------------------------
(* What happens meanwhile: commits, retention, time.                       *)

LEMMA MeanwhileKeeps ==
  ASSUME IInv, UNCHANGED <<log, cursor, page, listed, atStart, first>>,
         committed \subseteq committed', committed' \subseteq Txs,
         removed' \in Nat, removed <= removed', now' \in Nat
  PROVE  IInv'
  <1>1. LogOk'
      BY DEF IInv, LogOk, log
  <1>2. /\ \A r, s : Newer(r, s)' <=> Newer(r, s)
        /\ \A r, t : Entry(r, t)' <=> Entry(r, t)
        /\ \A r : Matches(r, first)' <=> Matches(r, first)
        /\ \A r : CreatedAt(r)' = CreatedAt(r)
        /\ \A t : Newest(t)' = Newest(t)
      BY LogSame
  <1>3. \A r : Below(r)' <=> Below(r)
      BY <1>2 DEF Below
  <1>4. CursorOk'
      BY DEF IInv, CursorOk, BoundOk, log
  <1>5. ListedOk'
      BY <1>2, <1>3 DEF IInv, ListedOk, ListedOnce
  <1>6. ASSUME NEW t \in Txs PROVE Sure(t)' => Sure(t)
    <2>1. at[t] \in Nat /\ at' = at
        BY RowsAssumption DEF IInv, LogOk, log
    <2> QED
        BY <2>1 DEF Sure, IInv, LogOk
  <1>7. PageOk'
    <2>1. CASE page = Idle \/ page = Done
        BY <2>1 DEF PageOk, Idle, Done
    <2>2. CASE page.step = "select" /\ SelectOk
      <3>1. BoundOk' /\ (page.bound = first)'
          BY <2>2 DEF SelectOk, BoundOk, log
      <3>2. PickedOk(page.last)'
          BY <1>2, <2>2 DEF SelectOk, PickedOk
      <3>3. ASSUME NEW s \in ask.streams PROVE StreamOk(page.stream[s])'
        <4>1. \A hit : HitOk(hit) => HitOk(hit)'
            BY <1>2, <1>3 DEF HitOk, log
        <4>2. StreamOk(page.stream[s])
            BY <2>2 DEF SelectOk
        <4>3. cursor' = cursor /\ page' = page
            OBVIOUS
        <4> QED
            BY <1>2, <4>1, <4>2, <4>3 DEF StreamOk
      <3>4. \A r \in Rows : CreatedAt(r) > removed' => CreatedAt(r) > removed
          BY RowTyped DEF IInv, LogOk
      <3> QED
          BY <1>2, <1>3, <2>2, <3>1, <3>2, <3>3, <3>4 DEF PageOk, SelectOk, log
    <2>3. CASE page.step = "groups" /\ GroupsOk
      <3>1. BoundOk'
          BY <2>3 DEF GroupsOk, BoundOk, log
      <3>2. PickedOk(page.next.row)'
          BY <1>2, <2>3 DEF GroupsOk, PickedOk
      <3> QED
          BY <1>3, <2>3, <3>1, <3>2 DEF PageOk, GroupsOk
    <2> QED
        BY <2>1, <2>2, <2>3 DEF IInv, PageOk
  <1>8. NoneLost'
    <2>1. \A r \in Rows : Ahead(r)' <=> Ahead(r)
        BY <1>2, <1>3 DEF Ahead, Coming, log
    <2>2. \A r \in Rows : tx[r] \in Txs /\ tx' = tx
        BY DEF IInv, LogOk, log
    <2>3. \A t : Sure(t)' => t \in Txs
        BY DEF Sure, IInv, LogOk
    <2> QED
        BY <1>2, <1>6, <2>1, <2>2, <2>3 DEF IInv, NoneLost, Picked
  <1>9. InOrder'
    <2>1. \A t : Sure(t)' => t \in Txs
        BY DEF Sure, IInv, LogOk
    <2> QED
        BY <1>2, <1>3, <1>6, <2>1 DEF IInv, InOrder, NewestFirst
  <1> QED
      BY <1>1, <1>4, <1>5, <1>7, <1>8, <1>9 DEF IInv

-----------------------------------------------------------------------------
(* A page.                                                                 *)

LEMMA BoundIs ==
  ASSUME LogOk, CursorOk, page = Idle
  PROVE  /\ Bound # None /\ (ask.since # None => Bound = ask.since)
         /\ cursor # NoCursor => Bound = first
  <1>1. /\ ask.since \in Int \cup {None, AllHistory}
        /\ ask.until \in Int \cup {None} /\ ask.window \in Int \cup {None}
      BY ListingsAssumption DEF LogOk
  <1>2. now \in Int
      BY DEF LogOk
  <1>3. None \notin Int /\ AllHistory # None
      BY MarkersAssumption
  <1>4. cursor # NoCursor => cursor.since = first /\ first # None
      BY DEF CursorOk, BoundOk
  <1>5. Latest \in Int
      BY <1>1, <1>2 DEF Latest
  <1>6. ask.window # None => Latest - ask.window \in Int
      BY <1>1, <1>5
  <1> QED
      BY <1>1, <1>3, <1>4, <1>6 DEF Bound, CursorOk, BoundOk

LEMMA StartPageKeeps ==
  ASSUME IInv, StartPage
  PROVE  IInv'
  <1> USE DEF IInv
  <1>1. page = Idle /\ UNCHANGED <<log, committed, removed, now, cursor, listed>>
      BY DEF StartPage
  <1>2. PICK bound, shown :
          /\ bound = Bound /\ shown = IF cursor.row = None THEN {} ELSE Shown(bound)
          /\ page' = [step |-> "select", bound |-> bound, picked |-> <<>>, last |-> None,
                      shown |-> shown, stream |-> [s \in ask.streams |-> Unread]]
      BY DEF StartPage
  <1>3. /\ page'.step = "select" /\ page'.bound = bound /\ page'.picked = <<>>
        /\ page'.last = None /\ page'.shown = shown
        /\ page'.stream = [s \in ask.streams |-> Unread]
        /\ DOMAIN page' = {"step", "bound", "picked", "last", "shown", "stream"}
        /\ page' # Idle /\ page' # Done
      BY <1>2 DEF Idle, Done
  <1>4. /\ bound # None /\ (ask.since # None => bound = ask.since)
        /\ cursor # NoCursor => bound = first
      BY <1>1, <1>2, BoundIs
  <1>5. first' = bound /\ BoundOk'
      BY <1>1, <1>2, <1>4 DEF StartPage, BoundOk, log
  <1>6. atStart' \subseteq committed
      BY DEF StartPage, LogOk
  <1>7. LogOk'
      BY <1>1, <1>6 DEF LogOk, log
  <1>8. /\ \A r \in Rows : tx[r] \in Txs /\ in[r] \subseteq ask.streams
        /\ \A r : CreatedAt(r)' = CreatedAt(r) /\ \A s : Newer(r, s)' <=> Newer(r, s)
        /\ \A r : Below(r)' <=> Below(r)
      BY <1>1 DEF LogOk, log, CreatedAt, Newer, Below
  <1>9. \A s \in ask.streams : page'.stream[s] = Unread
      BY <1>3
  <1>10. /\ Unread.hits = <<>> /\ Unread.after = cursor.row /\ Unread.ended = FALSE
        /\ DOMAIN Unread = {"hits", "after", "ended"}
      BY DEF Unread
  <1>11. ASSUME NEW s \in ask.streams PROVE StreamOk(page.stream[s])'
    <2>1. (page.stream[s])' = Unread
        BY <1>9
    <2>2. PICK st : st = Unread
        OBVIOUS
    <2>3. /\ DOMAIN st = {"hits", "after", "ended"} /\ st.hits = <<>>
          /\ st.ended = FALSE /\ st.after = cursor.row
        BY <1>10, <2>2
    <2>5. DOMAIN st.hits = {} /\ st.hits \in Seq(Rows)
        BY <2>3
    <2>4. (page.last)' = None /\ cursor' = cursor
        BY <1>1, <1>3
    <2> HIDE DEF IInv
    <2> QED
        BY <2>1, <2>2, <2>3, <2>4, <2>5 DEF StreamOk
  <1>12. PickedOk(page.last)' /\ Picked' = {}
      BY <1>3 DEF PickedOk, ToSet, Picked
  <1>13. \A r \in Rows : (cursor.row = None \/ Newer(cursor.row, r)) => Ahead(r)'
    <2> SUFFICES ASSUME NEW r \in Rows, cursor.row = None \/ Newer(cursor.row, r)
                 PROVE  Ahead(r)'
        OBVIOUS
    <2>1. \A s \in in[r] : page'.stream[s] = Unread
        BY <1>8, <1>9
    <2> QED
        BY <1>1, <1>3, <1>8, <1>10, <2>1 DEF Ahead, Coming, log
  <1>14. CASE cursor = NoCursor
    <2>1. listed = <<>> /\ shown = {} /\ cursor.row = None
        BY <1>1, <1>2, <1>14 DEF CursorOk, NoCursor, Idle, Done
    <2>2. ToSet(listed) = {} /\ DOMAIN listed = {}
        BY <2>1 DEF ToSet
    <2>3. CursorOk' /\ ListedOk' /\ ListedOk'
        BY <1>1, <1>14, <2>1, <2>2 DEF CursorOk, ListedOk, ListedOnce
    <2>4. SelectOk'
        BY <1>1, <1>3, <1>5, <1>11, <1>12, <2>2 DEF SelectOk, log
    <2>5. NoneLost'
        BY <1>1, <1>3, <1>13, <2>1 DEF NoneLost
    <2>6. InOrder'
        BY <1>1, <1>3, <2>2 DEF InOrder, NewestFirst
    <2> QED
        BY <1>3, <1>7, <2>3, <2>4, <2>5, <2>6 DEF PageOk
  <1>15. CASE cursor # NoCursor
    <2>1. UNCHANGED <<log, first>> /\ atStart' = atStart /\ bound = first
        BY <1>1, <1>2, <1>4, <1>15 DEF StartPage
    <2>2. /\ \A r, t : Entry(r, t)' <=> Entry(r, t)
          /\ \A r : Matches(r, first)' <=> Matches(r, first)
          /\ \A t : Newest(t)' = Newest(t)
        BY <2>1, LogSame
    <2>3. CursorOk'
        BY <1>1, <1>5, <1>15, <2>1 DEF CursorOk
    <2>4. ListedOk'
      <3>1. page # Done
          BY <1>1 DEF Idle, Done
      <3> QED
          BY <1>1, <1>3, <1>8, <2>2, <3>1 DEF ListedOk, ListedOnce
    <2>5. cursor.row \in Rows /\ cursor.row # None /\ None \notin Rows /\ shown = Shown(first)
        BY <1>2, <1>15, <2>1, RowsAssumption, MarkersAssumption DEF CursorOk
    <2>6. \A r \in Rows : Matches(r, first) /\ Below(r) /\ CreatedAt(r) > removed
                            /\ tx[r] \in ToSet(listed) => tx[r] \in shown
      <3> SUFFICES ASSUME NEW r \in Rows, Below(r), CreatedAt(r) > removed,
                          tx[r] \in ToSet(listed)
                   PROVE  tx[r] \in Shown(first)
          BY <2>5
      <3>1. tx[r] \in Txs /\ tx[r] # None
          BY <1>8, MarkersAssumption
      <3>2. PICK q \in Rows : Entry(q, tx[r]) /\ ~Below(q) /\ tx[r] \in committed
          BY <1>1, <3>1 DEF ListedOk, Idle, Done
      <3>3. CreatedAt(q) = CreatedAt(r) /\ tx[q] = tx[r] /\ Matches(q, first)
          BY <3>2 DEF Entry, CreatedAt
      <3>4. Newer(cursor.row, r) /\ ~Newer(cursor.row, q)
          BY <2>5, <3>2 DEF Below
      <3>5. CreatedAt(q) = CreatedAt(cursor.row) /\ q >= cursor.row
        <4>1. \A x \in {q, r, cursor.row} : CreatedAt(x) \in Nat /\ x \in Nat
            BY <2>5, RowTyped
        <4> QED
            BY <3>3, <3>4, <4>1 DEF Newer
      <3> QED
          BY <3>2, <3>3, <3>5 DEF Shown, Readable
    <2>7. SelectOk'
        BY <1>1, <1>3, <1>5, <1>8, <1>11, <1>12, <2>1, <2>2, <2>6 DEF SelectOk, log
    <2>8. \A t \in shown : Sure(t) => t \in ToSet(listed)
      <3> SUFFICES ASSUME NEW t \in Shown(first), Sure(t)
                   PROVE  t \in ToSet(listed)
          BY <2>5
      <3>1. PICK q \in Rows : /\ tx[q] = t /\ Matches(q, first)
                              /\ CreatedAt(q) = CreatedAt(cursor.row) /\ q >= cursor.row
          BY DEF Shown
      <3>2. CreatedAt(q) \in Nat /\ q \in Nat /\ cursor.row \in Nat
          BY <2>5, RowTyped
      <3>3. ~Below(q)
          BY <2>5, <3>1, <3>2 DEF Below, Newer
      <3>4. ~Ahead(q) /\ Picked = {}
          BY <1>1, <3>3 DEF Ahead, Picked, Idle
      <3> QED
          BY <3>1, <3>4 DEF NoneLost
    <2>9. NoneLost'
      <3>1. \A t : Sure(t)' <=> Sure(t)
          BY <1>1, <2>1 DEF Sure, log
      <3>2. \A r \in Rows : Sure(tx[r]) /\ Matches(r, first) =>
              tx[r] \in ToSet(listed) \/ Below(r)
          BY <1>1 DEF NoneLost, Picked, Ahead, Idle
      <3>3. tx' = tx
          BY <1>1 DEF log
      <3> QED
          BY <1>1, <1>3, <1>13, <2>2, <2>8, <3>1, <3>2, <3>3 DEF NoneLost, Below
    <2>10. InOrder'
        BY <1>1, <1>3, <1>8, <2>1, <2>2 DEF InOrder, NewestFirst
    <2> QED
        BY <1>3, <1>7, <2>3, <2>4, <2>7, <2>9, <2>10 DEF PageOk
  <1> QED
      BY <1>14, <1>15

\* What a step that reads or merges hits leaves as it is.
LEMMA SelectStep ==
  ASSUME IInv, page.step = "select", page'.step \in {"select", "groups"},
         UNCHANGED <<log, committed, removed, now, cursor, listed, atStart, first>>
  PROVE  /\ SelectOk
         /\ LogOk' /\ CursorOk' /\ ListedOk' /\ BoundOk' /\ NewestFirst'
         /\ \A r, s : Newer(r, s)' <=> Newer(r, s)
         /\ \A r, t : Entry(r, t)' <=> Entry(r, t)
         /\ \A r : Matches(r, first)' <=> Matches(r, first)
         /\ \A r : CreatedAt(r)' = CreatedAt(r)
         /\ \A t : Newest(t)' = Newest(t)
         /\ \A r : Below(r)' <=> Below(r)
         /\ \A t : Sure(t)' <=> Sure(t)
  <1>1. /\ \A r, s : Newer(r, s)' <=> Newer(r, s)
        /\ \A r, t : Entry(r, t)' <=> Entry(r, t)
        /\ \A r : Matches(r, first)' <=> Matches(r, first)
        /\ \A r : CreatedAt(r)' = CreatedAt(r)
        /\ \A t : Newest(t)' = Newest(t)
      BY LogSame
  <1>2. \A r : Below(r)' <=> Below(r)
      BY <1>1 DEF Below
  <1>3. page # Idle /\ page # Done /\ page' # Done
      BY DEF Idle, Done
  <1>4. SelectOk
      BY <1>3 DEF IInv, PageOk
  <1>5. LogOk' /\ CursorOk'
      BY <1>3 DEF IInv, LogOk, CursorOk, BoundOk, log
  <1>6. ListedOk'
      BY <1>1, <1>2, <1>3 DEF IInv, ListedOk, ListedOnce
  <1>7. BoundOk'
      BY <1>4 DEF SelectOk, BoundOk, log
  <1>8. NewestFirst'
      BY <1>1 DEF IInv, InOrder, NewestFirst
  <1>9. \A t : Sure(t)' <=> Sure(t)
      BY DEF Sure, log
  <1> QED
      BY <1>1, <1>2, <1>4, <1>5, <1>6, <1>7, <1>8, <1>9

\* The row of a cursor, if there is one, is a row.
LEMMA CursorRow ==
  ASSUME CursorOk
  PROVE  cursor.row # None => cursor.row \in Rows
  BY DEF CursorOk, NoCursor

LEMMA ReadHitsKeeps ==
  ASSUME IInv, NEW s \in ask.streams, ReadHits(s)
  PROVE  IInv'
  <1>1. /\ page.step = "select" /\ page.stream[s].hits = <<>> /\ page.stream[s].ended = FALSE
        /\ UNCHANGED <<log, committed, removed, now, cursor, listed, atStart, first>>
    <2>1. /\ page.step = "select" /\ page.stream[s].hits = <<>> /\ ~page.stream[s].ended
          /\ UNCHANGED <<log, committed, removed, now, cursor, listed, atStart, first>>
        BY DEF ReadHits
    <2>2. StreamOk(page.stream[s])
        BY <2>1 DEF IInv, PageOk, SelectOk, Idle, Done
    <2> QED
        BY <2>1, <2>2 DEF StreamOk
  <1>2. PICK after, found, batch, new :
          /\ after = page.stream[s].after
          /\ found = {r \in Rows : /\ Readable(r) /\ Matches(r, page.bound) /\ s \in in[r]
                                   /\ after = None \/ Newer(after, r)}
          /\ batch = Top(found, ask.limit + 1)
          /\ new = [hits |-> batch, ended |-> Len(batch) <= ask.limit,
                    after |-> IF batch = <<>> THEN after ELSE Last(batch)]
          /\ page' = [page EXCEPT !.stream[s] = new]
      BY DEF ReadHits
  <1>3. SelectOk
      BY <1>1 DEF IInv, PageOk, Idle, Done
  <1>4. /\ page'.step = "select" /\ page'.bound = page.bound /\ page'.picked = page.picked
        /\ page'.last = page.last /\ page'.shown = page.shown
        /\ page'.stream = [page.stream EXCEPT ![s] = new]
        /\ DOMAIN page' = {"step", "bound", "picked", "last", "shown", "stream"}
      BY <1>1, <1>2, <1>3 DEF SelectOk
  <1>5. /\ LogOk' /\ CursorOk' /\ ListedOk' /\ BoundOk' /\ NewestFirst'
        /\ \A r, q : Newer(r, q)' <=> Newer(r, q)
        /\ \A r, t : Entry(r, t)' <=> Entry(r, t)
        /\ \A r : Matches(r, first)' <=> Matches(r, first)
        /\ \A r : CreatedAt(r)' = CreatedAt(r)
        /\ \A t : Newest(t)' = Newest(t)
        /\ \A r : Below(r)' <=> Below(r)
        /\ \A t : Sure(t)' <=> Sure(t)
      BY <1>1, <1>4, SelectStep
  <1>6. /\ page'.stream[s] = new /\ DOMAIN page'.stream = ask.streams
        /\ \A o \in ask.streams : o # s => page'.stream[o] = page.stream[o]
      BY <1>3, <1>4 DEF SelectOk
  <1>7. /\ DOMAIN new = {"hits", "after", "ended"} /\ new.hits = batch
        /\ new.ended = (Len(batch) <= ask.limit)
        /\ new.after = IF batch = <<>> THEN after ELSE Last(batch)
      BY <1>2
  <1>8. ask.limit \in Nat \ {0} /\ ask.limit + 1 \in Nat \ {0}
      BY ListingsAssumption DEF IInv, LogOk
  <1>9. found \in SUBSET Rows
      BY <1>2
  <1>10. PICK n : n = Len(batch)
      OBVIOUS
  <1>11. /\ batch \in Seq(found) /\ n <= ask.limit + 1
         /\ \A i, j \in 1 .. n : i < j => Newer(batch[i], batch[j])
         /\ \A r \in found : \/ \E i \in 1 .. n : r = batch[i]
                             \/ n = ask.limit + 1 /\ Newer(batch[n], r)
    <2>1. LogOk
        BY DEF IInv
    <2>2. PICK cap \in Nat \ {0} : cap = ask.limit + 1
        BY <1>8
    <2>3. batch = Top(found, cap)
        BY <1>2, <2>2
    <2>4. /\ Top(found, cap) \in Seq(found) /\ Len(Top(found, cap)) <= cap
          /\ \A i, j \in 1 .. Len(Top(found, cap)) :
               i < j => Newer(Top(found, cap)[i], Top(found, cap)[j])
          /\ \A r \in found : \/ \E i \in 1 .. Len(Top(found, cap)) : r = Top(found, cap)[i]
                              \/ Len(Top(found, cap)) = cap /\ Newer(Top(found, cap)[cap], r)
        BY <1>9, <2>1, TopOf
    <2> QED
        BY <1>10, <2>2, <2>3, <2>4
  <1>12. DOMAIN batch = 1 .. n /\ \A i \in 1 .. n : batch[i] \in found
      BY <1>10, <1>11
  <1>13. after = IF page.last = None THEN cursor.row ELSE page.last
      BY <1>1, <1>2, <1>3 DEF SelectOk, StreamOk
  <1>14. \A r \in found :
           /\ r \in Rows /\ Matches(r, first) /\ tx[r] \in committed /\ CreatedAt(r) > removed
           /\ Below(r) /\ (page.last # None => ~Newer(r, page.last))
    <2> SUFFICES ASSUME NEW r \in found
                 PROVE  /\ r \in Rows /\ Matches(r, first) /\ tx[r] \in committed
                        /\ CreatedAt(r) > removed
                        /\ Below(r) /\ (page.last # None => ~Newer(r, page.last))
        OBVIOUS
    <2>1. /\ r \in Rows /\ Matches(r, first) /\ tx[r] \in committed /\ CreatedAt(r) > removed
          /\ after = None \/ Newer(after, r)
        BY <1>2, <1>3 DEF SelectOk, Readable
    <2>2. CASE page.last = None
        BY <1>13, <2>1, <2>2 DEF Below
    <2>3. CASE page.last # None
      <3>1. page.last \in Rows /\ Below(page.last)
          BY <1>3, <2>3 DEF SelectOk
      <3>2. Newer(page.last, r)
          BY <1>13, <2>1, <2>3, <3>1
      <3>3. cursor.row # None => cursor.row \in Rows
          BY CursorRow DEF IInv
      <3> QED
          BY <2>1, <3>1, <3>2, <3>3, Order DEF IInv, Below
    <2> QED
        BY <2>2, <2>3
  <1>15. \A hit : HitOk(hit) => HitOk(hit)'
      BY <1>1, <1>4, <1>5 DEF HitOk, log
  <1>16. StreamOk(page.stream[s])'
    <2>1. new.hits \in Seq(Rows) /\ new.ended \in BOOLEAN
        BY <1>7, <1>9, <1>11
    <2>2. \A i \in DOMAIN new.hits : HitOk(new.hits[i])' /\
             \A j \in DOMAIN new.hits : i < j => Newer(new.hits[i], new.hits[j])
      <3>1. \A hit \in found : HitOk(hit)
          BY <1>3, <1>14 DEF SelectOk, HitOk
      <3> QED
          BY <1>7, <1>11, <1>12, <1>15, <3>1
    <2>3. new.hits # <<>> => new.after = new.hits[Len(new.hits)]
        BY <1>7 DEF Last
    <2>4. new.hits = <<>> => new.ended
      <3>1. batch = <<>> => Len(batch) = 0
          OBVIOUS
      <3>2. Len(batch) = 0 => Len(batch) <= ask.limit
          BY <1>8
      <3>3. new.hits = batch /\ new.ended = (Len(batch) <= ask.limit)
          BY <1>7
      <3> QED
          BY <3>1, <3>2, <3>3, Zenon
    <2> HIDE DEF IInv
    <2> QED
        BY <1>1, <1>4, <1>5, <1>6, <1>7, <2>1, <2>2, <2>3, <2>4 DEF StreamOk
  <1>17. \A o \in ask.streams : StreamOk(page.stream[o])'
    <2> SUFFICES ASSUME NEW o \in ask.streams, o # s PROVE StreamOk(page.stream[o])'
        BY <1>16
    <2>1. (page.stream[o])' = page.stream[o]
        BY <1>6
    <2>2. StreamOk(page.stream[o])
        BY <1>3 DEF SelectOk
    <2> QED
        BY <1>1, <1>4, <1>5, <1>15, <2>1, <2>2 DEF StreamOk
  <1>18. SelectOk'
    <2>1. PickedOk(page.last)'
        BY <1>1, <1>3, <1>4, <1>5 DEF SelectOk, PickedOk
    <2> QED
        BY <1>1, <1>3, <1>4, <1>5, <1>6, <1>17, <2>1 DEF SelectOk, log
  <1>19. NoneLost'
    <2>1. Picked' = Picked /\ page' # Idle
        BY <1>1, <1>4 DEF Picked, Idle
    <2>2. ASSUME NEW r \in Rows, Sure(tx[r]), Matches(r, first), Ahead(r)
          PROVE  Ahead(r)'
      <3>1. \A o \in in[r] : Coming(r, page.stream[o]) /\ o \in ask.streams
          BY <1>1, <2>2 DEF Ahead, IInv, LogOk
      <3>2. s \in in[r] => Coming(r, new)
        <4> SUFFICES ASSUME s \in in[r] PROVE Coming(r, new)
            OBVIOUS
        <4>1. after = None \/ Newer(after, r)
            BY <1>1, <1>2, <3>1 DEF Coming, ToSet
        <4>2. Readable(r) /\ page.bound = first
            BY <1>3, <2>2 DEF Readable, Sure, CreatedAt, IInv, LogOk, SelectOk
        <4>3. r \in found
            BY <1>2, <2>2, <4>1, <4>2
        <4>4. CASE \E i \in 1 .. n : r = batch[i]
            BY <1>7, <1>12, <4>4 DEF Coming, ToSet
        <4>5. CASE n = ask.limit + 1 /\ Newer(batch[n], r)
          <5>1. batch # <<>> /\ Last(batch) = batch[n] /\ ~(Len(batch) <= ask.limit)
            <6>1. n # 0 /\ ~(n <= ask.limit) /\ (batch = <<>> => Len(batch) = 0)
                BY <1>8, <4>5
            <6> QED
                BY <1>10, <6>1 DEF Last
          <5> QED
              BY <1>7, <4>5, <5>1 DEF Coming
        <4> QED
            BY <1>11, <4>3, <4>4, <4>5
      <3>3. \A o \in in[r] : Coming(r, page'.stream[o])
          BY <1>6, <3>1, <3>2
      <3> QED
          BY <1>1, <1>4, <1>5, <3>3 DEF Ahead, Coming, log
    <2> QED
        BY <1>1, <1>4, <1>5, <2>1, <2>2 DEF IInv, NoneLost, log
  <1>20. InOrder'
      BY <1>1, <1>4, <1>5 DEF IInv, InOrder
  <1> QED
      BY <1>4, <1>5, <1>18, <1>19, <1>20 DEF IInv, PageOk

LEMMA WeakOrder ==
  ASSUME LogOk, NEW r \in Rows, NEW s \in Rows, NEW t \in Rows
  PROVE  /\ ~Newer(r, s) /\ ~Newer(s, t) => ~Newer(r, t)
         /\ ~Newer(s, r) /\ Newer(s, t) => Newer(r, t)
         /\ Newer(r, s) /\ ~Newer(t, s) => Newer(r, t)
  BY Order

LEMMA Appended ==
  ASSUME NEW S, NEW s \in Seq(S), NEW x \in S
  PROVE  /\ Append(s, x) \in Seq(S) /\ ToSet(Append(s, x)) = ToSet(s) \cup {x}
         /\ DOMAIN Append(s, x) = 1 .. Len(s) + 1 /\ DOMAIN s = 1 .. Len(s) /\ Len(s) \in Nat
         /\ \A i \in DOMAIN s : Append(s, x)[i] = s[i]
         /\ Append(s, x)[Len(s) + 1] = x
  <1>1. /\ Append(s, x) \in Seq(S) /\ Len(s) \in Nat
        /\ DOMAIN Append(s, x) = 1 .. Len(s) + 1 /\ DOMAIN s = 1 .. Len(s)
        /\ \A i \in DOMAIN s : Append(s, x)[i] = s[i]
        /\ Append(s, x)[Len(s) + 1] = x
      OBVIOUS
  <1>2. \A i \in 1 .. Len(s) + 1 : i \in 1 .. Len(s) \/ i = Len(s) + 1
      BY <1>1
  <1>3. Len(s) + 1 \in 1 .. Len(s) + 1 /\ \A i \in 1 .. Len(s) : i \in 1 .. Len(s) + 1
      BY <1>1
  <1>4. ToSet(Append(s, x)) = ToSet(s) \cup {x}
    <2> DEFINE a == Append(s, x)
    <2>1. \A i \in DOMAIN a : a[i] \in ToSet(s) \cup {x}
        BY <1>1, <1>2 DEF ToSet
    <2>2. \A i \in DOMAIN s : s[i] \in ToSet(a)
        BY <1>1, <1>3 DEF ToSet
    <2>3. x \in ToSet(a)
        BY <1>1, <1>3 DEF ToSet
    <2> HIDE DEF a
    <2>4. ToSet(a) = ToSet(s) \cup {x}
        BY <2>1, <2>2, <2>3 DEF ToSet
    <2> QED
        BY <2>4 DEF a
  <1> QED
      BY <1>1, <1>4

LEMMA Tails ==
  ASSUME NEW S, NEW s \in Seq(S), s # <<>>
  PROVE  /\ Tail(s) \in Seq(S) /\ Len(s) \in Nat /\ Len(s) >= 1 /\ DOMAIN s = 1 .. Len(s)
         /\ DOMAIN Tail(s) = 1 .. Len(s) - 1 /\ Len(Tail(s)) = Len(s) - 1
         /\ \A i \in 1 .. Len(s) - 1 : Tail(s)[i] = s[i + 1]
         /\ Tail(s) = <<>> => Len(s) = 1
  <1>1. Len(s) \in Nat /\ Len(s) >= 1 /\ DOMAIN s = 1 .. Len(s)
      OBVIOUS
  <1>2. /\ Tail(s) \in Seq(S)
        /\ DOMAIN Tail(s) = 1 .. Len(s) - 1 /\ Len(Tail(s)) = Len(s) - 1
        /\ \A i \in 1 .. Len(s) - 1 : Tail(s)[i] = s[i + 1]
      OBVIOUS
  <1>3. PICK tl : tl = Tail(s)
      OBVIOUS
  <1>4. PICK n : n = Len(s)
      OBVIOUS
  <1>5. n \in Nat /\ Len(tl) = n - 1
      BY <1>1, <1>2, <1>3, <1>4
  <1>6. tl = <<>> => Len(tl) = 0
      OBVIOUS
  <1>7. tl = <<>> => n = 1
      BY <1>5, <1>6
  <1> QED
      BY <1>1, <1>2, <1>3, <1>4, <1>7

\* While hits are merged, whatever is still to come stands behind one of them.
LEMMA BehindHits ==
  ASSUME IInv, page.step = "select", Merging,
         NEW r \in Rows, Ahead(r), Matches(r, first)
  PROVE  \E s \in Heads : \E i \in DOMAIN page.stream[s].hits :
           page.stream[s].hits[i] = r \/ Newer(page.stream[s].hits[i], r)
  <1>1. PICK s \in in[r] : s \in ask.streams
      BY DEF IInv, LogOk, Matches
  <1>2. StreamOk(page.stream[s])
      BY <1>1 DEF IInv, PageOk, SelectOk, Idle, Done
  <1>3. Coming(r, page.stream[s])
      BY <1>1 DEF Ahead
  <1>4. PICK st : st = page.stream[s]
      OBVIOUS
  <1>5. /\ st.hits \in Seq(Rows)
        /\ st.hits # <<>> \/ st.ended
      BY <1>1, <1>2, <1>4 DEF StreamOk, Merging
  <1>6. CASE r \in ToSet(st.hits)
    <2>1. PICK i \in DOMAIN st.hits : st.hits[i] = r
        BY <1>6 DEF ToSet
    <2>2. st.hits # <<>>
        BY <2>1
    <2> QED
        BY <1>1, <1>4, <2>1, <2>2 DEF Heads
  <1>7. CASE ~st.ended /\ (st.after = None \/ Newer(st.after, r))
    <2>1. st.hits # <<>>
        BY <1>5, <1>7
    <2>2. Len(st.hits) \in DOMAIN st.hits /\ st.hits[Len(st.hits)] \in Rows
        BY <1>5, <2>1
    <2>3. None \notin Rows
        BY NoneIsNoRow
    <2>4. st.after = st.hits[Len(st.hits)]
        BY <1>2, <1>4, <2>1 DEF StreamOk
    <2> QED
        BY <1>1, <1>4, <1>7, <2>1, <2>2, <2>3, <2>4 DEF Heads
  <1> QED
      BY <1>3, <1>4, <1>6, <1>7 DEF Coming

LEMMA SelectEndsKeeps ==
  ASSUME IInv, SelectEnds
  PROVE  IInv'
  <1>1. /\ page.step = "select" /\ Merging /\ Heads = {}
        /\ UNCHANGED <<log, committed, removed, now, cursor, listed, atStart, first>>
      BY DEF SelectEnds, Merging
  <1>2. /\ page'.step = "groups" /\ page'.picked = page.picked /\ page'.next = NoCursor
        /\ DOMAIN page' = {"step", "picked", "next"} /\ page'.next.row = None
      BY DEF SelectEnds, NoCursor
  <1>3. /\ SelectOk /\ LogOk' /\ CursorOk' /\ ListedOk' /\ BoundOk' /\ NewestFirst'
        /\ \A r, q : Newer(r, q)' <=> Newer(r, q)
        /\ \A r, t : Entry(r, t)' <=> Entry(r, t)
        /\ \A r : Matches(r, first)' <=> Matches(r, first)
        /\ \A t : Newest(t)' = Newest(t)
        /\ \A r : Below(r)' <=> Below(r)
        /\ \A t : Sure(t)' <=> Sure(t)
      BY <1>1, <1>2, SelectStep
  <1>4. PickedOk(page.next.row)'
      BY <1>1, <1>2, <1>3 DEF SelectOk, PickedOk
  <1>5. GroupsOk'
      BY <1>2, <1>3, <1>4 DEF GroupsOk, NoCursor
  <1>6. NoneLost'
    <2>1. \A r \in Rows : Matches(r, first) => ~Ahead(r)
        BY <1>1, BehindHits
    <2> QED
        BY <1>1, <1>2, <1>3, <2>1 DEF IInv, NoneLost, Picked, Idle, log
  <1>7. InOrder'
      BY <1>1, <1>2, <1>3 DEF IInv, InOrder
  <1> QED
      BY <1>2, <1>3, <1>5, <1>6, <1>7 DEF IInv, PageOk

LEMMA PageIsFull ==
  ASSUME IInv, page.step = "select", Merging, NEW row,
         Len(page.picked) = ask.limit,
         page' = [step |-> "groups", picked |-> page.picked, next |-> NextCursor(row)],
         UNCHANGED <<log, committed, removed, now, cursor, listed, atStart, first>>
  PROVE  IInv'
  <1>1. /\ page'.step = "groups" /\ page'.picked = page.picked
        /\ page'.next = [row |-> page.last, since |-> page.bound]
        /\ DOMAIN page' = {"step", "picked", "next"}
        /\ page'.next.row = page.last
      BY DEF NextCursor
  <1>2. /\ SelectOk /\ LogOk' /\ CursorOk' /\ ListedOk' /\ BoundOk' /\ NewestFirst'
        /\ \A r, q : Newer(r, q)' <=> Newer(r, q)
        /\ \A r, t : Entry(r, t)' <=> Entry(r, t)
        /\ \A r : Matches(r, first)' <=> Matches(r, first)
        /\ \A t : Newest(t)' = Newest(t)
        /\ \A r : Below(r)' <=> Below(r)
        /\ \A t : Sure(t)' <=> Sure(t)
      BY <1>1, SelectStep
  <1>3. page.last # None /\ page.last \in Rows /\ Below(page.last)
    <2>1. ask.limit # 0 /\ Len(<<>>) = 0
        BY ListingsAssumption DEF IInv, LogOk
    <2>2. page.picked # <<>>
        BY <2>1
    <2> QED
        BY <1>2, <2>2 DEF SelectOk
  <1>4. page.bound = first
      BY <1>2 DEF SelectOk
  <1>5. PickedOk(page.next.row)'
      BY <1>1, <1>2 DEF SelectOk, PickedOk
  <1>6. GroupsOk'
    <2>1. page'.next = [row |-> page'.next.row, since |-> first']
        BY <1>1, <1>4
    <2> QED
        BY <1>1, <1>2, <1>3, <1>5, <2>1 DEF GroupsOk
  <1>7. ASSUME NEW r \in Rows, Sure(tx[r]), Matches(r, first), Ahead(r),
               tx[r] \notin ToSet(listed) \cup Picked
        PROVE  Newer(page.last, r)
    <2>1. PICK s \in Heads : \E i \in DOMAIN page.stream[s].hits :
             page.stream[s].hits[i] = r \/ Newer(page.stream[s].hits[i], r)
        BY <1>7, BehindHits
    <2>2. PICK i \in DOMAIN page.stream[s].hits :
             page.stream[s].hits[i] = r \/ Newer(page.stream[s].hits[i], r)
        BY <2>1
    <2>3. PICK hit : hit = page.stream[s].hits[i]
        OBVIOUS
    <2>4. hit \in Rows /\ ~Newer(hit, page.last)
        BY <1>2, <1>3, <2>2, <2>3 DEF SelectOk, StreamOk, HitOk, Heads
    <2>5. r # page.last
        BY <1>2, <1>3, <1>7 DEF SelectOk, Picked, IInv, NoneLost
    <2>6. LogOk
        BY DEF IInv
    <2> QED
        BY <1>3, <2>2, <2>3, <2>4, <2>5, <2>6, Order
  <1>8. NoneLost'
    <2>1. page'.next # NoCursor
        BY <1>1, <1>3 DEF NoCursor
    <2>2. \A r \in Rows : Newer(page.last, r) => Ahead(r)'
        BY <1>1, <1>2, <2>1 DEF Ahead, NoCursor
    <2> QED
        BY <1>1, <1>2, <1>7, <2>2 DEF IInv, NoneLost, Picked, Idle, log
  <1>9. InOrder'
      BY <1>1, <1>2 DEF IInv, InOrder
  <1> QED
      BY <1>1, <1>2, <1>6, <1>8, <1>9 DEF IInv, PageOk

\* Of those that were there all the time, the entry that a group is picked by
\* is its newest.
LEMMA PickedByNewest ==
  ASSUME IInv, page.step = "select", Merging, NEW row \in Rows, Matches(row, first),
         \A o \in Heads : ~Newer(Head(page.stream[o].hits), row),
         Sure(tx[row]), tx[row] \notin ToSet(listed) \cup Picked
  PROVE  row = Newest(tx[row])
  <1>1. LogOk /\ SelectOk
      BY DEF IInv, PageOk, Idle, Done
  <1>2. Entry(row, tx[row])
      BY DEF Entry
  <1>3. PICK n : n = Newest(tx[row])
      OBVIOUS
  <1>4. n \in Rows /\ tx[n] = tx[row] /\ Matches(n, first) /\ ~Newer(row, n)
    <2>1. Entry(n, tx[row]) /\ \A r \in Rows : Entry(r, tx[row]) => ~Newer(r, n)
        BY <1>1, <1>2, <1>3, NewestIs
    <2> QED
        BY <1>2, <2>1 DEF Entry
  <1>5. Ahead(n)
      BY <1>4 DEF IInv, NoneLost
  <1>6. PICK s \in Heads : \E i \in DOMAIN page.stream[s].hits :
           page.stream[s].hits[i] = n \/ Newer(page.stream[s].hits[i], n)
      BY <1>4, <1>5, BehindHits
  <1>7. PICK i \in DOMAIN page.stream[s].hits :
           page.stream[s].hits[i] = n \/ Newer(page.stream[s].hits[i], n)
      BY <1>6
  <1>8. PICK hits : hits = page.stream[s].hits
      OBVIOUS
  <1>9. StreamOk(page.stream[s])
      BY <1>1 DEF SelectOk, Heads
  <1>10. hits \in Seq(Rows) /\ hits # <<>> /\ i \in 1 .. Len(hits)
      BY <1>7, <1>8, <1>9 DEF StreamOk, Heads
  <1>11. 1 \in DOMAIN hits /\ Head(hits) = hits[1] /\ hits[1] \in Rows /\ hits[i] \in Rows
      BY <1>10
  <1>12. i = 1 \/ Newer(hits[1], hits[i])
    <2>1. i = 1 \/ 1 < i
        BY <1>10
    <2> QED
        BY <1>7, <1>8, <1>9, <1>11, <2>1 DEF StreamOk
  <1>13. ~Newer(hits[1], row)
      BY <1>8, <1>11
  <1>14. hits[1] = n \/ Newer(hits[1], n)
      BY <1>1, <1>4, <1>7, <1>8, <1>11, <1>12, Order
  <1>15. ~Newer(n, row)
      BY <1>1, <1>4, <1>11, <1>13, <1>14, Order
  <1> QED
      BY <1>1, <1>3, <1>4, <1>15, Order

LEMMA TookKeeps ==
  ASSUME IInv, page.step = "select", Merging, NEW s \in Heads, NEW row,
         row = Head(page.stream[s].hits),
         \A o \in Heads : ~Newer(Head(page.stream[o].hits), row),
         page' = Took(s, row),
         UNCHANGED <<log, committed, removed, now, cursor, listed, atStart, first>>
  PROVE  IInv'
  <1>1. SelectOk /\ LogOk
      BY DEF IInv, PageOk, Idle, Done
  <1>2. PICK old, hits, tail, new, t :
          /\ old = page.stream[s] /\ hits = old.hits /\ tail = Tail(hits) /\ t = tx[row]
          /\ new = [old EXCEPT !.hits = tail]
      OBVIOUS
  <1>3. s \in ask.streams /\ hits # <<>> /\ StreamOk(old)
      BY <1>1, <1>2 DEF Heads, SelectOk
  <1>4. /\ page'.step = "select" /\ page'.bound = page.bound /\ page'.shown = page.shown
        /\ page'.last = row
        /\ page'.picked = IF IsNew(t) THEN Append(page.picked, t) ELSE page.picked
        /\ page'.stream = [page.stream EXCEPT ![s] = new]
        /\ DOMAIN page' = {"step", "bound", "picked", "last", "shown", "stream"}
      BY <1>1, <1>2 DEF SelectOk, Took
  <1>5. /\ SelectOk /\ LogOk' /\ CursorOk' /\ ListedOk' /\ BoundOk' /\ NewestFirst'
        /\ \A r, q : Newer(r, q)' <=> Newer(r, q)
        /\ \A r, x : Entry(r, x)' <=> Entry(r, x)
        /\ \A r : Matches(r, first)' <=> Matches(r, first)
        /\ \A r : CreatedAt(r)' = CreatedAt(r)
        /\ \A x : Newest(x)' = Newest(x)
        /\ \A r : Below(r)' <=> Below(r)
        /\ \A x : Sure(x)' <=> Sure(x)
      BY <1>4, SelectStep
  <1>6. /\ page'.stream[s] = new /\ DOMAIN page'.stream = ask.streams
        /\ \A o \in ask.streams : o # s => page'.stream[o] = page.stream[o]
      BY <1>1, <1>3, <1>4 DEF SelectOk
  <1>7. /\ new.hits = tail /\ new.after = old.after /\ new.ended = old.ended
        /\ DOMAIN new = {"hits", "after", "ended"}
      BY <1>2, <1>3 DEF StreamOk
  <1>8. PICK n : n = Len(hits)
      OBVIOUS
  <1>9. /\ n \in Nat /\ n >= 1 /\ hits \in Seq(Rows) /\ DOMAIN hits = 1 .. n
        /\ tail \in Seq(Rows) /\ DOMAIN tail = 1 .. n - 1 /\ Len(tail) = n - 1
        /\ \A i \in 1 .. n - 1 : tail[i] = hits[i + 1]
        /\ tail = <<>> => n = 1
    <2>1. hits \in Seq(Rows)
        BY <1>2, <1>3 DEF StreamOk
    <2> QED
        BY <1>2, <1>3, <1>8, <2>1, Tails
  <1>10. /\ row = hits[1] /\ row \in Rows /\ 1 \in DOMAIN hits /\ row # None
      BY <1>2, <1>3, <1>8, <1>9, NoneIsNoRow
  <1>11. /\ Matches(row, first) /\ t \in committed /\ Below(row) /\ Entry(row, t)
         /\ page.last # None => ~Newer(row, page.last)
         /\ t \in ToSet(listed) => t \in page.shown
         /\ \A j \in 1 .. n : 1 < j => Newer(row, hits[j])
    <2>1. HitOk(row) /\ \A j \in 1 .. n : 1 < j => Newer(row, hits[j])
        BY <1>2, <1>3, <1>8, <1>9, <1>10 DEF StreamOk
    <2> QED
        BY <1>2, <1>10, <2>1 DEF HitOk, Entry
  <1>12. \A hit : HitOk(hit) /\ ~Newer(hit, row) => HitOk(hit)'
    <2>1. (page.last)' = row /\ (page.shown)' = page.shown
        BY <1>4
    <2> QED
        BY <1>5, <2>1 DEF HitOk, Newer, CreatedAt, log
  <1>13. StreamOk(page.stream[s])'
    <2>1. \A i \in 1 .. n - 1 : i + 1 \in 1 .. n /\ 1 < i + 1
        BY <1>9
    <2>2. \A i \in 1 .. n - 1 : HitOk(tail[i])' /\
             \A j \in 1 .. n - 1 : i < j => Newer(tail[i], tail[j])
      <3> SUFFICES ASSUME NEW i \in 1 .. n - 1
                   PROVE  HitOk(hits[i + 1])' /\
                          \A j \in 1 .. n - 1 : i < j => Newer(hits[i + 1], hits[j + 1])
          BY <1>9
      <3>1. i + 1 \in DOMAIN hits /\ hits[i + 1] \in Rows /\ Newer(row, hits[i + 1])
          BY <1>9, <1>11, <2>1
      <3>2. ~Newer(hits[i + 1], row)
          BY <1>1, <1>10, <3>1, Order
      <3>3. \A j \in 1 .. n - 1 : i < j => j + 1 \in DOMAIN hits /\ i + 1 < j + 1
          BY <1>9
      <3>4. HitOk(hits[i + 1])
          BY <1>2, <1>3, <3>1 DEF StreamOk
      <3> QED
          BY <1>2, <1>3, <1>12, <3>1, <3>2, <3>3, <3>4 DEF StreamOk
    <2>3. tail # <<>> => old.after = tail[Len(tail)]
      <3> SUFFICES ASSUME tail # <<>> PROVE old.after = tail[n - 1]
          BY <1>9
      <3>1. n - 1 \in 1 .. n - 1 /\ (n - 1) + 1 = n
          BY <1>9
      <3>2. old.after = hits[n]
          BY <1>2, <1>3, <1>8, <1>9 DEF StreamOk
      <3> QED
          BY <1>9, <3>1, <3>2
    <2>4. tail = <<>> => old.after = row
      <3> SUFFICES ASSUME tail = <<>> PROVE old.after = row
          OBVIOUS
      <3>1. n = 1
          BY <1>9
      <3>2. old.after = hits[n]
          BY <1>2, <1>3, <1>8, <1>9 DEF StreamOk
      <3> QED
          BY <1>10, <3>1, <3>2
    <2>5. old.ended \in BOOLEAN
        BY <1>3 DEF StreamOk
    <2>6. (page.stream[s])' = new
        BY <1>6
    <2>7. (page.last)' = row /\ row # None
        BY <1>4, <1>10
    <2> QED
        BY <1>5, <1>7, <1>9, <1>10, <2>2, <2>3, <2>4, <2>5, <2>6, <2>7 DEF StreamOk
  <1>14. ASSUME NEW o \in ask.streams, o # s PROVE StreamOk(page.stream[o])'
    <2>1. (page.stream[o])' = page.stream[o]
        BY <1>6, <1>14
    <2>2. StreamOk(page.stream[o])
        BY <1>1 DEF SelectOk
    <2>3. PICK st : st = page.stream[o]
        OBVIOUS
    <2>4. \A i \in DOMAIN st.hits : ~Newer(st.hits[i], row)
      <3> TAKE i \in DOMAIN st.hits
      <3>1. st.hits \in Seq(Rows) /\ i \in 1 .. Len(st.hits) /\ Len(st.hits) \in Nat
          BY <2>2, <2>3 DEF StreamOk
      <3>2. /\ st.hits # <<>> /\ 1 \in DOMAIN st.hits /\ Head(st.hits) = st.hits[1]
            /\ st.hits[1] \in Rows /\ st.hits[i] \in Rows
          BY <3>1
      <3>3. ~Newer(st.hits[1], row)
          BY <2>3, <3>2 DEF Heads
      <3>4. i = 1 \/ 1 < i
          BY <3>1
      <3>5. i = 1 \/ Newer(st.hits[1], st.hits[i])
          BY <2>2, <2>3, <3>2, <3>4 DEF StreamOk
      <3> QED
          BY <1>1, <1>10, <3>2, <3>3, <3>5, Order
    <2>5. st.hits # <<>> \/ st.ended
        BY <2>3 DEF Merging
    <2> QED
      <3>1. (page.last)' = row /\ row # None
          BY <1>4, <1>10
      <3>2. (page.stream[o])' = st /\ StreamOk(st)
          BY <2>1, <2>2, <2>3
      <3> QED
          BY <1>5, <1>12, <2>4, <2>5, <3>1, <3>2 DEF StreamOk
  <1>15. page.picked \in Seq(Txs) /\ t \in Txs
      BY <1>1, <1>2, <1>10 DEF SelectOk, PickedOk, LogOk
  <1>16. PICK old_n, longer, picked :
          /\ old_n = Len(page.picked) /\ longer = Append(page.picked, t)
          /\ picked = page'.picked
      OBVIOUS
  <1>17. /\ old_n \in Nat /\ DOMAIN page.picked = 1 .. old_n
         /\ DOMAIN longer = 1 .. old_n + 1 /\ longer[old_n + 1] = t
         /\ \A i \in DOMAIN page.picked : longer[i] = page.picked[i]
         /\ longer \in Seq(Txs)
    <2>1. longer \in Seq(Txs)
        BY <1>15, <1>16
    <2> QED
        BY <1>15, <1>16, <2>1, Appended
  <1>18. picked = IF IsNew(t) THEN longer ELSE page.picked
      BY <1>4, <1>16
  <1>19. ASSUME IsNew(t)
         PROVE  /\ DOMAIN picked = 1 .. old_n + 1 /\ picked[old_n + 1] = t
                /\ \A i \in DOMAIN page.picked : picked[i] = page.picked[i]
                /\ \A i \in DOMAIN picked : i \in DOMAIN page.picked \/ i = old_n + 1
    <2>1. picked = longer
        BY <1>18, <1>19
    <2>2. \A i \in 1 .. old_n + 1 : i \in 1 .. old_n \/ i = old_n + 1
        BY <1>17
    <2> QED
        BY <1>17, <2>1, <2>2
  <1>20. /\ ToSet(page'.picked) = ToSet(page.picked) \cup (IF IsNew(t) THEN {t} ELSE {})
         /\ t \in ToSet(page'.picked) \cup page.shown
      BY <1>4, <1>15, Appended DEF IsNew
  <1>21. IsNew(t) => t \notin ToSet(listed) /\ t \notin ToSet(page.picked)
      BY <1>11 DEF IsNew
  <1>22. ASSUME NEW q \in Rows, page.last # None => ~Newer(page.last, q), page.picked # <<>>
         PROVE  ~Newer(row, q)
    <2>1. page.last \in Rows /\ ~Newer(page.last, q) /\ ~Newer(row, page.last)
        BY <1>1, <1>11, <1>22 DEF SelectOk
    <2> QED
        BY <1>1, <1>10, <2>1, WeakOrder
  <1>23. PickedOk(page.last)'
    <2>1. picked \in Seq(Txs)
        BY <1>15, <1>17, <1>18
    <2>2. \A i, j \in DOMAIN picked : picked[i] = picked[j] => i = j
      <3>1. \A i, j \in DOMAIN page.picked : page.picked[i] = page.picked[j] => i = j
          BY <1>1 DEF SelectOk, PickedOk
      <3>2. CASE IsNew(t)
        <4>1. \A i \in DOMAIN page.picked : page.picked[i] # t
            BY <1>21, <3>2 DEF ToSet
        <4> QED
            BY <1>19, <3>1, <3>2, <4>1
      <3>3. CASE ~IsNew(t)
          BY <1>18, <3>1, <3>3
      <3> QED
          BY <3>2, <3>3
    <2>3. \A x \in ToSet(page'.picked) :
             /\ x \in committed /\ x \notin ToSet(listed)
             /\ \E r \in Rows : Entry(r, x) /\ ~Newer(row, r)
      <3> TAKE x \in ToSet(page'.picked)
      <3>1. CASE x \in ToSet(page.picked)
        <4>1. PICK r \in Rows : Entry(r, x) /\ (page.last # None => ~Newer(page.last, r))
            BY <1>1, <3>1 DEF SelectOk, PickedOk
        <4>2. page.picked # <<>>
            BY <3>1 DEF ToSet
        <4>3. ~Newer(row, r)
            BY <1>22, <4>1, <4>2
        <4> QED
            BY <1>1, <3>1, <4>1, <4>3 DEF SelectOk, PickedOk
      <3>2. CASE x = t /\ IsNew(t)
          BY <1>1, <1>10, <1>11, <1>21, <3>2, Order
      <3> QED
          BY <1>20, <3>1, <3>2
    <2>4. \A x \in ToSet(picked) :
             /\ (x \in committed)' /\ (x \notin ToSet(listed))'
             /\ (\E r \in Rows : Entry(r, x) /\ (row # None => ~Newer(row, r)))'
        BY <1>5, <1>16, <2>3
    <2>5. (page.picked)' = picked /\ (page.last)' = row
        BY <1>4, <1>16
    <2>6. \A x \in ToSet(picked) :
             (\E r \in Rows : Entry(r, x) /\ (page.last # None => ~Newer(page.last, r)))'
      <3> TAKE x \in ToSet(picked)
      <3>1. PICK r \in Rows : Entry(r, x)' /\ (row # None => ~Newer(row, r)')
          BY <2>4
      <3>2. (page.last # None => ~Newer(page.last, r))'
          BY <2>5, <3>1 DEF Newer, CreatedAt
      <3> QED
          BY <3>1, <3>2
    <2> QED
        BY <2>1, <2>2, <2>4, <2>5, <2>6 DEF PickedOk
  <1>24. SelectOk'
      BY <1>1, <1>2, <1>4, <1>5, <1>6, <1>10, <1>11, <1>13, <1>14, <1>20, <1>23 DEF SelectOk, log
  <1>25. Picked = ToSet(page.picked) /\ Picked' = ToSet(page'.picked)
      BY <1>4 DEF Picked
  <1>26. NoneLost'
    <2>1. ASSUME NEW r \in Rows, Sure(tx[r]), Matches(r, first), Ahead(r),
                 tx[r] \notin ToSet(listed) \cup Picked'
          PROVE  Ahead(r)'
      <3>1. r # row
        <4>1. t \in page.shown /\ Sure(t) => t \in ToSet(listed)
            BY DEF IInv, NoneLost
        <4> QED
            BY <1>2, <1>20, <1>25, <2>1, <4>1
      <3>2. \A o \in in[r] : Coming(r, page.stream[o]) /\ o \in ask.streams
          BY <1>1, <2>1 DEF Ahead, LogOk
      <3>3. Coming(r, old) => Coming(r, new)
        <4>1. ASSUME r \in ToSet(hits) PROVE r \in ToSet(tail)
          <5>1. PICK i \in 1 .. n : r = hits[i]
              BY <1>9, <4>1 DEF ToSet
          <5>2. i - 1 \in 1 .. n - 1 /\ (i - 1) + 1 = i
              BY <1>9, <1>10, <3>1, <5>1
          <5> QED
              BY <1>9, <5>1, <5>2 DEF ToSet
        <4> QED
            BY <1>2, <1>7, <4>1 DEF Coming
      <3>4. \A o \in in[r] : Coming(r, page'.stream[o])
          BY <1>2, <1>6, <3>2, <3>3
      <3> QED
          BY <1>4, <1>5, <3>4 DEF Ahead, Coming, log
    <2>2. Picked \subseteq Picked'
        BY <1>20, <1>25
    <2> QED
        BY <1>4, <1>5, <2>1, <2>2 DEF IInv, NoneLost, Idle, log
  <1>27. InOrder'
    <2>1. CASE ~IsNew(t)
        BY <1>4, <1>5, <2>1 DEF IInv, InOrder
    <2>2. CASE IsNew(t)
      <3>3. Sure(t) => row = Newest(t)
          BY <1>2, <1>10, <1>11, <1>21, <1>25, <2>2, PickedByNewest
      <3>4. ASSUME NEW i \in DOMAIN page.picked, Sure(page.picked[i]), Sure(t)
            PROVE  Newer(Newest(page.picked[i]), row)
        <4>1. PICK u : u = page.picked[i]
            OBVIOUS
        <4>2. u \in ToSet(page.picked) /\ page.picked # <<>>
            BY <4>1 DEF ToSet
        <4>3. PICK q \in Rows : Entry(q, u) /\ (page.last # None => ~Newer(page.last, q))
            BY <1>1, <4>2 DEF SelectOk, PickedOk
        <4>4. Entry(Newest(u), u) /\ ~Newer(q, Newest(u))
            BY <1>1, <4>3, NewestIs
        <4>5. ~Newer(row, q)
            BY <1>22, <4>2, <4>3
        <4>6. Newest(u) \in Rows /\ tx[Newest(u)] = u
            BY <4>4 DEF Entry
        <4>7. Newest(u) # row
            BY <1>2, <1>21, <2>2, <4>2, <4>6
        <4>8. ~Newer(row, Newest(u))
            BY <1>1, <1>10, <4>3, <4>4, <4>5, <4>6, WeakOrder
        <4> QED
            BY <1>1, <1>10, <4>1, <4>6, <4>7, <4>8, Order
      <3>5. ASSUME NEW i \in DOMAIN picked, Sure(picked[i])
            PROVE  /\ Below(Newest(picked[i]))
                   /\ \A j \in DOMAIN picked : i < j /\ Sure(picked[j]) =>
                        Newer(Newest(picked[i]), Newest(picked[j]))
        <4>1. CASE i = old_n + 1
          <5>1. \A j \in DOMAIN picked : ~(i < j)
              BY <1>17, <1>19, <2>2, <4>1
          <5>2. Below(Newest(picked[i]))
              BY <1>11, <1>19, <2>2, <3>3, <3>5, <4>1
          <5> QED
              BY <5>1, <5>2
        <4>2. CASE i \in DOMAIN page.picked
          <5>1. picked[i] = page.picked[i]
              BY <1>19, <2>2, <4>2
          <5>2. Below(Newest(page.picked[i])) /\ \A j \in DOMAIN page.picked :
                   i < j /\ Sure(page.picked[j]) =>
                     Newer(Newest(page.picked[i]), Newest(page.picked[j]))
              BY <3>5, <4>2, <5>1 DEF IInv, InOrder
          <5> QED
              BY <1>19, <2>2, <3>3, <3>4, <3>5, <4>2, <5>1, <5>2
        <4> QED
            BY <1>19, <2>2, <3>5, <4>1, <4>2
      <3> QED
          BY <1>5, <1>16, <3>5 DEF InOrder
    <2> QED
        BY <2>1, <2>2
  <1> QED
      BY <1>4, <1>5, <1>24, <1>26, <1>27 DEF IInv, PageOk

LEMMA ConsumeKeeps ==
  ASSUME IInv, Consume
  PROVE  IInv'
  <1>1. /\ page.step = "select" /\ Merging
        /\ UNCHANGED <<log, committed, removed, now, cursor, listed, atStart, first>>
      BY DEF Consume, Merging
  <1>2. PICK s, row :
          /\ s \in Heads /\ row = Head(page.stream[s].hits)
          /\ \A o \in Heads : ~Newer(Head(page.stream[o].hits), row)
          /\ page' = IF IsNew(tx[row]) /\ Len(page.picked) = ask.limit
                     THEN [step |-> "groups", picked |-> page.picked, next |-> NextCursor(row)]
                     ELSE Took(s, row)
      BY DEF Consume
  <1>3. CASE IsNew(tx[row]) /\ Len(page.picked) = ask.limit
      BY <1>1, <1>2, <1>3, PageIsFull
  <1>4. CASE ~(IsNew(tx[row]) /\ Len(page.picked) = ask.limit)
      BY <1>1, <1>2, <1>4, TookKeeps
  <1> QED
      BY <1>3, <1>4

LEMMA Joined ==
  ASSUME NEW S, NEW a \in Seq(S), NEW b \in Seq(S)
  PROVE  /\ a \o b \in Seq(S) /\ DOMAIN (a \o b) = 1 .. Len(a) + Len(b)
         /\ \A i \in 1 .. Len(a) : (a \o b)[i] = a[i]
         /\ \A i \in 1 .. Len(b) : (a \o b)[Len(a) + i] = b[i]
  OBVIOUS

LEMMA GroupsKeeps ==
  ASSUME IInv, Groups
  PROVE  IInv'
  <1>1. /\ page.step = "groups" /\ page # Idle /\ page # Done
        /\ UNCHANGED <<log, committed, removed, now, atStart, first>>
        /\ cursor' = page.next
        /\ page' = IF page.next = NoCursor THEN Done ELSE Idle
      BY DEF Groups, Idle, Done
  <1>2. GroupsOk /\ LogOk
      BY <1>1 DEF IInv, PageOk
  <1>3. PICK groups : groups = [i \in DOMAIN page.picked |-> Listed(page.picked[i])]
      OBVIOUS
  <1>4. listed' = listed \o groups
      BY <1>3 DEF Groups
  <1>5. PICK n \in Nat, m \in Nat :
          /\ n = Len(listed) /\ m = Len(page.picked)
          /\ DOMAIN listed = 1 .. n /\ DOMAIN page.picked = 1 .. m
          /\ listed \in Seq(Txs \cup {None}) /\ page.picked \in Seq(Txs)
      BY <1>2 DEF IInv, ListedOk, GroupsOk, PickedOk
  <1>6. \A t \in Txs : Listed(t) = t \/ Listed(t) = None
      BY DEF Listed
  <1>7. groups \in Seq(Txs \cup {None}) /\ Len(groups) = m
    <2>1. \A i \in 1 .. m : groups[i] \in Txs \cup {None}
        BY <1>3, <1>5, <1>6
    <2>2. groups \in [1 .. m -> Txs \cup {None}]
        BY <1>3, <1>5, <2>1
    <2> QED
        BY <2>2
  <1>8. /\ listed' \in Seq(Txs \cup {None}) /\ DOMAIN listed' = 1 .. n + m
        /\ \A i \in 1 .. n : listed'[i] = listed[i]
        /\ \A i \in 1 .. m : listed'[n + i] = groups[i]
    <2>1. PICK S : S = Txs \cup {None}
        OBVIOUS
    <2>2. listed \in Seq(S) /\ groups \in Seq(S)
        BY <1>5, <1>7, <2>1
    <2>3. /\ listed \o groups \in Seq(S)
          /\ DOMAIN (listed \o groups) = 1 .. Len(listed) + Len(groups)
          /\ \A i \in 1 .. Len(listed) : (listed \o groups)[i] = listed[i]
          /\ \A i \in 1 .. Len(groups) : (listed \o groups)[Len(listed) + i] = groups[i]
        BY <2>2, Joined
    <2>4. PICK both : both = listed \o groups
        OBVIOUS
    <2>5. n = Len(listed) /\ m = Len(groups)
        BY <1>5, <1>7
    <2>6. /\ both \in Seq(S) /\ DOMAIN both = 1 .. n + m
          /\ \A i \in 1 .. n : both[i] = listed[i]
          /\ \A i \in 1 .. m : both[n + i] = groups[i]
        BY <2>3, <2>4, <2>5
    <2> QED
        BY <1>4, <2>1, <2>4, <2>6
  <1>9. \A k \in 1 .. n + m : k \in 1 .. n \/ (k - n \in 1 .. m /\ listed'[k] = groups[k - n])
      BY <1>8
  <1>10. \A k \in 1 .. m : groups[k] = Listed(page.picked[k])
      BY <1>3, <1>5
  <1>11. /\ \A r, s : Newer(r, s)' <=> Newer(r, s)
         /\ \A r, t : Entry(r, t)' <=> Entry(r, t)
         /\ \A r : Matches(r, first)' <=> Matches(r, first)
         /\ \A t : Newest(t)' = Newest(t)
         /\ \A t : Sure(t)' <=> Sure(t)
    <2>1. UNCHANGED <<log, first>>
        BY <1>1
    <2> QED
        BY <1>1, <2>1, LogSame DEF Sure, log
  <1>12. LogOk'
      BY <1>1, <1>2 DEF LogOk, log
  <1>13. PageOk' /\ Picked' = {} /\ (page' = Idle <=> page.next # NoCursor)
      BY <1>1 DEF PageOk, Picked, Idle, Done
  <1>14. CursorOk'
    <2>1. BoundOk'
        BY <1>1, <1>2 DEF GroupsOk, BoundOk, log
    <2> QED
        BY <1>1, <1>2, <2>1 DEF CursorOk, GroupsOk
  <1>15. \A t \in ToSet(listed') : t \in ToSet(listed) \/ t = None \/ t \in ToSet(page.picked)
    <2> TAKE t \in ToSet(listed')
    <2>1. PICK k \in 1 .. n + m : listed'[k] = t
        BY <1>8 DEF ToSet
    <2>2. CASE k \in 1 .. n
        BY <1>5, <1>8, <2>1, <2>2 DEF ToSet
    <2>3. CASE k - n \in 1 .. m /\ listed'[k] = groups[k - n]
      <3>1. page.picked[k - n] \in Txs /\ t = Listed(page.picked[k - n])
          BY <1>5, <1>10, <2>1, <2>3
      <3> QED
          BY <1>5, <1>6, <2>3, <3>1 DEF ToSet
    <2> QED
        BY <1>9, <2>2, <2>3
  <1>16. \A t \in ToSet(listed) : t \in ToSet(listed')
    <2>1. \A i \in 1 .. n : i \in 1 .. n + m
        OBVIOUS
    <2> QED
        BY <1>5, <1>8, <2>1 DEF ToSet
  <1>17. \A t \in ToSet(page.picked) : Listed(t) = t => t \in ToSet(listed')
    <2> SUFFICES ASSUME NEW t \in ToSet(page.picked), Listed(t) = t
                 PROVE  t \in ToSet(listed')
        OBVIOUS
    <2>1. PICK i \in 1 .. m : page.picked[i] = t
        BY <1>5 DEF ToSet
    <2>2. n + i \in 1 .. n + m /\ listed'[n + i] = t
        BY <1>8, <1>10, <2>1
    <2> QED
        BY <1>8, <2>2 DEF ToSet
  <1>18. cursor.row # None => cursor.row \in Rows
      BY CursorRow DEF IInv
  <1>19. page.next # NoCursor => page.next.row \in Rows /\ page.next.row # None /\ Below(page.next.row)
      BY <1>2, NoneIsNoRow DEF GroupsOk
  <1>20. \A t \in ToSet(listed') \ {None} :
           t \in committed /\ \E r \in Rows : Entry(r, t) /\ (page' # Done => ~Newer(page.next.row, r))
    <2> TAKE t \in ToSet(listed') \ {None}
    <2>1. CASE t \in ToSet(listed)
      <3>1. PICK r \in Rows : Entry(r, t) /\ ~Below(r)
          BY <1>1, <2>1 DEF IInv, ListedOk
      <3>2. ASSUME page' # Done PROVE ~Newer(page.next.row, r)
        <4>1. /\ page.next.row \in Rows /\ Below(page.next.row)
              /\ cursor.row # None /\ ~Newer(cursor.row, r)
            BY <1>1, <1>19, <3>1, <3>2 DEF Below
        <4>2. Newer(cursor.row, page.next.row)
            BY <4>1 DEF Below
        <4> QED
            BY <1>2, <1>18, <4>1, <4>2, Order
      <3> QED
          BY <2>1, <3>1, <3>2 DEF IInv, ListedOk
    <2>2. CASE t \in ToSet(page.picked)
      <3>1. PICK r \in Rows : Entry(r, t) /\ (page.next.row # None => ~Newer(page.next.row, r))
          BY <1>2, <2>2 DEF GroupsOk, PickedOk
      <3>2. page' # Done => page.next.row # None
          BY <1>1, <1>19
      <3> QED
          BY <1>2, <2>2, <3>1, <3>2 DEF GroupsOk, PickedOk
    <2> QED
        BY <1>15, <2>1, <2>2
  <1>21. ASSUME NEW k \in 1 .. m PROVE page.picked[k] \in ToSet(page.picked)
      BY <1>5 DEF ToSet
  <1>22. \A i, j \in 1 .. n + m : listed'[i] = listed'[j] /\ listed'[i] # None => i = j
    <2> SUFFICES ASSUME NEW i \in 1 .. n + m, NEW j \in 1 .. n + m,
                        listed'[i] = listed'[j], listed'[i] # None
                 PROVE  i = j
        OBVIOUS
    <2>1. \A k \in 1 .. n + m : listed'[k] # None =>
             \/ k \in 1 .. n /\ listed'[k] \in ToSet(listed)
             \/ k - n \in 1 .. m /\ listed'[k] = page.picked[k - n] /\ listed'[k] \in ToSet(page.picked)
      <3> SUFFICES ASSUME NEW k \in 1 .. n + m, listed'[k] # None, k \notin 1 .. n
                   PROVE  k - n \in 1 .. m /\ listed'[k] = page.picked[k - n]
                          /\ listed'[k] \in ToSet(page.picked)
          BY <1>5, <1>8 DEF ToSet
      <3>1. k - n \in 1 .. m /\ listed'[k] = Listed(page.picked[k - n])
          BY <1>9, <1>10
      <3>2. page.picked[k - n] \in Txs
          BY <1>5, <3>1
      <3> QED
          BY <1>6, <1>21, <3>1, <3>2
    <2>2. \A t \in ToSet(page.picked) : t \notin ToSet(listed)
        BY <1>2 DEF GroupsOk, PickedOk
    <2>3. CASE i \in 1 .. n /\ j \in 1 .. n
        BY <1>5, <1>8, <2>3 DEF IInv, ListedOk, ListedOnce
    <2>4. CASE i - n \in 1 .. m /\ j - n \in 1 .. m /\ page.picked[i - n] = page.picked[j - n]
      <3>1. i - n = j - n
          BY <1>2, <1>5, <2>4 DEF GroupsOk, PickedOk
      <3> QED
          BY <3>1
    <2> QED
        BY <2>1, <2>2, <2>3, <2>4
  <1>23. ListedOk'
    <2>1. ListedOnce'
        BY <1>8, <1>22 DEF ListedOnce
    <2>2. ASSUME NEW r, page' # Done, ~Newer(page.next.row, r) PROVE (~Below(r))'
      <3>1. cursor'.row = page.next.row /\ page.next.row # None
          BY <1>1, <1>19, <2>2
      <3>2. tx' = tx /\ at' = at
          BY <1>1 DEF log
      <3> QED
          BY <2>2, <3>1, <3>2 DEF Below, Newer, CreatedAt
    <2>3. \A t \in ToSet(listed') \ {None} :
             t \in committed' /\ \E r \in Rows : Entry(r, t)' /\ (page' # Done => (~Below(r))')
        BY <1>1, <1>11, <1>20, <2>2
    <2> QED
        BY <1>8, <2>1, <2>3 DEF ListedOk
  <1>24. ASSUME NEW r \in Rows, Sure(tx[r]), Matches(r, first) PROVE Listed(tx[r]) = tx[r]
    <2>1. r \in Activities(tx[r])
        BY <1>2, <1>24 DEF Activities, Readable, Sure, Matches, CreatedAt, LogOk
    <2> QED
        BY <1>24, <2>1 DEF Listed, Sure
  <1>25. NoneLost'
    <2>1. cursor' = NoCursor => page' # Idle
        BY <1>1, <1>13
    <2>2. page' # Done => page' = Idle
        BY <1>1
    <2>3. ASSUME NEW r \in Rows, Sure(tx[r]), Matches(r, first), tx[r] \notin ToSet(listed')
          PROVE  Ahead(r)'
      <3>1. tx[r] \notin ToSet(listed) /\ tx[r] \notin ToSet(page.picked)
          BY <1>16, <1>17, <1>24, <2>3
      <3>2. Ahead(r)
          BY <1>1, <2>3, <3>1 DEF IInv, NoneLost, Picked
      <3>3. page.next # NoCursor /\ Newer(page.next.row, r)
          BY <1>1, <3>2 DEF Ahead
      <3>4. Below(r)'
          BY <1>1, <3>3 DEF Below, Newer, CreatedAt, log
      <3> QED
          BY <1>13, <3>3, <3>4 DEF Ahead, Idle
    <2>4. page'.step # "select"
        BY <1>1 DEF Idle, Done
    <2> QED
        BY <1>1, <1>11, <2>1, <2>3, <2>4 DEF NoneLost, log
  <1>26. ASSUME NEW t \in ToSet(page.picked), Listed(t) = t, t \in atStart PROVE Sure(t)
    <2>1. t # None
        BY <1>2, <1>26, MarkersAssumption DEF LogOk
    <2>2. PICK r \in Activities(t) : t \notin Cancelling
        BY <1>26, <2>1 DEF Listed
    <2> QED
        BY <1>26, <2>2 DEF Activities, Readable, CreatedAt, Sure
  <1>27. \A i, j \in 1 .. n + m :
           i < j /\ listed'[i] \in atStart /\ listed'[j] \in atStart
             => Newer(Newest(listed'[i]), Newest(listed'[j]))
    <2> SUFFICES ASSUME NEW i \in 1 .. n + m, NEW j \in 1 .. n + m, i < j,
                        listed'[i] \in atStart, listed'[j] \in atStart
                 PROVE  Newer(Newest(listed'[i]), Newest(listed'[j]))
        OBVIOUS
    <2>1. None \notin atStart
        BY <1>2, MarkersAssumption DEF LogOk
    <2>2. ASSUME NEW k \in 1 .. n + m, k \notin 1 .. n, listed'[k] \in atStart
          PROVE  /\ k - n \in 1 .. m /\ listed'[k] = page.picked[k - n]
                 /\ Sure(page.picked[k - n])
      <3>1. k - n \in 1 .. m /\ listed'[k] = Listed(page.picked[k - n])
          BY <1>9, <1>10, <2>2
      <3>2. page.picked[k - n] \in Txs /\ page.picked[k - n] \in ToSet(page.picked)
          BY <1>5, <1>21, <3>1
      <3>3. Listed(page.picked[k - n]) = page.picked[k - n]
          BY <1>6, <2>1, <2>2, <3>1, <3>2
      <3> QED
          BY <1>26, <2>2, <3>1, <3>2, <3>3
    <2>3. CASE i \in 1 .. n /\ j \in 1 .. n
        BY <1>5, <1>8, <2>3 DEF IInv, InOrder, NewestFirst
    <2>4. CASE i \notin 1 .. n /\ j \notin 1 .. n
      <3>1. i - n < j - n
          OBVIOUS
      <3>2. /\ i - n \in 1 .. m /\ listed'[i] = page.picked[i - n] /\ Sure(page.picked[i - n])
            /\ j - n \in 1 .. m /\ listed'[j] = page.picked[j - n] /\ Sure(page.picked[j - n])
          BY <2>2, <2>4
      <3> QED
          BY <1>1, <1>5, <3>1, <3>2 DEF IInv, InOrder
    <2>5. CASE i \in 1 .. n /\ j \notin 1 .. n
      <3>1. PICK u, t : u = listed[i] /\ t = page.picked[j - n]
          OBVIOUS
      <3>2. listed'[i] = u /\ u \in atStart /\ u \in ToSet(listed) \ {None}
          BY <1>5, <1>8, <2>1, <2>5, <3>1 DEF ToSet
      <3>3. j - n \in 1 .. m /\ listed'[j] = t /\ Sure(t)
          BY <2>2, <2>5, <3>1
      <3>4. PICK q \in Rows : Entry(q, u) /\ ~Below(q)
          BY <1>1, <3>2 DEF IInv, ListedOk
      <3>5. Entry(Newest(u), u) /\ ~Newer(q, Newest(u))
          BY <1>2, <3>4, NewestIs
      <3>6. cursor.row \in Rows /\ cursor.row # None /\ ~Newer(cursor.row, q)
          BY <1>18, <3>4 DEF Below
      <3>7. Below(Newest(t))
          BY <1>1, <1>5, <3>1, <3>3 DEF IInv, InOrder
      <3>8. Newer(cursor.row, Newest(t))
          BY <3>6, <3>7 DEF Below
      <3>9. Newest(t) \in Rows
        <4>1. \E r \in Rows : Entry(r, t)
            BY <1>2, <1>21, <3>1, <3>3 DEF GroupsOk, PickedOk
        <4> QED
            BY <1>2, <4>1, NewestIs DEF Entry
      <3>10. Newest(u) \in Rows
          BY <3>5 DEF Entry
      <3>11. ~Newer(cursor.row, Newest(u))
          BY <1>2, <3>4, <3>5, <3>6, <3>10, WeakOrder
      <3>12. Newer(Newest(u), Newest(t))
          BY <1>2, <3>6, <3>8, <3>9, <3>10, <3>11, WeakOrder
      <3> QED
          BY <3>2, <3>3, <3>12
    <2>6. i \notin 1 .. n => j \notin 1 .. n
        OBVIOUS
    <2> QED
        BY <2>3, <2>4, <2>5, <2>6
  <1>28. InOrder'
    <2>1. NewestFirst'
        BY <1>1, <1>8, <1>11, <1>27 DEF NewestFirst
    <2>2. page'.step \notin {"select", "groups"}
        BY <1>1 DEF Idle, Done
    <2> QED
        BY <2>1, <2>2 DEF InOrder
  <1> QED
      BY <1>12, <1>13, <1>14, <1>23, <1>25, <1>28 DEF IInv

-----------------------------------------------------------------------------
LEMMA InitHolds == Init => IInv
  <1> SUFFICES ASSUME Init PROVE IInv
      OBVIOUS
  <1>1. /\ ask \in Listings /\ tx \in [Rows -> Txs] /\ at \in [Txs -> Times]
        /\ in \in [Rows -> Memberships] /\ committed \subseteq Txs /\ removed = 0 /\ now = Start
        /\ cursor = NoCursor /\ page = Idle /\ listed = <<>> /\ atStart = {} /\ first = None
      BY DEF Init
  <1>2. in \in [Rows -> SUBSET ask.streams]
      BY <1>1 DEF Memberships
  <1>3. LogOk
      BY <1>1, <1>2, ClockAssumption DEF LogOk
  <1>4. ToSet(listed) = {} /\ DOMAIN listed = {} /\ listed \in Seq(Txs \cup {None})
      BY <1>1 DEF ToSet
  <1>5. page.step = "idle"
      BY <1>1 DEF Idle
  <1>6. CursorOk /\ ListedOk /\ PageOk
      BY <1>1, <1>4 DEF CursorOk, ListedOk, ListedOnce, PageOk
  <1>7. NoneLost /\ InOrder
      BY <1>1, <1>4, <1>5 DEF NoneLost, InOrder, NewestFirst, Sure
  <1> QED
      BY <1>3, <1>6, <1>7 DEF IInv

LEMMA NextKeeps == IInv /\ [Next]_vars => IInv'
  <1> SUFFICES ASSUME IInv, [Next]_vars PROVE IInv'
      OBVIOUS
  <1>1. LogOk /\ removed \in Nat /\ now \in Nat /\ committed \subseteq Txs
      BY DEF IInv, LogOk
  <1>2. CASE UNCHANGED vars
      BY <1>1, <1>2, MeanwhileKeeps DEF vars, log
  <1>3. CASE StartPage
      BY <1>3, StartPageKeeps
  <1>4. ASSUME NEW s \in ask.streams, ReadHits(s) PROVE IInv'
      BY <1>4, ReadHitsKeeps
  <1>5. CASE Consume
      BY <1>5, ConsumeKeeps
  <1>6. CASE SelectEnds
      BY <1>6, SelectEndsKeeps
  <1>7. CASE Groups
      BY <1>7, GroupsKeeps
  <1>8. ASSUME NEW t \in Txs, Commit(t) PROVE IInv'
      BY <1>1, <1>8, MeanwhileKeeps DEF Commit
  <1>9. CASE Retention
      BY <1>1, <1>9, MeanwhileKeeps DEF Retention
  <1>10. CASE Tick
      BY <1>1, <1>10, MeanwhileKeeps DEF Tick
  <1> QED
      BY <1>2, <1>3, <1>4, <1>5, <1>6, <1>7, <1>8, <1>9, <1>10 DEF Next, Reader

-----------------------------------------------------------------------------
(* The theorems.                                                           *)

\* The invariant holds, for every log, listing and limit.
THEOREM Inductive == Spec => []IInv
  <1> QED
      BY InitHolds, NextKeeps, PTL DEF Spec

\* No transaction is on two pages: those that can come up again below a cursor
\* share its created_at, and _shown asks for them.
THEOREM EachListedOnce == Spec => []ListedOnce
  <1>1. IInv => ListedOnce
      BY DEF IInv, ListedOk
  <1> QED
      BY <1>1, Inductive, PTL

\* Every page ends below the one before it, whatever is left out of it.
THEOREM EveryPageAdvances == Spec => []PagesAdvance
  <1>1. IInv => PagesAdvance
    <2> SUFFICES ASSUME IInv, page.step = "groups", page.next # NoCursor
                 PROVE  page.next.row # None /\
                        (cursor.row # None => Newer(cursor.row, page.next.row))
        BY DEF PagesAdvance
    <2>1. GroupsOk
        BY DEF IInv, PageOk, Idle, Done
    <2>2. page.next.row \in Rows /\ Below(page.next.row)
        BY <2>1 DEF GroupsOk
    <2> QED
        BY <2>2, NoneIsNoRow DEF Below
  <1> QED
      BY <1>1, Inductive, PTL

\* Whoever had committed when the listing started, matches it and is still
\* there is on some page, though the window moves with the clock.
THEOREM NobodyMissed == Spec => []NothingMissed
  <1>1. IInv => NothingMissed
    <2> SUFFICES ASSUME IInv, page = Done, NEW t \in atStart, Eligible(t), at[t] > removed,
                        t \notin Cancelling
                 PROVE  t \in ToSet(listed)
        BY DEF NothingMissed
    <2>1. PICK r \in Rows : tx[r] = t /\ Matches(r, first)
        BY DEF Eligible
    <2>2. page.step = "done"
        BY DEF Done
    <2>3. ~Ahead(r) /\ Picked = {}
        BY <2>2 DEF Ahead, Picked
    <2> QED
        BY <2>1, <2>3 DEF IInv, NoneLost, Sure
  <1> QED
      BY <1>1, Inductive, PTL

\* The pages together are in the order of the newest matching entries.
THEOREM NewestListedFirst == Spec => []NewestFirst
  <1>1. IInv => NewestFirst
      BY DEF IInv, InOrder
  <1> QED
      BY <1>1, Inductive, PTL
===============================================================================
