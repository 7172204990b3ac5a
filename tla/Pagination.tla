------------------------------ MODULE Pagination ------------------------------
(***************************************************************************)
(* A caller of query.py follows next_cursor through list_groups,           *)
(* object_history or related, beside transactions that commit late and     *)
(* retention that drops the oldest rows.  A page is several statements     *)
(* under READ COMMITTED, each with a snapshot of its own: _shown, one      *)
(* batch after the other of each stream (_hits), and _groups.              *)
(*                                                                         *)
(* A row is a number, its id; its created_at is the issued_at of its       *)
(* transaction.  Rows that visibility hides are left out, and of the       *)
(* filters only their result is kept: the streams a row is in.             *)
(***************************************************************************)
EXTENDS Integers, Sequences, FiniteSets, SequencesExt

CONSTANTS
    Rows,           \* 1 .. n, the activity rows by id
    Txs,            \* the database transactions
    Times,          \* the values of issued_at
    Listings,       \* what the caller may ask for: the streams (the severities, or
                    \* "own" and "children" of object_history) and whether a row can
                    \* be in two; scoped (object_history: a group shows the matching
                    \* rows only); since, until, the default window, and the limit
    Cancelling,     \* transactions whose rows compaction hides
    None, AllHistory,
    Start, MaxNow   \* the clock when the listing starts, and its bound

ASSUME RowsAssumption == Rows \subseteq Nat /\ IsFiniteSet(Rows) /\ Times \subseteq Nat
ASSUME MarkersAssumption == None # AllHistory /\ {None, AllHistory} \cap Int = {} /\ None \notin Txs
ASSUME ListingsAssumption ==
    \A listing \in Listings :
      /\ listing.limit \in Nat \ {0}
      /\ listing.since \in Int \cup {None, AllHistory}
      /\ {listing.until, listing.window} \subseteq Int \cup {None}
ASSUME ClockAssumption == Start \in Nat /\ MaxNow \in Nat

VARIABLES
    ask,                    \* the arguments of the listing
    tx, at, in,             \* the rows' transactions, their issued_at, the rows' streams
    committed, removed,     \* committed transactions; retention removed rows up to this time
    now,
    cursor,                 \* of the next page: a row and the recorded lower bound
    page,                   \* the page being read
    listed, atStart, first  \* history: groups listed (None for one left out), who had committed at the
                            \* start, and the lower bound of the first page

log == <<ask, tx, at, in>>
vars == <<log, committed, removed, now, cursor, page, listed, atStart, first>>

-----------------------------------------------------------------------------
(* Rows and positions.                                                     *)

CreatedAt(r) == at[tx[r]]
Newer(r, s) == CreatedAt(r) > CreatedAt(s) \/ (CreatedAt(r) = CreatedAt(s) /\ r > s)

NoCursor == [row |-> None, since |-> None]

\* What a statement can see now, in the bounds of the listing.
Readable(r) == tx[r] \in committed /\ CreatedAt(r) > removed
InBounds(r, bound) ==
    /\ bound = AllHistory \/ CreatedAt(r) >= bound
    /\ ask.until = None \/ CreatedAt(r) < ask.until
Matches(r, bound) == in[r] # {} /\ InBounds(r, bound)

Latest == IF ask.until = None THEN now ELSE ask.until

\* mutant: the cursor's bound is not read back
BugBound == IF ask.since # None THEN ask.since
            ELSE IF ask.window = None THEN AllHistory ELSE Latest - ask.window

\* The lower bound: the argument, else the cursor's, else the window.
Bound ==
    IF ask.since # None THEN ask.since
    ELSE IF cursor # NoCursor /\ cursor.since # None THEN cursor.since
    ELSE IF ask.window = None THEN AllHistory
    ELSE Latest - ask.window

\* ORDER BY created_at DESC, id DESC LIMIT n.
Top(rows, n) ==
    LET Rank(r) == Cardinality({q \in rows : Newer(q, r)})
    IN  [i \in 1 .. (IF Cardinality(rows) < n THEN Cardinality(rows) ELSE n) |->
           CHOOSE r \in rows : Rank(r) = i - 1]

-----------------------------------------------------------------------------
(* One page.                                                               *)

Idle == [step |-> "idle"]
Done == [step |-> "done"]

Unread == [hits |-> <<>>, after |-> cursor.row, ended |-> FALSE]

\* mutant: earlier pages are not asked for
BugShown(bound) == {}

\* The transactions an earlier page listed that can have rows below the cursor.
Shown(bound) ==
    {tx[r] : r \in {q \in Rows : Readable(q) /\ Matches(q, bound) /\
                      CreatedAt(q) = CreatedAt(cursor.row) /\ q >= cursor.row}}

StartPage ==
    /\ page = Idle
    /\ page' = [step |-> "select", bound |-> Bound, picked |-> <<>>, last |-> None,
                shown |-> IF cursor.row = None THEN {} ELSE Shown(Bound),
                stream |-> [s \in ask.streams |-> Unread]]
    /\ IF cursor = NoCursor
       THEN atStart' = committed /\ first' = Bound
       ELSE UNCHANGED <<atStart, first>>
    /\ UNCHANGED <<log, committed, removed, now, cursor, listed>>

\* The next batch of a stream, when it has no row left to merge.
ReadHits(s) ==
    /\ page.step = "select"
    /\ page.stream[s].hits = <<>> /\ ~page.stream[s].ended
    /\ LET after == page.stream[s].after
           found == {r \in Rows : /\ Readable(r) /\ Matches(r, page.bound) /\ s \in in[r]
                                  /\ after = None \/ Newer(after, r)}
           batch == Top(found, ask.limit + 1)
       IN  page' = [page EXCEPT !.stream[s] =
                      [hits |-> batch, ended |-> Len(batch) <= ask.limit,
                       after |-> IF batch = <<>> THEN after ELSE Last(batch)]]
    /\ UNCHANGED <<log, committed, removed, now, cursor, listed, atStart, first>>

\* mutant: a stream that has nothing yet is taken to be at its end
BugMerging ==
    page.step = "select" /\ \E s \in ask.streams : page.stream[s].hits # <<>> \/ page.stream[s].ended

Merging ==
    page.step = "select" /\ \A s \in ask.streams : page.stream[s].hits # <<>> \/ page.stream[s].ended

Heads == {s \in ask.streams : page.stream[s].hits # <<>>}

\* mutant: only listed groups move the cursor
BugStuck(row) == [row |-> cursor.row, since |-> page.bound]
IsNew(t) == t \notin page.shown /\ t \notin ToSet(page.picked)
NextCursor(row) == [row |-> page.last, since |-> page.bound]

\* The page once this row is taken from its stream.
Took(s, row) ==
    [page EXCEPT !.stream = [page.stream EXCEPT ![s] =
                               [page.stream[s] EXCEPT !.hits = Tail(page.stream[s].hits)]],
                 !.picked = IF IsNew(tx[row]) THEN Append(page.picked, tx[row]) ELSE page.picked,
                 !.last = row]

\* A full page ends at the last row consumed, not at the new one.
Consume ==
    /\ Merging /\ Heads # {}
    /\ \E s \in Heads :
         LET row == Head(page.stream[s].hits)
         IN  /\ \A o \in Heads : ~Newer(Head(page.stream[o].hits), row)
             /\ page' = IF IsNew(tx[row]) /\ Len(page.picked) = ask.limit
                        THEN [step |-> "groups", picked |-> page.picked,
                              next |-> NextCursor(row)]
                        ELSE Took(s, row)
    /\ UNCHANGED <<log, committed, removed, now, cursor, listed, atStart, first>>

SelectEnds ==
    /\ Merging /\ Heads = {}
    /\ page' = [step |-> "groups", picked |-> page.picked, next |-> NoCursor]
    /\ UNCHANGED <<log, committed, removed, now, cursor, listed, atStart, first>>

\* The rows a group shows: all the caller may see, or those in the record's scope.
Activities(t) ==
    {r \in Rows : tx[r] = t /\ Readable(r) /\ (ask.scoped => in[r] # {})}

\* A group without rows, or whose rows compact to nothing, is left out.
Listed(t) == IF Activities(t) # {} /\ t \notin Cancelling THEN t ELSE None

Groups ==
    /\ page.step = "groups"
    /\ listed' = listed \o [i \in DOMAIN page.picked |-> Listed(page.picked[i])]
    /\ cursor' = page.next
    /\ page' = IF page.next = NoCursor THEN Done ELSE Idle
    /\ UNCHANGED <<log, committed, removed, now, atStart, first>>

-----------------------------------------------------------------------------
(* Meanwhile.  Only statements read the log, so nothing happens between    *)
(* the merge steps that need none.                                         *)

Meanwhile == page # Done /\ ~Merging

\* A transaction commits, however early it was issued.
Commit(t) ==
    /\ t \notin committed /\ at[t] <= now /\ Meanwhile
    /\ committed' = committed \cup {t}
    /\ UNCHANGED <<log, removed, now, cursor, page, listed, atStart, first>>

Retention ==
    /\ removed < now - 1 /\ Meanwhile
    /\ removed' = removed + 1
    /\ UNCHANGED <<log, committed, now, cursor, page, listed, atStart, first>>

Tick ==
    /\ now < MaxNow /\ Meanwhile
    /\ now' = now + 1
    /\ UNCHANGED <<log, committed, removed, cursor, page, listed, atStart, first>>

Memberships ==
    {m \in SUBSET ask.streams : ask.overlap \/ Cardinality(m) <= 1}

Init ==
    /\ ask \in Listings
    /\ tx \in [Rows -> Txs]
    /\ at \in [Txs -> Times]
    /\ in \in [Rows -> Memberships]
    /\ committed \in SUBSET {t \in Txs : at[t] <= Start}
    /\ removed = 0 /\ now = Start
    /\ cursor = NoCursor /\ page = Idle
    /\ listed = <<>> /\ atStart = {} /\ first = None

Reader == StartPage \/ (\E s \in ask.streams : ReadHits(s))
          \/ Consume \/ SelectEnds \/ Groups
Next == Reader \/ (\E t \in Txs : Commit(t)) \/ Retention \/ Tick

Spec == Init /\ [][Next]_vars

-----------------------------------------------------------------------------
(* Properties.                                                             *)

\* No transaction is on two pages, even when its rows lie on both sides of a
\* cursor among rows of others with the same created_at, or commit meanwhile.
ListedOnce == \A i, j \in DOMAIN listed : listed[i] = listed[j] /\ listed[i] # None => i = j

Newest(t) ==
    CHOOSE r \in Rows : /\ tx[r] = t /\ Matches(r, first)
                        /\ \A q \in Rows : tx[q] = t /\ Matches(q, first) => ~Newer(q, r)
Eligible(t) == \E r \in Rows : tx[r] = t /\ Matches(r, first)

\* Whoever had committed when the listing started, matches it and is still
\* there is on some page once next_cursor is None.
NothingMissed ==
    page = Done =>
      \A t \in atStart : Eligible(t) /\ at[t] > removed /\ t \notin Cancelling
                           => t \in ToSet(listed)

\* The pages together are in the order of the newest matching entries.
NewestFirst ==
    \A i, j \in DOMAIN listed :
      i < j /\ listed[i] \in atStart /\ listed[j] \in atStart
        => Newer(Newest(listed[i]), Newest(listed[j]))

\* Every page ends below the one before it, also when none of its groups is
\* shown: a caller that follows next_cursor gets to the end of the log.
PagesAdvance ==
    page.step = "groups" /\ page.next # NoCursor =>
      page.next.row # None /\ (cursor.row # None => Newer(cursor.row, page.next.row))
===============================================================================
