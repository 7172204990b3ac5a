----------------------------- MODULE MCPagination -----------------------------
(* Pagination in three settings, one of which a behaviour chooses for good:   *)
(* window (the default lower bound, as time passes), ties (two severities,    *)
(* with rows of one transaction on both sides of a cursor) and history (the   *)
(* scoped groups of an object, whose rows may be in both streams).            *)
EXTENDS Pagination, TLC

CONSTANTS t1, t2, t3, t4, t5, t6, t7, t8, s1, s2, own, children

VARIABLE setting

Upto3 == 1 .. 3

Listing(streams, since, window, limit) ==
  [streams |-> streams, overlap |-> own \in streams, scoped |-> own \in streams,
   since |-> since, until |-> None, window |-> window, limit |-> limit]
InWindow == Listing({s1}, None, 1, 1)
OfSeverities == Listing({s1, s2}, None, None, 2)
OfObject == Listing({own, children}, AllHistory, 1, 1)
AllListings == {InWindow, OfSeverities, OfObject}

\* What a setting bounds, of one and the same specification.
Bounds ==
  [window |-> [ask |-> InWindow, txs |-> {t1, t2}, times |-> 1 .. 3, now |-> 3],
   ties |-> [ask |-> OfSeverities, txs |-> {t3, t4, t5}, times |-> 1 .. 2, now |-> 2],
   history |-> [ask |-> OfObject, txs |-> {t6, t7, t8}, times |-> 1 .. 2, now |-> 2]]
\* Only a transaction with rows commits: of another nothing would be seen.
Writers == {tx[r] : r \in Rows}
Bounded(b) == committed \subseteq Writers /\ now <= b.now

\* Each set of equal values belongs to one setting alone.
AnyTx == Permutations({t1, t2}) \cup Permutations({t4, t5}) \cup
         Permutations({t6, t7, t8}) \cup Permutations({s1, s2}) \cup
         Permutations({own, children})

SettingInit ==
  /\ setting \in DOMAIN Bounds
  /\ LET b == Bounds[setting]
     IN  /\ ask = b.ask
         /\ tx \in [Rows -> b.txs]
         /\ at \in {[t \in Txs |-> IF t \in Writers THEN f[t] ELSE 1] :
                      f \in [Writers -> b.times]}
         /\ committed \in SUBSET Writers
  /\ Init
SettingNext == UNCHANGED setting /\ Next /\ Bounded(Bounds[setting])'
SettingSpec == SettingInit /\ [][SettingNext]_<<vars, setting>>
===============================================================================
