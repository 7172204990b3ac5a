--------------------------- MODULE EntityLogProofs ---------------------------
(***************************************************************************)
(* Proofs about EntityLog, for any number of objects, flushes and rows:    *)
(* compaction shows the net change, keeps the direction of the rows, and   *)
(* does nothing the second time; a scrub hides no change.                  *)
(***************************************************************************)
EXTENDS EntityLog, FiniteSetTheorems, SequenceTheorems, WellFoundedInduction, TLAPS

-----------------------------------------------------------------------------
(* Rows.                                                                   *)

\* A column of a row, and the changes of its collection.
IsPair(p) == p = NoField \/ p = <<p[1], p[2]>>
IsDelta(d) ==
  /\ d = [added |-> d.added, removed |-> d.removed,
          erasedAdded |-> d.erasedAdded, erasedRemoved |-> d.erasedRemoved]
  /\ IsFiniteSet(d.added) /\ IsFiniteSet(d.removed)
  /\ d.erasedAdded \in Nat /\ d.erasedRemoved \in Nat

IsEntry(r) ==
  /\ r = EntryRow(r.id, r.object, r.verb, [actor |-> r.actor, scope |-> r.scope],
                  r.col, r.secret, r.rel)
  /\ r.id \in Nat /\ r.verb \in {"created", "updated", "deleted"}
  /\ IsPair(r.col) /\ IsPair(r.secret) /\ IsDelta(r.rel)

\* Rows that their ids tell apart.
Ordered(group) ==
  /\ IsFiniteSet(group)
  /\ \A r \in group : IsEntry(r)
  /\ \A r, s \in group : r.id = s.id => r = s

\* Rows in the order they were read.
IsRead(rows) ==
  /\ rows \in Seq(Range(rows))
  /\ \A i \in DOMAIN rows : IsEntry(rows[i])
  /\ \A i, j \in DOMAIN rows : rows[i].id = rows[j].id => i = j

\* Of any finite sets one is least: induction over finite sets.
LEMMA LeastSet ==
  ASSUME NEW Sets, Sets # {}, \A T \in Sets : IsFiniteSet(T)
  PROVE  \E T \in Sets : \A U \in Sets : U \subseteq T => U = T
  <1> DEFINE S == UNION Sets
  <1>1. Sets \subseteq FiniteSubsetsOf(S)
      BY DEF FiniteSubsetsOf
  <1> HIDE DEF S
  <1>2. PICK T \in Sets : \A U \in Sets : <<U, T>> \notin StrictSubsetOrdering(S)
      BY <1>1, FS_StrictSubsetOrderingWellFounded, WFMin
  <1> QED
      BY <1>1, <1>2 DEF StrictSubsetOrdering, FiniteSubsetsOf

LEMMA SubsetOrdered ==
  ASSUME NEW G, Ordered(G), NEW T, T \subseteq G
  PROVE  Ordered(T)
  BY FS_Subset DEF Ordered

LEMMA SomeEnds ==
  ASSUME NEW G, Ordered(G), G # {}
  PROVE  /\ \E r \in G : \A s \in G : r.id <= s.id
         /\ \E r \in G : \A s \in G : s.id <= r.id
  <1> DEFINE Ends(T) == /\ \E r \in T : \A s \in T : r.id <= s.id
                        /\ \E r \in T : \A s \in T : s.id <= r.id
             Wrong == {T \in SUBSET G : T # {} /\ ~Ends(T)}
  <1> SUFFICES ASSUME Wrong # {} PROVE FALSE
      OBVIOUS
  <1>1. PICK T \in Wrong : \A U \in Wrong : U \subseteq T => U = T
    <2>1. Wrong # {} /\ \A U \in Wrong : IsFiniteSet(U)
        BY FS_Subset DEF Ordered
    <2> HIDE DEF Wrong
    <2> QED
        BY <2>1, LeastSet
  <1>2. PICK x \in T : TRUE
      BY <1>1
  <1>3. \A r \in T : r.id \in Nat
      BY <1>1 DEF Ordered, IsEntry
  <1>4. CASE T = {x}
      BY <1>1, <1>3, <1>4
  <1>5. CASE T # {x}
    <2>1. T \ {x} # {} /\ T \ {x} \notin Wrong /\ T \ {x} \in SUBSET G
        BY <1>1, <1>2, <1>5
    <2>2. Ends(T \ {x})
        BY <2>1
    <2>3. PICK a \in T \ {x} : \A s \in T \ {x} : a.id <= s.id
        BY <2>2
    <2>4. PICK b \in T \ {x} : \A s \in T \ {x} : s.id <= b.id
        BY <2>2
    <2>5. \E r \in T : \A s \in T : r.id <= s.id
        BY <2>3, <1>2, <1>3
    <2>6. \E r \in T : \A s \in T : s.id <= r.id
        BY <2>4, <1>2, <1>3
    <2> QED
        BY <2>5, <2>6, <1>1
  <1> QED
      BY <1>4, <1>5

LEMMA Ends ==
  ASSUME NEW G, Ordered(G), G # {}
  PROVE  /\ Earliest(G) \in G /\ \A s \in G : Earliest(G).id <= s.id
         /\ Latest(G) \in G /\ \A s \in G : s.id <= Latest(G).id
  BY SomeEnds DEF Earliest, Latest

LEMMA IsEarliest ==
  ASSUME NEW G, Ordered(G), NEW r \in G, \A s \in G : r.id <= s.id
  PROVE  Earliest(G) = r
  <1>1. Earliest(G) \in G /\ Earliest(G).id <= r.id /\ r.id <= Earliest(G).id
      BY Ends
  <1>2. PICK e \in G : e = Earliest(G)
      BY <1>1
  <1>3. e.id \in Nat /\ r.id \in Nat
      BY DEF Ordered, IsEntry
  <1>4. e.id = r.id
      BY <1>1, <1>2, <1>3
  <1> QED
      BY <1>2, <1>4 DEF Ordered

LEMMA IsLatest ==
  ASSUME NEW G, Ordered(G), NEW r \in G, \A s \in G : s.id <= r.id
  PROVE  Latest(G) = r
  <1>1. Latest(G) \in G /\ Latest(G).id <= r.id /\ r.id <= Latest(G).id
      BY Ends
  <1>2. PICK e \in G : e = Latest(G)
      BY <1>1
  <1>3. e.id \in Nat /\ r.id \in Nat
      BY DEF Ordered, IsEntry
  <1>4. e.id = r.id
      BY <1>1, <1>2, <1>3
  <1> QED
      BY <1>2, <1>4 DEF Ordered

-----------------------------------------------------------------------------
(* The changes of a collection, merged.                                    *)

\* The recursion MapThenFoldSet is defined by.
Recursion(S, f) ==
  f = [T \in SUBSET S |-> IF T = {} THEN NoChange
                          ELSE MergeRelation(f[T \ {Latest(T)}], Latest(T).rel)]

LEMMA OneRecursion ==
  ASSUME NEW S, Ordered(S), NEW T, T \subseteq S,
         NEW e, Recursion(S, e), NEW f, Recursion(T, f)
  PROVE  \A U \in SUBSET T : e[U] = f[U]
  <1> DEFINE Wrong == {U \in SUBSET T : e[U] # f[U]}
  <1> SUFFICES ASSUME Wrong # {} PROVE FALSE
      OBVIOUS
  <1>1. PICK U \in Wrong : \A V \in Wrong : V \subseteq U => V = U
    <2>1. Wrong # {} /\ \A V \in Wrong : IsFiniteSet(V)
        BY FS_Subset DEF Ordered
    <2> HIDE DEF Wrong
    <2> QED
        BY <2>1, LeastSet
  <1>2. U # {}
      BY <1>1 DEF Recursion
  <1>3. Latest(U) \in U
      BY <1>1, <1>2, Ends, SubsetOrdered
  <1>4. U \ {Latest(U)} \notin Wrong /\ U \ {Latest(U)} \in SUBSET T
      BY <1>1, <1>3
  <1>5. e[U \ {Latest(U)}] = f[U \ {Latest(U)}]
      BY <1>4
  <1>6. e[U] = MergeRelation(e[U \ {Latest(U)}], Latest(U).rel)
      BY <1>1, <1>2 DEF Recursion
  <1>7. f[U] = MergeRelation(f[U \ {Latest(U)}], Latest(U).rel)
      BY <1>1, <1>2 DEF Recursion
  <1> QED
      BY <1>1, <1>5, <1>6, <1>7

LEMMA SomeRecursion ==
  ASSUME NEW S, Ordered(S)
  PROVE  \E f : Recursion(S, f)
  <1> DEFINE Wrong == {T \in SUBSET S : ~\E f : Recursion(T, f)}
  <1> SUFFICES ASSUME Wrong # {} PROVE FALSE
      OBVIOUS
  <1>1. PICK T \in Wrong : \A U \in Wrong : U \subseteq T => U = T
    <2>1. Wrong # {} /\ \A U \in Wrong : IsFiniteSet(U)
        BY FS_Subset DEF Ordered
    <2> HIDE DEF Wrong
    <2> QED
        BY <2>1, LeastSet
  <1> DEFINE Of(U) == CHOOSE f : Recursion(U, f)
             rest(U) == U \ {Latest(U)}
             h == [U \in SUBSET T |-> IF U = {} THEN NoChange
                                      ELSE MergeRelation(Of(rest(U))[rest(U)], Latest(U).rel)]
  <1>2. Ordered(T) /\ \A U \in SUBSET T : Ordered(U)
      BY SubsetOrdered
  <1>3. \A U \in SUBSET T : U # T => Recursion(U, Of(U))
    <2> TAKE U \in SUBSET T
    <2> HAVE U # T
    <2>1. \E f : Recursion(U, f)
        BY <1>1
    <2> QED
        BY <2>1
  <1>4. \A U \in SUBSET T : U # {} => rest(U) \in SUBSET T /\ rest(U) # T /\ rest(U) # U
      BY <1>2, Ends
  <1> HIDE DEF Of, rest
  <1>5. ASSUME NEW U \in SUBSET T, U # T
        PROVE  h[U] = Of(U)[U]
    <2>1. CASE U = {}
        BY <1>3, <1>5, <2>1 DEF Recursion
    <2>2. CASE U # {}
      <3>1. Of(U)[U] = MergeRelation(Of(U)[rest(U)], Latest(U).rel)
          BY <1>3, <1>5, <2>2 DEF Recursion, rest
      <3>2. rest(U) \subseteq U
          BY DEF rest
      <3>3. Recursion(U, Of(U)) /\ Recursion(rest(U), Of(rest(U)))
          BY <1>3, <1>4, <1>5, <2>2
      <3>4. Of(U)[rest(U)] = Of(rest(U))[rest(U)]
          BY <1>2, <3>2, <3>3, OneRecursion
      <3> QED
          BY <2>2, <3>1, <3>4
    <2> QED
        BY <2>1, <2>2
  <1>6. \A U \in SUBSET T : U # {} => h[U] = MergeRelation(h[rest(U)], Latest(U).rel)
      BY <1>4, <1>5
  <1>7. h = [U \in SUBSET T |-> IF U = {} THEN NoChange ELSE MergeRelation(h[rest(U)], Latest(U).rel)]
      BY <1>6
  <1>8. Recursion(T, h)
      BY <1>7 DEF Recursion, rest
  <1> QED
      BY <1>1, <1>8

LEMMA MergedIs ==
  ASSUME NEW S, Ordered(S)
  PROVE  \E f : Recursion(S, f) /\ \A T \in SUBSET S : MergedRelation(T) = f[T]
  <1> DEFINE Of(T) == CHOOSE f : Recursion(T, f)
  <1>1. \A T : MergedRelation(T) = Of(T)[T]
      BY DEF MergedRelation, MapThenFoldSet, Recursion
  <1>2. \A T \in SUBSET S : Recursion(T, Of(T))
      BY SubsetOrdered, SomeRecursion
  <1> HIDE DEF Of
  <1>3. \A T \in SUBSET S : Of(T)[T] = Of(S)[T]
      BY <1>2, OneRecursion
  <1> QED
      BY <1>1, <1>2, <1>3

\* The last row's change is merged into those before it.
LEMMA MergedLast ==
  ASSUME NEW S, Ordered(S)
  PROVE  /\ MergedRelation({}) = NoChange
         /\ S # {} => MergedRelation(S) = MergeRelation(MergedRelation(S \ {Latest(S)}), Latest(S).rel)
  <1>1. PICK f : Recursion(S, f) /\ \A T \in SUBSET S : MergedRelation(T) = f[T]
      BY MergedIs
  <1>2. {} \in SUBSET S /\ S \in SUBSET S /\ S \ {Latest(S)} \in SUBSET S
      OBVIOUS
  <1>3. f[{}] = NoChange /\ (S # {} => f[S] = MergeRelation(f[S \ {Latest(S)}], Latest(S).rel))
      BY <1>1, <1>2 DEF Recursion
  <1> QED
      BY <1>1, <1>2, <1>3

-----------------------------------------------------------------------------
(* Places.                                                                 *)

Rank(S, i) == Cardinality({j \in S : j <= i})

LEMMA RankGrows ==
  ASSUME NEW S, IsFiniteSet(S), S \subseteq Nat
  PROVE  /\ Cardinality(S) \in Nat
         /\ \A i \in S : Rank(S, i) \in 1 .. Cardinality(S)
         /\ \A i, j \in S : i < j => Rank(S, i) < Rank(S, j)
  <1> DEFINE Upto(i) == {j \in S : j <= i}
  <1>1. Cardinality(S) \in Nat
      BY FS_CardinalityType
  <1>2. ASSUME NEW i \in S
        PROVE  IsFiniteSet(Upto(i)) /\ Rank(S, i) \in Nat /\ Rank(S, i) <= Cardinality(S) /\ Rank(S, i) # 0
    <2>1. Upto(i) \in SUBSET S /\ i \in Upto(i)
        OBVIOUS
    <2>2. IsFiniteSet(Upto(i)) /\ Cardinality(Upto(i)) <= Cardinality(S)
        BY <2>1, FS_Subset
    <2>3. Cardinality(Upto(i)) \in Nat /\ Cardinality(Upto(i)) # 0
        BY <2>1, <2>2, FS_CardinalityType, FS_EmptySet
    <2> QED
        BY <2>2, <2>3 DEF Rank
  <1>3. ASSUME NEW i \in S PROVE Rank(S, i) \in 1 .. Cardinality(S)
    <2>1. PICK r, n : r = Rank(S, i) /\ n = Cardinality(S)
        OBVIOUS
    <2>2. r \in Nat /\ n \in Nat /\ r <= n /\ r # 0
        BY <2>1, <1>1, <1>2
    <2>3. r \in 1 .. n
        BY <2>2
    <2> QED
        BY <2>1, <2>3
  <1>4. ASSUME NEW i \in S, NEW j \in S, i < j
        PROVE  Rank(S, i) < Rank(S, j)
    <2>1. Upto(i) \in SUBSET Upto(j) /\ Upto(i) # Upto(j)
      <3>1. i \in Nat /\ j \in Nat /\ \A t \in S : t \in Nat
          OBVIOUS
      <3>2. \A t \in S : t <= i => t <= j
          BY <3>1, <1>4
      <3>3. j \in Upto(j) /\ ~(j <= i)
          BY <3>1, <1>4
      <3>4. Upto(i) \subseteq Upto(j)
          BY <3>2
      <3> QED
          BY <3>3, <3>4
    <2>2. IsFiniteSet(Upto(j))
        BY <1>2
    <2>3. Cardinality(Upto(i)) <= Cardinality(Upto(j)) /\ Cardinality(Upto(i)) # Cardinality(Upto(j))
        BY <2>1, <2>2, FS_Subset
    <2> QED
        BY <2>3, <1>2 DEF Rank
  <1> QED
      BY <1>1, <1>3, <1>4

LEMMA Ranks ==
  ASSUME NEW S, IsFiniteSet(S), S \subseteq Nat
  PROVE  /\ \A k \in 1 .. Cardinality(S) : Nth(S, k) \in S /\ Rank(S, Nth(S, k)) = k
         /\ \A i \in S : Nth(S, Rank(S, i)) = i
         /\ \A k, m \in 1 .. Cardinality(S) : k < m => Nth(S, k) < Nth(S, m)
  <1> DEFINE n == Cardinality(S)
             f == [i \in S |-> Rank(S, i)]
  <1>1. n \in Nat /\ (\A i \in S : Rank(S, i) \in 1 .. n)
      BY RankGrows
  <1>2. \A i, j \in S : Rank(S, i) = Rank(S, j) => i = j
    <2> SUFFICES ASSUME NEW i \in S, NEW j \in S, Rank(S, i) = Rank(S, j), i # j PROVE FALSE
        OBVIOUS
    <2>1. i < j \/ j < i
        OBVIOUS
    <2>2. Rank(S, i) < Rank(S, j) \/ Rank(S, j) < Rank(S, i)
        BY <2>1, RankGrows
    <2>3. Rank(S, i) \in Nat /\ Rank(S, j) \in Nat
        BY <1>1
    <2> QED
        BY <2>2, <2>3
  <1>3. f \in Injection(S, 1 .. n)
      BY <1>1, <1>2 DEF Injection, IsInjective
  <1>4. IsFiniteSet(1 .. n) /\ Cardinality(1 .. n) = n
      BY <1>1, FS_Interval
  <1>5. f \in Surjection(S, 1 .. n)
      BY <1>3, <1>4, FS_Injection
  <1>6. \A k \in 1 .. n : \E i \in S : Rank(S, i) = k
      BY <1>5 DEF Surjection
  <1> HIDE DEF n, f
  <1>7. \A k \in 1 .. n : Nth(S, k) \in S /\ Rank(S, Nth(S, k)) = k
      BY <1>6 DEF Nth, Rank
  <1>8. \A i \in S : Nth(S, Rank(S, i)) = i
      BY <1>1, <1>2, <1>7
  <1>9. ASSUME NEW k \in 1 .. n, NEW m \in 1 .. n, k < m
        PROVE  Nth(S, k) < Nth(S, m)
    <2>1. PICK i, j \in S : i = Nth(S, k) /\ j = Nth(S, m) /\ Rank(S, i) = k /\ Rank(S, j) = m
        BY <1>7
    <2>2. ~(j < i) /\ i # j
      <3>1. j < i => Rank(S, j) < Rank(S, i)
          BY RankGrows
      <3> QED
          BY <3>1, <2>1, <1>1, <1>9
    <2> QED
        BY <2>1, <2>2
  <1> QED
      BY <1>7, <1>8, <1>9 DEF n

\* The places, all of them.
LEMMA NthOfAll ==
  ASSUME NEW n \in Nat
  PROVE  Cardinality(1 .. n) = n /\ \A k \in 1 .. n : Nth(1 .. n, k) = k
  <1>1. IsFiniteSet(1 .. n) /\ Cardinality(1 .. n) = n /\ 1 .. n \subseteq Nat
      BY FS_Interval
  <1>2. ASSUME NEW k \in 1 .. n PROVE Rank(1 .. n, k) = k
    <2>1. {j \in 1 .. n : j <= k} = 1 .. k
        OBVIOUS
    <2>2. Cardinality(1 .. k) = k
        BY FS_Interval
    <2> QED
        BY <2>1, <2>2 DEF Rank
  <1>3. \A k \in 1 .. n : Nth(1 .. n, Rank(1 .. n, k)) = k
      BY <1>1, Ranks
  <1> QED
      BY <1>1, <1>2, <1>3

\* The places counted from the other end.
LEMMA NthReversed ==
  ASSUME NEW n \in Nat, NEW S, S \subseteq 1 .. n
  PROVE  LET R == {i \in 1 .. n : n + 1 - i \in S} IN
         /\ Cardinality(R) = Cardinality(S) /\ Cardinality(S) \in Nat
         /\ \A k \in 1 .. Cardinality(S) :
              /\ Cardinality(S) + 1 - k \in 1 .. Cardinality(S)
              /\ Nth(R, k) = n + 1 - Nth(S, Cardinality(S) + 1 - k)
  <1> DEFINE R == {i \in 1 .. n : n + 1 - i \in S}
             m == Cardinality(S)
             f == [i \in S |-> n + 1 - i]
  <1>1. IsFiniteSet(S) /\ m \in Nat /\ S \subseteq Nat /\ R \subseteq Nat /\ IsFiniteSet(R)
    <2>1. IsFiniteSet(1 .. n)
        BY FS_Interval
    <2>2. R \subseteq 1 .. n /\ 1 .. n \subseteq Nat
        OBVIOUS
    <2> HIDE DEF R
    <2>3. IsFiniteSet(S) /\ IsFiniteSet(R)
        BY <2>1, <2>2, FS_Subset
    <2> QED
        BY <2>2, <2>3, FS_CardinalityType
  <1>2. \A i \in S : n + 1 - i \in R /\ i \in 1 .. n
      OBVIOUS
  <1>3. Cardinality(R) = m
    <2>1. f \in [S -> R] /\ \A i, j \in S : f[i] = f[j] => i = j
        BY <1>2
    <2>2. f \in Injection(S, R)
        BY <2>1 DEF Injection, IsInjective
    <2>3. \A i \in R : n + 1 - i \in S /\ f[n + 1 - i] = i
        OBVIOUS
    <2>4. f \in Surjection(S, R)
        BY <2>1, <2>3 DEF Surjection
    <2> HIDE DEF f, R
    <2> QED
        BY <2>2, <2>4, <1>1, FS_Injection
  <1>4. ASSUME NEW k \in 1 .. m
        PROVE  m + 1 - k \in 1 .. m /\ Nth(R, k) = n + 1 - Nth(S, m + 1 - k)
    <2>1. PICK q \in 1 .. m : q = m + 1 - k
        BY <1>1
    <2>2. PICK i \in S : i = Nth(S, q) /\ Rank(S, i) = q
        BY <1>1, Ranks
    <2>3. PICK j \in R : j = n + 1 - i
        BY <1>2
    <2> DEFINE above == {t \in S : i <= t}
               upto == {t \in S : t <= i}
               g == [t \in above |-> n + 1 - t]
               below == {t \in R : t <= j}
    <2>4. IsFiniteSet(above) /\ IsFiniteSet(upto) /\ IsFiniteSet(below)
        BY <1>1, FS_Subset
    <2>5. above \cap upto = {i} /\ above \cup upto = S
      <3>1. i \in S /\ \A t \in S : t \in Nat
          BY <1>1
      <3>2. \A t \in S : (i <= t \/ t <= i) /\ (i <= t /\ t <= i => t = i) /\ i <= i
          BY <3>1
      <3> QED
          BY <3>1, <3>2
    <2>6. Cardinality(above) = m + 1 - q
      <3>1. Cardinality(above) \in Nat /\ Cardinality(upto) = q
          BY <2>2, <2>4, FS_CardinalityType DEF Rank
      <3> HIDE DEF above, upto
      <3>2. Cardinality(S) = Cardinality(above) + Cardinality(upto) - Cardinality({i})
          BY <2>4, <2>5, FS_Union
      <3>3. Cardinality({i}) = 1
          BY FS_Singleton
      <3> QED
          BY <3>1, <3>2, <3>3, <1>1
    <2>7. Cardinality(below) = Cardinality(above)
      <3>1. g \in [above -> below] /\ \A t, u \in above : g[t] = g[u] => t = u
        <4>1. i \in Nat /\ j = n + 1 - i
            BY <1>1, <2>3
        <4>2. \A t \in above : t \in S /\ t \in Nat /\ i <= t
            BY <1>1
        <4>3. \A t \in above : n + 1 - t \in R /\ n + 1 - t <= j
            BY <1>2, <4>1, <4>2
        <4>4. \A t, u \in above : n + 1 - t = n + 1 - u => t = u
            BY <4>2
        <4> HIDE DEF above
        <4>5. \A t \in above : n + 1 - t \in below
            BY <4>3
        <4> QED
            BY <4>4, <4>5
      <3>2. g \in Injection(above, below)
          BY <3>1 DEF Injection, IsInjective
      <3>3. \A t \in below : n + 1 - t \in above /\ g[n + 1 - t] = t
          BY <1>2, <2>3
      <3>4. g \in Surjection(above, below)
          BY <3>1, <3>3 DEF Surjection
      <3> HIDE DEF g, above, below
      <3> QED
          BY <3>2, <3>4, <2>4, FS_Injection
    <2>8. Rank(R, j) = k
        BY <2>1, <2>6, <2>7, <1>1 DEF Rank
    <2>9. Nth(R, k) = j
        BY <2>8, <1>1, Ranks
    <2> QED
        BY <2>1, <2>2, <2>3, <2>9
  <1> QED
      BY <1>1, <1>3, <1>4

-----------------------------------------------------------------------------
(* What takes the place of rows.                                           *)

LEMMA InSeq ==
  ASSUME NEW n \in Nat, NEW s, s = [i \in 1 .. n |-> s[i]]
  PROVE  s \in Seq(Range(s)) /\ Len(s) = n /\ DOMAIN s = 1 .. n
  <1>1. DOMAIN s = 1 .. n
      OBVIOUS
  <1>2. s \in [1 .. n -> Range(s)]
      BY <1>1 DEF Range
  <1>3. s \in Seq(Range(s))
      BY <1>2, SeqDef
  <1> QED
      BY <1>1, <1>3, LenProperties

LEMMA OfSeq ==
  ASSUME NEW s, s \in Seq(Range(s))
  PROVE  Len(s) \in Nat /\ DOMAIN s = 1 .. Len(s) /\ s = [i \in 1 .. Len(s) |-> s[i]]
  BY LenProperties

LEMMA GroupOrdered ==
  ASSUME NEW rows, IsRead(rows), NEW x
  PROVE  /\ Ordered(GroupOf(rows, x))
         /\ \A i \in DOMAIN rows : rows[i] \in GroupOf(rows, rows[i].object)
         /\ \A r \in GroupOf(rows, x) : r.object = x /\ \E i \in DOMAIN rows : r = rows[i]
  <1> DEFINE n == Len(rows)
             f == [i \in 1 .. n |-> rows[i]]
  <1>1. n \in Nat /\ DOMAIN rows = 1 .. n
      BY OfSeq DEF IsRead
  <1>2. \A r : r \in Range(rows) <=> \E i \in DOMAIN rows : r = rows[i]
      BY DEF Range
  <1>3. IsFiniteSet(Range(rows))
    <2>1. f \in Surjection(1 .. n, Range(rows))
        BY <1>1, <1>2 DEF Surjection
    <2>2. IsFiniteSet(1 .. n)
        BY <1>1, FS_Interval
    <2> QED
        BY <2>1, <2>2, FS_Surjection
  <1>4. IsFiniteSet(GroupOf(rows, x))
      BY <1>3, FS_Subset DEF GroupOf
  <1> QED
      BY <1>2, <1>4 DEF GroupOf, Ordered, IsRead

LEMMA MergedShape ==
  ASSUME NEW G
  PROVE  /\ MergedRow(G).id = Earliest(G).id /\ MergedRow(G).object = Earliest(G).object
         /\ MergedRow(G).verb = MergedVerb(G)
         /\ MergedRow(G).col = MergedColumn(G, "col", MergedVerb(G))
         /\ MergedRow(G).secret = MergedColumn(G, "secret", MergedVerb(G))
         /\ MergedRow(G).rel = MergedRelation(G)
         /\ Merge(G) = {} \/ Merge(G) = {MergedRow(G)}
  <1>1. PICK id, o, v, a, s, c, p, d :
          /\ id = Earliest(G).id /\ o = Earliest(G).object /\ v = MergedVerb(G)
          /\ a = Earliest(G).actor /\ s = Latest(G).scope
          /\ c = MergedColumn(G, "col", MergedVerb(G)) /\ p = MergedColumn(G, "secret", MergedVerb(G))
          /\ d = MergedRelation(G)
      OBVIOUS
  <1>2. MergedRow(G) = EntryRow(id, o, v, [actor |-> a, scope |-> s], c, p, d)
      BY <1>1 DEF MergedRow
  <1>3. Merge(G) = {} \/ Merge(G) = {MergedRow(G)}
      BY DEF Merge
  <1> QED
      BY <1>1, <1>2, <1>3 DEF EntryRow

LEMMA PlacedOne ==
  ASSUME NEW rows, NEW i
  PROVE  Placed(rows, i) = {} \/ \E r : Placed(rows, i) = {r}
  BY MergedShape DEF Placed

\* Rows of which a reader is shown what they are.
Raw(G) == (\E r : G = {r}) \/ ~CanCompact(G)

LEMMA PlacedIs ==
  ASSUME NEW rows, IsRead(rows), NEW i \in DOMAIN rows, NEW G, G = GroupOf(rows, rows[i].object)
  PROVE  /\ Placed(rows, i) = IF Raw(G) THEN {rows[i]}
                              ELSE IF rows[i] = Earliest(G) THEN Merge(G) ELSE {}
         /\ \A r \in Placed(rows, i) : r.object = rows[i].object
  <1>1. rows[i] \in G /\ Ordered(G)
      BY GroupOrdered
  <1>2. (\E r : G = {r}) <=> G = {rows[i]}
      BY <1>1
  <1>3. Placed(rows, i) = IF Raw(G) THEN {rows[i]}
                          ELSE IF rows[i] = Earliest(G) THEN Merge(G) ELSE {}
      BY <1>2 DEF Placed, Raw
  <1>4. \A r \in Merge(G) : r.object = Earliest(G).object
      BY MergedShape
  <1> QED
      BY <1>3, <1>4

Kept(rows) == {i \in DOMAIN rows : Placed(rows, i) # {}}

LEMMA Compacted ==
  ASSUME NEW rows, rows \in Seq(Range(rows)), NEW m, m = Cardinality(Kept(rows))
  PROVE  /\ m \in Nat /\ Kept(rows) \subseteq 1 .. Len(rows)
         /\ Compact(rows) = [k \in 1 .. m |-> CHOOSE r \in Placed(rows, Nth(Kept(rows), k)) : TRUE]
         /\ Compact(rows) \in Seq(Range(Compact(rows)))
         /\ Len(Compact(rows)) = m /\ DOMAIN Compact(rows) = 1 .. m
         /\ \A r : r \in Range(Compact(rows)) <=> \E i \in DOMAIN rows : r \in Placed(rows, i)
  <1> DEFINE K == Kept(rows)
             out == [k \in 1 .. m |-> CHOOSE r \in Placed(rows, Nth(K, k)) : TRUE]
  <1>1. Len(rows) \in Nat /\ DOMAIN rows = 1 .. Len(rows)
      BY OfSeq
  <1>2. K \subseteq 1 .. Len(rows)
      BY <1>1 DEF Kept
  <1>3. IsFiniteSet(K) /\ m \in Nat /\ K \subseteq Nat
    <2>1. IsFiniteSet(1 .. Len(rows)) /\ 1 .. Len(rows) \subseteq Nat
        BY <1>1, FS_Interval
    <2> QED
        BY <2>1, <1>2, FS_Subset, FS_CardinalityType
  <1>4. Compact(rows) = out
      BY DEF Compact, Kept
  <1>5. out = [k \in 1 .. m |-> out[k]]
      OBVIOUS
  <1>6. out \in Seq(Range(out)) /\ Len(out) = m /\ DOMAIN out = 1 .. m
    <2> HIDE DEF out
    <2> QED
        BY <1>3, <1>5, InSeq
  <1>7. \A k \in 1 .. m : Nth(K, k) \in K
      BY <1>3, Ranks
  <1>8. \A k \in 1 .. m : out[k] \in Placed(rows, Nth(K, k))
      BY <1>7 DEF Kept
  <1>9. ASSUME NEW i \in DOMAIN rows, NEW r \in Placed(rows, i)
        PROVE  r \in Range(out)
    <2>1. i \in K /\ Placed(rows, i) = {r}
        BY <1>9, PlacedOne DEF Kept
    <2>2. PICK k \in 1 .. m : Nth(K, k) = i
        BY <2>1, <1>3, RankGrows, Ranks
    <2>3. out[k] = r
        BY <2>1, <2>2, <1>8
    <2> QED
        BY <2>3, <1>6 DEF Range
  <1>10. \A r \in Range(out) : \E i \in DOMAIN rows : r \in Placed(rows, i)
      BY <1>6, <1>7, <1>8 DEF Range, Kept
  <1> QED
      BY <1>2, <1>3, <1>4, <1>6, <1>9, <1>10

\* What a reader is shown of an object depends on its rows alone.
LEMMA ShownIs ==
  ASSUME NEW rows, IsRead(rows), NEW x, NEW G, G = GroupOf(rows, x)
  PROVE  ShownOf(rows, x) = IF G = {} THEN {} ELSE IF Raw(G) THEN G ELSE Merge(G)
  <1>1. \A r : r \in ShownOf(rows, x) <=> r.object = x /\ \E i \in DOMAIN rows : r \in Placed(rows, i)
      BY Compacted DEF ShownOf, GroupOf, IsRead
  <1>2. \A r : r \in ShownOf(rows, x) <=>
          \E i \in DOMAIN rows : rows[i].object = x /\ r \in Placed(rows, i)
      BY <1>1, PlacedIs
  <1>3. \A r : r \in G <=> \E i \in DOMAIN rows : r = rows[i] /\ rows[i].object = x
      BY DEF GroupOf, Range
  <1>4. \A i \in DOMAIN rows : rows[i].object = x =>
          Placed(rows, i) = IF Raw(G) THEN {rows[i]}
                            ELSE IF rows[i] = Earliest(G) THEN Merge(G) ELSE {}
      BY PlacedIs
  <1>5. CASE G = {}
      BY <1>2, <1>3, <1>5
  <1>6. CASE G # {} /\ Raw(G)
      BY <1>2, <1>3, <1>4, <1>6
  <1>7. CASE G # {} /\ ~Raw(G)
    <2>1. Earliest(G) \in G
        BY <1>7, GroupOrdered, Ends
    <2>2. PICK i \in DOMAIN rows : rows[i] = Earliest(G) /\ rows[i].object = x
        BY <2>1, <1>3
    <2> QED
        BY <1>2, <1>4, <1>7, <2>2
  <1> QED
      BY <1>5, <1>6, <1>7

\* Compacting what was compacted changes nothing.
LEMMA CompactedTwice ==
  ASSUME NEW rows, IsRead(rows)
  PROVE  Compact(Compact(rows)) = Compact(rows)
  <1>1. PICK out : out = Compact(rows)
      OBVIOUS
  <1>2. PICK m \in Nat : out \in Seq(Range(out)) /\ Len(out) = m /\ DOMAIN out = 1 .. m
      BY <1>1, Compacted DEF IsRead
  <1>3. ASSUME NEW k \in 1 .. m PROVE Placed(out, k) = {out[k]}
    <2>1. PICK x, r : r = out[k] /\ x = r.object
        OBVIOUS
    <2>2. PICK G, H : G = GroupOf(rows, x) /\ H = GroupOf(out, x)
        OBVIOUS
    <2>3. H = IF G = {} THEN {} ELSE IF Raw(G) THEN G ELSE Merge(G)
        BY <2>2, <1>1, ShownIs DEF ShownOf
    <2>4. r \in H
        BY <2>1, <2>2, <1>2 DEF GroupOf, Range
    <2>5. H = {r} \/ ~CanCompact(H)
        BY <2>3, <2>4, MergedShape DEF Raw
    <2> QED
        BY <2>1, <2>2, <2>5 DEF Placed
  <1>4. Kept(out) = 1 .. m
      BY <1>2, <1>3 DEF Kept
  <1>5. Cardinality(Kept(out)) = m /\ \A k \in 1 .. m : Nth(Kept(out), k) = k
      BY <1>4, NthOfAll
  <1>6. Compact(out) = [k \in 1 .. m |-> CHOOSE r \in Placed(out, Nth(Kept(out), k)) : TRUE]
      BY <1>2, <1>5, Compacted
  <1>7. \A k \in 1 .. m : (CHOOSE r \in Placed(out, Nth(Kept(out), k)) : TRUE) = out[k]
      BY <1>3, <1>5
  <1>8. Compact(out) = [k \in 1 .. m |-> out[k]]
      BY <1>6, <1>7
  <1>9. out = [k \in 1 .. m |-> out[k]]
      BY <1>2, OfSeq
  <1> QED
      BY <1>1, <1>8, <1>9

\* Rows read the other way.
LEMMA CompactedReversed ==
  ASSUME NEW rows, IsRead(rows)
  PROVE  Compact(Reverse(rows)) = Reverse(Compact(rows))
  <1>1. PICK n \in Nat : n = Len(rows) /\ DOMAIN rows = 1 .. n
      BY OfSeq DEF IsRead
  <1>2. PICK back : back = Reverse(rows)
      OBVIOUS
  <1>3. back = [i \in 1 .. n |-> rows[(n - i) + 1]]
      BY <1>1, <1>2 DEF Reverse
  <1>4. DOMAIN back = 1 .. n /\ \A i \in 1 .. n : back[i] = rows[n + 1 - i] /\ n + 1 - i \in 1 .. n
      BY <1>1, <1>3
  <1>5. back \in Seq(Range(back)) /\ Len(back) = n
    <2>1. back = [i \in 1 .. n |-> back[i]]
        BY <1>3
    <2> QED
        BY <2>1, InSeq
  <1>6. Range(back) = Range(rows)
    <2>1. \A i \in 1 .. n : rows[i] = back[n + 1 - i]
      <3> SUFFICES ASSUME NEW i \in 1 .. n PROVE rows[i] = back[n + 1 - i]
          OBVIOUS
      <3>1. PICK j \in 1 .. n : j = n + 1 - i
          BY <1>4
      <3>2. n + 1 - j = i
          BY <3>1
      <3> QED
          BY <3>1, <3>2, <1>4
    <2> QED
        BY <2>1, <1>1, <1>4 DEF Range
  <1>7. ASSUME NEW i \in 1 .. n, NEW j \in 1 .. n, j = n + 1 - i
        PROVE  Placed(back, i) = Placed(rows, j)
    <2>1. back[i] = rows[j]
        BY <1>4, <1>7
    <2>2. GroupOf(back, back[i].object) = GroupOf(rows, rows[j].object)
        BY <2>1, <1>6 DEF GroupOf
    <2> QED
        BY <2>1, <2>2 DEF Placed
  <1>8. PICK K, R : K = Kept(rows) /\ R = Kept(back)
      OBVIOUS
  <1>9. R = {i \in 1 .. n : n + 1 - i \in K} /\ K \subseteq 1 .. n
    <2>1. \A i \in 1 .. n : i \in R <=> Placed(rows, n + 1 - i) # {}
        BY <1>4, <1>7, <1>8 DEF Kept
    <2>2. \A i \in 1 .. n : n + 1 - i \in K <=> Placed(rows, n + 1 - i) # {}
        BY <1>1, <1>4, <1>8 DEF Kept
    <2>3. R \subseteq 1 .. n /\ K \subseteq 1 .. n
        BY <1>1, <1>4, <1>8 DEF Kept
    <2> QED
        BY <2>1, <2>2, <2>3
  <1>10. PICK m \in Nat :
           /\ m = Cardinality(K) /\ m = Cardinality(R)
           /\ \A k \in 1 .. m : m + 1 - k \in 1 .. m /\ Nth(R, k) = n + 1 - Nth(K, m + 1 - k)
    <2> DEFINE flipped == {i \in 1 .. n : n + 1 - i \in K}
    <2>1. R = flipped /\ K \subseteq 1 .. n
        BY <1>9
    <2>2. PICK m : m = Cardinality(K)
        OBVIOUS
    <2>3. /\ Cardinality(flipped) = Cardinality(K) /\ Cardinality(K) \in Nat
          /\ \A k \in 1 .. Cardinality(K) :
               /\ Cardinality(K) + 1 - k \in 1 .. Cardinality(K)
               /\ Nth(flipped, k) = n + 1 - Nth(K, Cardinality(K) + 1 - k)
        BY <2>1, NthReversed
    <2> HIDE DEF flipped
    <2> QED
        BY <2>1, <2>2, <2>3
  <1>11. PICK out : out = Compact(rows)
      OBVIOUS
  <1>12. /\ out = [k \in 1 .. m |-> CHOOSE r \in Placed(rows, Nth(K, k)) : TRUE]
         /\ Len(out) = m
    <2>1. rows \in Seq(Range(rows)) /\ m = Cardinality(Kept(rows))
        BY <1>8, <1>10 DEF IsRead
    <2> QED
        BY <2>1, <1>8, <1>11, Compacted
  <1>13. Compact(back) = [k \in 1 .. m |-> CHOOSE r \in Placed(back, Nth(R, k)) : TRUE]
      BY <1>5, <1>8, <1>10, Compacted
  <1>14. ASSUME NEW k \in 1 .. m
         PROVE  (CHOOSE r \in Placed(back, Nth(R, k)) : TRUE) = out[(m - k) + 1]
    <2>1. PICK q \in 1 .. m : q = m + 1 - k
        BY <1>10
    <2>2. PICK j : j = Nth(K, q)
        OBVIOUS
    <2>3. j \in 1 .. n
      <3>1. IsFiniteSet(1 .. n) /\ K \subseteq 1 .. n /\ 1 .. n \subseteq Nat
          BY <1>9, FS_Interval
      <3>2. IsFiniteSet(K) /\ K \subseteq Nat
          BY <3>1, FS_Subset
      <3> QED
          BY <3>2, <2>1, <2>2, <1>9, <1>10, Ranks
    <2>4. PICK i : i = Nth(R, k)
        OBVIOUS
    <2>5. i = n + 1 - j
        BY <2>1, <2>2, <2>4, <1>10
    <2>6. i \in 1 .. n /\ j = n + 1 - i
        BY <2>3, <2>5
    <2>7. Placed(back, i) = Placed(rows, j)
        BY <2>3, <2>6, <1>7
    <2>8. (m - k) + 1 = q
        BY <2>1
    <2> QED
        BY <2>2, <2>4, <2>7, <2>8, <1>12
  <1>15. Compact(back) = [k \in 1 .. m |-> out[(m - k) + 1]]
      BY <1>13, <1>14
  <1>16. Reverse(out) = [k \in 1 .. m |-> out[(m - k) + 1]]
      BY <1>12 DEF Reverse
  <1> QED
      BY <1>2, <1>11, <1>15, <1>16


-----------------------------------------------------------------------------
(* What a scrub leaves of rows.                                            *)

\* A value that may have been erased, and an entry that may have been.
Fades(v, w) == w = v \/ w = EraseValue(v)
FadesInto(p, q) ==
  /\ p = NoField <=> q = NoField
  /\ p # NoField => q = <<q[1], q[2]>> /\ Fades(p[1], q[1]) /\ Fades(p[2], q[2])

Scrubbed(r, s) ==
  /\ s.id = r.id /\ s.object = r.object /\ s.verb = r.verb /\ s.actor = r.actor
  /\ FadesInto(r.col, s.col) /\ FadesInto(r.secret, s.secret)
  /\ HasRelation(r) <=> HasRelation(s)
  /\ s.rel = r.rel \/ (HasRelation(s) => s.rel.erasedAdded # 0 \/ s.rel.erasedRemoved # 0)

LEMMA PairFades ==
  ASSUME NEW p, IsPair(p)
  PROVE  IsPair(EraseField(p)) /\ FadesInto(p, EraseField(p)) /\ FadesInto(p, p)
  <1>1. CASE p = NoField
      BY <1>1 DEF IsPair, FadesInto, EraseField
  <1>2. CASE p # NoField
    <2>1. PICK v, w : v = EraseValue(p[1]) /\ w = EraseValue(p[2])
        OBVIOUS
    <2>2. EraseField(p) = <<v, w>> /\ <<v, w>> # NoField /\ p = <<p[1], p[2]>>
        BY <1>2, <2>1 DEF EraseField, IsPair, NoField
    <2> QED
        BY <1>2, <2>1, <2>2 DEF IsPair, FadesInto, Fades
  <1> QED
      BY <1>1, <1>2

LEMMA RowErased ==
  ASSUME NEW r, IsEntry(r)
  PROVE  IsEntry(EraseRow(r)) /\ EraseRow(r).scope = r.scope /\ Scrubbed(r, EraseRow(r)) /\ Scrubbed(r, r)
  <1>1. PICK c, p, d : /\ c = EraseField(r.col) /\ p = EraseField(r.secret)
                       /\ d = [NoChange EXCEPT !.erasedAdded = Cardinality(r.rel.added) + r.rel.erasedAdded,
                                               !.erasedRemoved = Cardinality(r.rel.removed) + r.rel.erasedRemoved]
      OBVIOUS
  <1>2. PICK e : e = EraseRow(r)
      OBVIOUS
  <1>3. e = [r EXCEPT !.col = c, !.secret = p, !.rel = d]
      BY <1>1, <1>2 DEF EraseRow
  <1>4. r = [id |-> r.id, object |-> r.object, verb |-> r.verb, actor |-> r.actor, scope |-> r.scope,
             col |-> r.col, secret |-> r.secret, rel |-> r.rel]
      BY DEF IsEntry, EntryRow
  <1>5. e = [id |-> r.id, object |-> r.object, verb |-> r.verb, actor |-> r.actor, scope |-> r.scope,
             col |-> c, secret |-> p, rel |-> d]
      BY <1>3, <1>4
  <1>6. IsPair(c) /\ IsPair(p) /\ FadesInto(r.col, c) /\ FadesInto(r.secret, p)
      BY <1>1, PairFades DEF IsEntry
  <1>7. IsDelta(d) /\ (r.rel = NoChange <=> d = NoChange)
        /\ (d # NoChange => d.erasedAdded # 0 \/ d.erasedRemoved # 0)
    <2>1. PICK a, b : a = Cardinality(r.rel.added) /\ b = Cardinality(r.rel.removed)
        OBVIOUS
    <2>2. a \in Nat /\ b \in Nat /\ (a = 0 <=> r.rel.added = {}) /\ (b = 0 <=> r.rel.removed = {})
        BY <2>1, FS_CardinalityType, FS_EmptySet DEF IsEntry, IsDelta
    <2>3. d = [added |-> {}, removed |-> {}, erasedAdded |-> a + r.rel.erasedAdded,
               erasedRemoved |-> b + r.rel.erasedRemoved]
        BY <1>1, <2>1 DEF NoChange
    <2>4. r.rel = [added |-> r.rel.added, removed |-> r.rel.removed,
                   erasedAdded |-> r.rel.erasedAdded, erasedRemoved |-> r.rel.erasedRemoved]
          /\ r.rel.erasedAdded \in Nat /\ r.rel.erasedRemoved \in Nat
        BY DEF IsEntry, IsDelta
    <2>5. IsDelta(d)
        BY <2>2, <2>3, <2>4, FS_EmptySet DEF IsDelta
    <2>6. d = NoChange <=> (a = 0 /\ r.rel.erasedAdded = 0 /\ b = 0 /\ r.rel.erasedRemoved = 0)
      <3>1. PICK u, w : u = a + r.rel.erasedAdded /\ w = b + r.rel.erasedRemoved
          OBVIOUS
      <3>2. /\ u = 0 <=> a = 0 /\ r.rel.erasedAdded = 0
            /\ w = 0 <=> b = 0 /\ r.rel.erasedRemoved = 0
          BY <3>1, <2>2, <2>4
      <3>3. d = [added |-> {}, removed |-> {}, erasedAdded |-> u, erasedRemoved |-> w]
          BY <3>1, <2>3
      <3>4. d = NoChange <=> u = 0 /\ w = 0
          BY <3>3 DEF NoChange
      <3> QED
          BY <3>2, <3>4
    <2>7. r.rel = NoChange <=> (r.rel.added = {} /\ r.rel.erasedAdded = 0
                                /\ r.rel.removed = {} /\ r.rel.erasedRemoved = 0)
        BY <2>4 DEF NoChange
    <2>8. d # NoChange => d.erasedAdded # 0 \/ d.erasedRemoved # 0
        BY <2>2, <2>3, <2>4 DEF NoChange
    <2> QED
        BY <2>2, <2>5, <2>6, <2>7, <2>8
  <1>8. IsEntry(e)
      BY <1>5, <1>6, <1>7 DEF IsEntry, EntryRow
  <1>9. Scrubbed(r, e)
      BY <1>5, <1>6, <1>7 DEF Scrubbed, HasRelation
  <1>10. Scrubbed(r, r)
      BY PairFades DEF Scrubbed, IsEntry
  <1> QED
      BY <1>2, <1>5, <1>8, <1>9, <1>10

\* Groups of which one is the other, scrubbed.
Scrubs(G, H) ==
  /\ Ordered(G) /\ Ordered(H)
  /\ \A r \in G : \E s \in H : s.id = r.id
  /\ \A s \in H : \E r \in G : s.id = r.id
  /\ \A r \in G, s \in H : s.id = r.id => Scrubbed(r, s)

LEMMA ScrubRead ==
  ASSUME NEW rows, IsRead(rows), NEW x, NEW scopes
  PROVE  /\ IsRead(Scrub(rows, x, scopes))
         /\ Scrubs(GroupOf(rows, x), GroupOf(Scrub(rows, x, scopes), x))
  <1>1. PICK n \in Nat : n = Len(rows) /\ DOMAIN rows = 1 .. n
      BY OfSeq DEF IsRead
  <1>2. PICK out : out = Scrub(rows, x, scopes)
      OBVIOUS
  <1>3. DOMAIN out = 1 .. n /\ \A i \in 1 .. n : out[i] = rows[i] \/ out[i] = EraseRow(rows[i])
      BY <1>1, <1>2 DEF Scrub
  <1>4. \A i \in 1 .. n : IsEntry(rows[i]) /\ IsEntry(out[i]) /\ Scrubbed(rows[i], out[i])
      BY <1>1, <1>3, RowErased DEF IsRead
  <1>5. \A i \in 1 .. n : out[i].id = rows[i].id /\ out[i].object = rows[i].object
      BY <1>4 DEF Scrubbed
  <1>6. out \in Seq(Range(out))
    <2>1. out = [i \in 1 .. n |-> out[i]]
        BY <1>1, <1>2, <1>3 DEF Scrub
    <2> QED
        BY <2>1, InSeq
  <1>7. IsRead(out)
      BY <1>1, <1>3, <1>4, <1>5, <1>6 DEF IsRead
  <1>8. PICK G, H : G = GroupOf(rows, x) /\ H = GroupOf(out, x)
      OBVIOUS
  <1>9. /\ \A r : r \in G <=> \E i \in 1 .. n : r = rows[i] /\ rows[i].object = x
        /\ \A s : s \in H <=> \E i \in 1 .. n : s = out[i] /\ out[i].object = x
      BY <1>1, <1>3, <1>8 DEF GroupOf, Range
  <1>10. Ordered(G) /\ Ordered(H)
      BY <1>7, <1>8, GroupOrdered
  <1>11. \A r \in G : \E s \in H : s.id = r.id
      BY <1>5, <1>9
  <1>12. \A s \in H : \E r \in G : s.id = r.id
      BY <1>5, <1>9
  <1>13. ASSUME NEW r \in G, NEW s \in H, s.id = r.id
         PROVE  Scrubbed(r, s)
    <2>1. PICK i, j \in 1 .. n : r = rows[i] /\ s = out[j]
        BY <1>9
    <2>2. i = j
        BY <2>1, <1>1, <1>5, <1>13 DEF IsRead
    <2> QED
        BY <2>1, <2>2, <1>4
  <1> QED
      BY <1>2, <1>7, <1>8, <1>10, <1>11, <1>12, <1>13 DEF Scrubs

\* The ends of a group are scrubbed into those of the other.
LEMMA EndsScrubbed ==
  ASSUME NEW G, NEW H, Scrubs(G, H), G # {} \/ H # {}
  PROVE  /\ G # {} /\ H # {}
         /\ Earliest(G) \in G /\ Earliest(H) \in H /\ Earliest(H).id = Earliest(G).id
         /\ Scrubbed(Earliest(G), Earliest(H))
         /\ Latest(G) \in G /\ Latest(H) \in H /\ Latest(H).id = Latest(G).id
         /\ Scrubbed(Latest(G), Latest(H))
  <1>1. G # {} /\ H # {} /\ Ordered(G) /\ Ordered(H)
      BY DEF Scrubs
  <1>2. PICK e, f : e = Earliest(G) /\ f = Latest(G)
      OBVIOUS
  <1>3. /\ e \in G /\ (\A r \in G : e.id <= r.id)
        /\ f \in G /\ (\A r \in G : r.id <= f.id)
      BY <1>1, <1>2, Ends
  <1>4. PICK a, b \in H : a.id = e.id /\ b.id = f.id
      BY <1>3 DEF Scrubs
  <1>5. \A s \in H : a.id <= s.id /\ s.id <= b.id
      BY <1>3, <1>4 DEF Scrubs
  <1>6. a = Earliest(H) /\ b = Latest(H)
      BY <1>1, <1>5, IsEarliest, IsLatest
  <1> QED
      BY <1>1, <1>2, <1>3, <1>4, <1>6 DEF Scrubs

\* A value that no marker hides was not erased.
LEMMA PairsUnchanged ==
  ASSUME NEW v, NEW w, NEW x, NEW y, Fades(v, x), Fades(w, y), Unchanged(<<x, y>>)
  PROVE  Unchanged(<<v, w>>)
  BY DEF Unchanged, Fades, EraseValue, Markers, Null, Erased, Redacted

LEMMA ColumnScrubbed ==
  ASSUME NEW G, NEW H, Scrubs(G, H), NEW v, NEW f \in {"col", "secret"},
         MergedColumn(G, f, v) # NoField
  PROVE  MergedColumn(H, f, v) # NoField
  <1>1. PICK S, T : S = {r \in G : r[f] # NoField} /\ T = {s \in H : s[f] # NoField}
      OBVIOUS
  <1>2. \A r \in G, s \in H : s.id = r.id => FadesInto(r[f], s[f])
    <2>1. CASE f = "col"
        BY <2>1 DEF Scrubs, Scrubbed
    <2>2. CASE f = "secret"
        BY <2>2 DEF Scrubs, Scrubbed
    <2> QED
        BY <2>1, <2>2
  <1>3. S \subseteq G /\ T \subseteq H
      BY <1>1
  <1>4. Scrubs(S, T)
    <2>1. Ordered(S) /\ Ordered(T)
        BY <1>3, SubsetOrdered DEF Scrubs
    <2>2. \A r \in G, s \in H : s.id = r.id => (r \in S <=> s \in T)
        BY <1>1, <1>2 DEF FadesInto
    <2> QED
        BY <2>1, <2>2, <1>3 DEF Scrubs
  <1>5. PICK p, q : /\ p = <<Earliest(S)[f][1], Latest(S)[f][2]>>
                    /\ q = <<Earliest(T)[f][1], Latest(T)[f][2]>>
      OBVIOUS
  <1>6. /\ MergedColumn(G, f, v) = IF S = {} \/ (v = "updated" /\ Unchanged(p)) THEN NoField ELSE p
        /\ MergedColumn(H, f, v) = IF T = {} \/ (v = "updated" /\ Unchanged(q)) THEN NoField ELSE q
      BY <1>1, <1>5 DEF MergedColumn
  <1>7. S # {} /\ ~(v = "updated" /\ Unchanged(p))
      BY <1>6
  <1>8. Earliest(S) \in S /\ Earliest(T) \in T /\ Earliest(T).id = Earliest(S).id
        /\ Latest(S) \in S /\ Latest(T) \in T /\ Latest(T).id = Latest(S).id /\ T # {}
      BY <1>4, <1>7, EndsScrubbed
  <1>9. FadesInto(Earliest(S)[f], Earliest(T)[f]) /\ FadesInto(Latest(S)[f], Latest(T)[f])
      BY <1>2, <1>3, <1>8
  <1>10. Earliest(S)[f] # NoField /\ Latest(S)[f] # NoField
      BY <1>1, <1>8
  <1>11. Fades(Earliest(S)[f][1], Earliest(T)[f][1]) /\ Fades(Latest(S)[f][2], Latest(T)[f][2])
      BY <1>9, <1>10 DEF FadesInto
  <1>12. Unchanged(q) => Unchanged(p)
      BY <1>5, <1>11, PairsUnchanged
  <1>13. q # NoField
      BY <1>5 DEF NoField
  <1> QED
      BY <1>6, <1>7, <1>8, <1>12, <1>13

\* Erased members only add up.
LEMMA ErasedAddUp ==
  ASSUME NEW G, Ordered(G)
  PROVE  /\ MergedRelation(G).erasedAdded \in Nat /\ MergedRelation(G).erasedRemoved \in Nat
         /\ \A r \in G : /\ r.rel.erasedAdded <= MergedRelation(G).erasedAdded
                         /\ r.rel.erasedRemoved <= MergedRelation(G).erasedRemoved
  <1> DEFINE Holds(T) ==
        LET m == MergedRelation(T) IN
        /\ m.erasedAdded \in Nat /\ m.erasedRemoved \in Nat
        /\ \A r \in T : /\ r.rel.erasedAdded <= m.erasedAdded
                        /\ r.rel.erasedRemoved <= m.erasedRemoved
             Wrong == {T \in SUBSET G : ~Holds(T)}
  <1> SUFFICES ASSUME Wrong # {} PROVE FALSE
      OBVIOUS
  <1>1. PICK T \in Wrong : \A U \in Wrong : U \subseteq T => U = T
    <2>1. Wrong # {} /\ \A U \in Wrong : IsFiniteSet(U)
        BY FS_Subset DEF Ordered
    <2> HIDE DEF Wrong
    <2> QED
        BY <2>1, LeastSet
  <1>2. Ordered(T)
      BY <1>1, SubsetOrdered
  <1>3. CASE T = {}
    <2>1. MergedRelation(T) = NoChange
        BY <1>2, <1>3, MergedLast
    <2>2. Holds(T)
        BY <2>1, <1>3 DEF NoChange
    <2> QED
        BY <2>2, <1>1
  <1>4. CASE T # {}
    <2>1. PICK x \in T : x = Latest(T)
        BY <1>2, <1>4, Ends
    <2>2. T \ {x} \notin Wrong /\ T \ {x} \in SUBSET G
        BY <1>1
    <2>3. Holds(T \ {x})
        BY <2>2
    <2>4. PICK m, n : m = MergedRelation(T \ {x}) /\ n = MergedRelation(T)
        OBVIOUS
    <2>5. /\ m.erasedAdded \in Nat /\ m.erasedRemoved \in Nat
          /\ \A r \in T \ {x} : r.rel.erasedAdded <= m.erasedAdded /\ r.rel.erasedRemoved <= m.erasedRemoved
        BY <2>3, <2>4
    <2>6. n = MergeRelation(m, x.rel)
        BY <1>2, <1>4, <2>1, <2>4, MergedLast
    <2>7. /\ n.erasedAdded = m.erasedAdded + x.rel.erasedAdded
          /\ n.erasedRemoved = m.erasedRemoved + x.rel.erasedRemoved
        BY <2>6 DEF MergeRelation
    <2>8. \A r \in T : r.rel.erasedAdded \in Nat /\ r.rel.erasedRemoved \in Nat
        BY <1>2 DEF Ordered, IsEntry, IsDelta
    <2>9. x.rel.erasedAdded \in Nat /\ x.rel.erasedRemoved \in Nat
        BY <2>8
    <2>10. n.erasedAdded \in Nat /\ n.erasedRemoved \in Nat
        BY <2>5, <2>7, <2>9
    <2>11. ASSUME NEW r \in T
           PROVE  r.rel.erasedAdded <= n.erasedAdded /\ r.rel.erasedRemoved <= n.erasedRemoved
      <3>1. CASE r = x
          BY <3>1, <2>5, <2>7, <2>9
      <3>2. CASE r # x
        <4>1. r.rel.erasedAdded <= m.erasedAdded /\ r.rel.erasedRemoved <= m.erasedRemoved
            BY <3>2, <2>5
        <4> QED
            BY <4>1, <2>5, <2>7, <2>8, <2>9
      <3> QED
          BY <3>1, <3>2
    <2>12. Holds(T)
        BY <2>4, <2>10, <2>11
    <2> QED
        BY <2>12, <1>1
  <1> QED
      BY <1>3, <1>4

\* Of rows whose members were not erased the same members are left.
LEMMA SameMerged ==
  ASSUME NEW G, NEW H, Scrubs(G, H),
         \A r \in G, s \in H : s.id = r.id => s.rel = r.rel
  PROVE  MergedRelation(H) = MergedRelation(G)
  <1> DEFINE Like(T) == {s \in H : \E r \in T : s.id = r.id}
             Wrong == {T \in SUBSET G : MergedRelation(Like(T)) # MergedRelation(T)}
  <1>1. Like(G) = H
      BY DEF Scrubs
  <1> SUFFICES ASSUME Wrong # {} PROVE FALSE
      BY <1>1
  <1>2. PICK T \in Wrong : \A U \in Wrong : U \subseteq T => U = T
    <2>1. Wrong # {} /\ \A U \in Wrong : IsFiniteSet(U)
        BY FS_Subset DEF Ordered, Scrubs
    <2> HIDE DEF Wrong
    <2> QED
        BY <2>1, LeastSet
  <1>3. PICK L : L = Like(T)
      OBVIOUS
  <1>4. T \subseteq G /\ L \subseteq H /\ Ordered(T) /\ Ordered(L)
      BY <1>2, <1>3, SubsetOrdered DEF Scrubs
  <1>5. Scrubs(T, L)
    <2>1. \A r \in T : \E s \in L : s.id = r.id
        BY <1>3, <1>4 DEF Scrubs
    <2>2. \A s \in L : \E r \in T : s.id = r.id
        BY <1>3
    <2>3. \A r \in T, s \in L : s.id = r.id => Scrubbed(r, s)
        BY <1>4 DEF Scrubs
    <2> QED
        BY <2>1, <2>2, <2>3, <1>4 DEF Scrubs
  <1>6. CASE T = {}
    <2>1. L = {}
        BY <1>5, <1>6 DEF Scrubs
    <2>2. MergedRelation(L) = MergedRelation(T)
        BY <2>1, <1>6
    <2> QED
        BY <2>2, <1>2, <1>3
  <1>7. CASE T # {}
    <2>1. PICK x \in T, y \in L : x = Latest(T) /\ y = Latest(L) /\ y.id = x.id
        BY <1>5, <1>7, EndsScrubbed
    <2>2. T \ {x} \notin Wrong /\ T \ {x} \in SUBSET G
        BY <1>2
    <2>3. Like(T \ {x}) = L \ {y}
      <3>1. \A s \in L : s.id = x.id => s = y
          BY <2>1, <1>4 DEF Ordered
      <3>2. \A r \in T : r.id = y.id => r = x
          BY <2>1, <1>4 DEF Ordered
      <3> QED
          BY <3>1, <3>2, <2>1, <1>3
    <2>4. MergedRelation(L \ {y}) = MergedRelation(T \ {x})
        BY <2>2, <2>3
    <2>5. y.rel = x.rel
        BY <2>1, <1>4
    <2>6. MergedRelation(T) = MergeRelation(MergedRelation(T \ {x}), x.rel)
        BY <2>1, <1>4, <1>7, MergedLast
    <2>7. MergedRelation(L) = MergeRelation(MergedRelation(L \ {y}), y.rel)
        BY <2>1, <1>4, MergedLast
    <2> QED
        BY <2>4, <2>5, <2>6, <2>7, <1>2, <1>3
  <1> QED
      BY <1>6, <1>7

LEMMA RelationScrubbed ==
  ASSUME NEW G, NEW H, Scrubs(G, H), MergedRelation(G) # NoChange
  PROVE  MergedRelation(H) # NoChange
  <1>1. Ordered(H)
      BY DEF Scrubs
  <1>2. CASE \E s \in H : s.rel.erasedAdded # 0 \/ s.rel.erasedRemoved # 0
    <2>1. PICK s \in H : s.rel.erasedAdded # 0 \/ s.rel.erasedRemoved # 0
        BY <1>2
    <2>2. PICK m : m = MergedRelation(H)
        OBVIOUS
    <2>3. /\ m.erasedAdded \in Nat /\ m.erasedRemoved \in Nat
          /\ s.rel.erasedAdded <= m.erasedAdded /\ s.rel.erasedRemoved <= m.erasedRemoved
        BY <1>1, <2>2, ErasedAddUp
    <2>4. s.rel.erasedAdded \in Nat /\ s.rel.erasedRemoved \in Nat
        BY <1>1 DEF Ordered, IsEntry, IsDelta
    <2>5. m.erasedAdded # 0 \/ m.erasedRemoved # 0
        BY <2>1, <2>3, <2>4
    <2> QED
        BY <2>2, <2>5 DEF NoChange
  <1>3. CASE \A s \in H : s.rel.erasedAdded = 0 /\ s.rel.erasedRemoved = 0
    <2>1. ASSUME NEW r \in G, NEW s \in H, s.id = r.id
          PROVE  s.rel = r.rel
      <3>1. Scrubbed(r, s)
          BY <2>1 DEF Scrubs
      <3>2. s.rel = r.rel \/ (~HasRelation(s) /\ ~HasRelation(r))
          BY <3>1, <1>3 DEF Scrubbed
      <3> QED
          BY <3>2 DEF HasRelation
    <2> QED
        BY <2>1, SameMerged
  <1> QED
      BY <1>2, <1>3

\* The rows of a group are merged if and only if they were before the scrub.
LEMMA RawScrubbed ==
  ASSUME NEW G, NEW H, Scrubs(G, H)
  PROVE  (Raw(G) <=> Raw(H)) /\ (G = {} <=> H = {})
  <1>1. /\ \A r \in G : \E s \in H : s.id = r.id
        /\ \A s \in H : \E r \in G : s.id = r.id
        /\ \A r \in G, s \in H : s.id = r.id =>
             s.verb = r.verb /\ s.actor = r.actor /\ (HasRelation(r) <=> HasRelation(s))
      BY DEF Scrubs, Scrubbed
  <1>2. /\ \A r, t \in G : r.id = t.id => r = t
        /\ \A s, u \in H : s.id = u.id => s = u
      BY DEF Scrubs, Ordered
  <1>3. (\E r : G = {r}) <=> (\E s : H = {s})
    <2>1. ASSUME NEW r, G = {r} PROVE \E s : H = {s}
      <3>1. PICK s \in H : s.id = r.id
          BY <1>1, <2>1
      <3>2. \A u \in H : u.id = r.id
          BY <1>1, <2>1
      <3>3. \A u \in H : u = s
          BY <3>1, <3>2, <1>2
      <3>4. H = {s}
          BY <3>1, <3>3
      <3> QED
          BY <3>4
    <2>2. ASSUME NEW s, H = {s} PROVE \E r : G = {r}
      <3>1. PICK r \in G : s.id = r.id
          BY <1>1, <2>2
      <3>2. \A t \in G : s.id = t.id
          BY <1>1, <2>2
      <3>3. \A t \in G : t = r
          BY <3>1, <3>2, <1>2
      <3>4. G = {r}
          BY <3>1, <3>3
      <3> QED
          BY <3>4
    <2> QED
        BY <2>1, <2>2
  <1>4. ASSUME NEW r \in G, NEW t \in G, NEW s \in H, NEW u \in H, s.id = r.id, u.id = t.id
        PROVE  Adjacent(G, r, t) <=> Adjacent(H, s, u)
      BY <1>1, <1>4 DEF Adjacent
  <1>5. (\A r, t \in G : r.actor = t.actor) <=> (\A s, u \in H : s.actor = u.actor)
      BY <1>1
  <1>6. (\A r, t \in G : Adjacent(G, r, t) => MayFollow(r.verb, t.verb))
        <=> (\A s, u \in H : Adjacent(H, s, u) => MayFollow(s.verb, u.verb))
    <2>1. ASSUME \A s, u \in H : Adjacent(H, s, u) => MayFollow(s.verb, u.verb),
                 NEW r \in G, NEW t \in G, Adjacent(G, r, t)
          PROVE  MayFollow(r.verb, t.verb)
      <3>1. PICK s, u \in H : s.id = r.id /\ u.id = t.id
          BY <1>1
      <3> QED
          BY <3>1, <2>1, <1>1, <1>4
    <2>2. ASSUME \A r, t \in G : Adjacent(G, r, t) => MayFollow(r.verb, t.verb),
                 NEW s \in H, NEW u \in H, Adjacent(H, s, u)
          PROVE  MayFollow(s.verb, u.verb)
      <3>1. PICK r, t \in G : s.id = r.id /\ u.id = t.id
          BY <1>1
      <3> QED
          BY <3>1, <2>2, <1>1, <1>4
    <2> QED
        BY <2>1, <2>2
  <1>7. Reinserts(G) <=> Reinserts(H)
    <2>1. ASSUME NEW r \in G, NEW t \in G, Adjacent(G, r, t), r.verb = "deleted", t.verb = "created"
          PROVE  Reinserts(H)
      <3>1. PICK s, u \in H : s.id = r.id /\ u.id = t.id
          BY <1>1
      <3> QED
          BY <3>1, <2>1, <1>1, <1>4 DEF Reinserts
    <2>2. ASSUME NEW s \in H, NEW u \in H, Adjacent(H, s, u), s.verb = "deleted", u.verb = "created"
          PROVE  Reinserts(G)
      <3>1. PICK r, t \in G : s.id = r.id /\ u.id = t.id
          BY <1>1
      <3> QED
          BY <3>1, <2>2, <1>1, <1>4 DEF Reinserts
    <2> QED
        BY <2>1, <2>2 DEF Reinserts
  <1>8. (\E r \in G : HasRelation(r)) <=> (\E s \in H : HasRelation(s))
      BY <1>1
  <1>9. G = {} <=> H = {}
      BY <1>1
  <1> QED
      BY <1>3, <1>5, <1>6, <1>7, <1>8, <1>9 DEF Raw, CanCompact

\* A scrub of rows hides no change.
LEMMA ScrubShows ==
  ASSUME NEW rows, IsRead(rows), NEW x, NEW scopes, NEW r \in ShownOf(rows, x)
  PROVE  \E s \in ShownOf(Scrub(rows, x, scopes), x) :
           /\ s.id = r.id /\ s.verb = r.verb
           /\ r.col # NoField => s.col # NoField
           /\ r.secret # NoField => s.secret # NoField
           /\ HasRelation(r) => HasRelation(s)
  <1>1. PICK out : out = Scrub(rows, x, scopes)
      OBVIOUS
  <1>2. PICK G, H : G = GroupOf(rows, x) /\ H = GroupOf(out, x)
      OBVIOUS
  <1>3. IsRead(out) /\ Scrubs(G, H)
      BY <1>1, <1>2, ScrubRead
  <1>4. /\ ShownOf(rows, x) = IF G = {} THEN {} ELSE IF Raw(G) THEN G ELSE Merge(G)
        /\ ShownOf(out, x) = IF H = {} THEN {} ELSE IF Raw(H) THEN H ELSE Merge(H)
      BY <1>2, <1>3, ShownIs
  <1>5. (Raw(G) <=> Raw(H)) /\ (G = {} <=> H = {})
      BY <1>3, RawScrubbed
  <1>6. CASE Raw(G)
    <2>1. r \in G /\ ShownOf(out, x) = H
        BY <1>4, <1>5, <1>6
    <2>2. PICK s \in H : s.id = r.id /\ Scrubbed(r, s)
        BY <2>1, <1>3 DEF Scrubs
    <2> QED
        BY <2>1, <2>2, <1>1 DEF Scrubbed, FadesInto
  <1>7. CASE ~Raw(G)
    <2>1. G # {} /\ r \in Merge(G) /\ ShownOf(out, x) = Merge(H)
        BY <1>4, <1>5, <1>7
    <2>2. PICK s : s = MergedRow(H)
        OBVIOUS
    <2>3. Merge(G) = {r} /\ r = MergedRow(G) /\ (Merge(H) = {} \/ Merge(H) = {s})
        BY <2>1, <2>2, MergedShape
    <2>4. /\ Earliest(H).id = Earliest(G).id
          /\ Earliest(H).verb = Earliest(G).verb /\ Latest(H).verb = Latest(G).verb
        BY <2>1, <1>3, EndsScrubbed DEF Scrubbed
    <2>5. PICK v : v = MergedVerb(G) /\ v = MergedVerb(H)
        BY <2>4 DEF MergedVerb
    <2>6. /\ r.id = Earliest(G).id /\ r.verb = v /\ r.rel = MergedRelation(G)
          /\ r.col = MergedColumn(G, "col", v) /\ r.secret = MergedColumn(G, "secret", v)
        BY <2>3, <2>5, MergedShape
    <2>7. /\ s.id = Earliest(H).id /\ s.verb = v /\ s.rel = MergedRelation(H)
          /\ s.col = MergedColumn(H, "col", v) /\ s.secret = MergedColumn(H, "secret", v)
        BY <2>2, <2>5, MergedShape
    <2>8. /\ r.col # NoField => s.col # NoField
          /\ r.secret # NoField => s.secret # NoField
        BY <2>6, <2>7, <1>3, ColumnScrubbed
    <2>9. HasRelation(r) => HasRelation(s)
        BY <2>6, <2>7, <1>3, RelationScrubbed DEF HasRelation
    <2>10. Merge(H) = {s}
      <3>1. ~(Earliest(G).verb = "created" /\ Latest(G).verb = "deleted")
          BY <2>3 DEF Merge
      <3>2. ~(r.verb = "updated" /\ r.col = NoField /\ r.secret = NoField /\ ~HasRelation(r))
          BY <2>3 DEF Merge
      <3>3. ~(s.verb = "updated" /\ s.col = NoField /\ s.secret = NoField /\ ~HasRelation(s))
          BY <3>2, <2>6, <2>7, <2>8, <2>9
      <3> QED
          BY <3>1, <3>3, <2>2, <2>4 DEF Merge
    <2> QED
        BY <1>1, <2>1, <2>4, <2>6, <2>7, <2>8, <2>9, <2>10
  <1> QED
      BY <1>6, <1>7

-----------------------------------------------------------------------------
(* The inductive invariant.                                                *)

\* A row as a flush writes it: nothing erased, no update without a change.
Fresh(r) ==
  /\ IsEntry(r) /\ r.object \in Objects
  /\ r.rel.added \cap r.rel.removed = {} /\ r.rel.erasedAdded = 0 /\ r.rel.erasedRemoved = 0
  /\ r.verb # "updated" => r.col # NoField /\ r.secret # NoField
  /\ r.verb = "updated" =>
       /\ r.col # NoField \/ r.secret # NoField \/ HasRelation(r)
       /\ r.col # NoField => ~Unchanged(r.col)
       /\ r.secret # NoField => ~Unchanged(r.secret)

Written(rows) ==
  /\ rows \in Seq(Range(rows))
  /\ \A i \in DOMAIN rows : rows[i].id = i /\ Fresh(rows[i])

StatesInv ==
  /\ before \in [Objects -> ObjectState] /\ object \in [Objects -> ObjectState]
  /\ \A o \in Objects : ~before[o].exists => before[o].rel = {}

\* What the columns of an object in a given state are written as.
ColOf(state) == IF state.exists THEN state.col ELSE Null
SecretOf(state) == IF state.exists THEN Redact(state.secret) ELSE Null

\* The entries of a column lead from one value to another.
With(group, f) == {r \in group : r[f] # NoField}
Chain(group, f, old, new) ==
  IF With(group, f) = {} THEN old = new
  ELSE Earliest(With(group, f))[f][1] = old /\ Latest(With(group, f))[f][2] = new

ReaddedIn(group) ==
  \E r, s \in group : r.id < s.id /\ r.verb = "deleted" /\ s.verb = "created"

\* The rows of an object lead from one of its states to another.
Leads(group, b, n) ==
  /\ group = {} => n = b
  /\ group # {} => /\ Earliest(group).verb = "created" <=> ~b.exists
                   /\ Latest(group).verb = "deleted" <=> ~n.exists
  /\ \A r, s \in group : Adjacent(group, r, s) => MayFollow(r.verb, s.verb)
  /\ Chain(group, "col", ColOf(b), ColOf(n))
  /\ Chain(group, "secret", SecretOf(b), SecretOf(n))
  /\ ~ReaddedIn(group) => MergedRelation(group) = RelationChange(b.rel, n.rel)

HistoryInv == \A o \in Objects \ switched : Leads(GroupOf(log, o), before[o], object[o])

LogInv == Written(log) /\ StatesInv /\ HistoryInv

\* A row after those of its object.
LEMMA LastRow ==
  ASSUME NEW G, Ordered(G), NEW e, IsEntry(e), \A r \in G : r.id < e.id,
         NEW H, H = G \cup {e}
  PROVE  /\ Ordered(H) /\ e \notin G /\ Latest(H) = e /\ H \ {e} = G
         /\ G # {} => Earliest(H) = Earliest(G)
         /\ G = {} => Earliest(H) = e
         /\ \A r, s \in H : Adjacent(H, r, s) =>
              \/ r \in G /\ s \in G /\ Adjacent(G, r, s)
              \/ G # {} /\ r = Latest(G) /\ s = e
  <1>1. e.id \in Nat /\ \A r \in G : r.id \in Nat
      BY DEF IsEntry, Ordered
  <1>2. e \notin G
      BY <1>1
  <1>3. Ordered(H)
    <2>1. IsFiniteSet(H)
        BY FS_AddElement DEF Ordered
    <2>2. \A r, s \in H : r.id = s.id => r = s
        BY <1>1 DEF Ordered
    <2> QED
        BY <2>1, <2>2 DEF Ordered
  <1>4. \A r \in H : r.id <= e.id
      BY <1>1
  <1>5. Latest(H) = e
      BY <1>3, <1>4, IsLatest
  <1>6. ASSUME G # {} PROVE Earliest(H) = Earliest(G)
    <2>1. PICK x \in G : x = Earliest(G) /\ \A r \in G : x.id <= r.id
        BY <1>6, Ends
    <2>2. \A r \in H : x.id <= r.id
        BY <2>1, <1>1
    <2> QED
        BY <2>1, <2>2, <1>3, IsEarliest
  <1>7. ASSUME G = {} PROVE Earliest(H) = e
      BY <1>3, <1>4, <1>7, IsEarliest
  <1>8. ASSUME NEW r \in H, NEW s \in H, Adjacent(H, r, s)
        PROVE  \/ r \in G /\ s \in G /\ Adjacent(G, r, s)
               \/ G # {} /\ r = Latest(G) /\ s = e
    <2>1. r \in G
        BY <1>1, <1>8 DEF Adjacent
    <2>2. CASE s = e
      <3>1. \A t \in G : t.id <= r.id
          BY <1>1, <1>8, <2>1, <2>2 DEF Adjacent
      <3> QED
          BY <2>1, <2>2, <3>1, IsLatest
    <2>3. CASE s # e
        BY <1>8, <2>1, <2>3 DEF Adjacent
    <2> QED
        BY <2>2, <2>3
  <1> QED
      BY <1>2, <1>3, <1>5, <1>6, <1>7, <1>8

\* The entries of a column, with those of one more row.
LEMMA ChainGrows ==
  ASSUME NEW G, Ordered(G), NEW e, IsEntry(e), \A r \in G : r.id < e.id,
         NEW H, H = G \cup {e}, NEW f, NEW old, NEW mid, NEW new,
         Chain(G, f, old, mid),
         e[f] = NoField => mid = new,
         e[f] # NoField => e[f][1] = mid /\ e[f][2] = new
  PROVE  Chain(H, f, old, new)
  <1>1. PICK S, T : S = With(G, f) /\ T = With(H, f)
      OBVIOUS
  <1>2. Ordered(S) /\ \A r \in S : r.id < e.id
      BY <1>1, SubsetOrdered DEF With
  <1>3. CASE e[f] = NoField
    <2>1. T = S
        BY <1>1, <1>3 DEF With
    <2> QED
        BY <1>1, <1>3, <2>1 DEF Chain
  <1>4. CASE e[f] # NoField
    <2>1. T = S \cup {e}
        BY <1>1, <1>4 DEF With
    <2>2. Latest(T) = e /\ (S # {} => Earliest(T) = Earliest(S)) /\ (S = {} => Earliest(T) = e)
        BY <1>2, <2>1, LastRow
    <2> QED
        BY <1>1, <1>4, <2>1, <2>2 DEF Chain
  <1> QED
      BY <1>3, <1>4

LEMMA RelationsMerge ==
  ASSUME NEW a, NEW b, NEW c
  PROVE  /\ MergeRelation(RelationChange(a, b), RelationChange(b, c)) = RelationChange(a, c)
         /\ RelationChange(a, a) = NoChange
  <1>1. \A x, y : RelationChange(x, y) =
          [added |-> y \ x, removed |-> x \ y, erasedAdded |-> 0, erasedRemoved |-> 0]
    <2> TAKE x, y
    <2>1. PICK p, q : p = y \ x /\ q = x \ y
        OBVIOUS
    <2>2. RelationChange(x, y) = [NoChange EXCEPT !.added = p, !.removed = q]
        BY <2>1 DEF RelationChange
    <2>3. RelationChange(x, y) = [added |-> p, removed |-> q, erasedAdded |-> 0, erasedRemoved |-> 0]
        BY <2>2 DEF NoChange
    <2> QED
        BY <2>1, <2>3
  <1>2. PICK d, e, m : d = RelationChange(a, b) /\ e = RelationChange(b, c) /\ m = MergeRelation(d, e)
      OBVIOUS
  <1>3. /\ d.added = b \ a /\ d.removed = a \ b /\ e.added = c \ b /\ e.removed = b \ c
        /\ d.erasedAdded = 0 /\ d.erasedRemoved = 0 /\ e.erasedAdded = 0 /\ e.erasedRemoved = 0
      BY <1>1, <1>2
  <1>4. PICK p, q : p = d.added \ e.removed /\ q = d.removed \cup (e.removed \ d.added)
      OBVIOUS
  <1>5. m = [added |-> p \cup (e.added \ q), removed |-> q \ e.added, erasedAdded |-> 0, erasedRemoved |-> 0]
      BY <1>2, <1>3, <1>4 DEF MergeRelation
  <1>6. p \cup (e.added \ q) = c \ a /\ q \ e.added = a \ c
      BY <1>3, <1>4
  <1> QED
      BY <1>1, <1>2, <1>5, <1>6 DEF NoChange

\* One more row leads to one more state.
Steps(e, m, n) ==
  /\ e.verb = "created" <=> ~m.exists
  /\ e.verb = "deleted" <=> ~n.exists
  /\ e.col = NoField => ColOf(m) = ColOf(n)
  /\ e.col # NoField => e.col[1] = ColOf(m) /\ e.col[2] = ColOf(n)
  /\ e.secret = NoField => SecretOf(m) = SecretOf(n)
  /\ e.secret # NoField => e.secret[1] = SecretOf(m) /\ e.secret[2] = SecretOf(n)
  /\ e.rel = RelationChange(IF e.verb = "created" THEN {} ELSE m.rel, n.rel)

LEMMA LeadsOn ==
  ASSUME NEW G, Ordered(G), NEW e, IsEntry(e), \A r \in G : r.id < e.id,
         NEW H, H = G \cup {e}, NEW b, NEW m, NEW n,
         ~b.exists => b.rel = {}, Leads(G, b, m), Steps(e, m, n)
  PROVE  Leads(H, b, n)
  <1>1. /\ Ordered(H) /\ e \notin G /\ Latest(H) = e /\ H \ {e} = G /\ H # {}
        /\ G # {} => Earliest(H) = Earliest(G)
        /\ G = {} => Earliest(H) = e
        /\ \A r, s \in H : Adjacent(H, r, s) =>
             \/ r \in G /\ s \in G /\ Adjacent(G, r, s)
             \/ G # {} /\ r = Latest(G) /\ s = e
      BY LastRow
  <1>2. (Earliest(H).verb = "created" <=> ~b.exists) /\ (Latest(H).verb = "deleted" <=> ~n.exists)
      BY <1>1 DEF Leads, Steps
  <1>3. ASSUME NEW r \in H, NEW s \in H, Adjacent(H, r, s)
        PROVE  MayFollow(r.verb, s.verb)
    <2>1. CASE r \in G /\ s \in G /\ Adjacent(G, r, s)
        BY <2>1 DEF Leads
    <2>2. CASE G # {} /\ r = Latest(G) /\ s = e
        BY <2>2 DEF Leads, Steps, MayFollow
    <2> QED
        BY <2>1, <2>2, <1>1, <1>3
  <1>4. Chain(H, "col", ColOf(b), ColOf(n))
    <2>1. Chain(G, "col", ColOf(b), ColOf(m))
        BY DEF Leads
    <2>2. /\ e["col"] = NoField => ColOf(m) = ColOf(n)
          /\ e["col"] # NoField => e["col"][1] = ColOf(m) /\ e["col"][2] = ColOf(n)
        BY DEF Steps
    <2> QED
        BY <2>1, <2>2, ChainGrows
  <1>5. Chain(H, "secret", SecretOf(b), SecretOf(n))
    <2>1. Chain(G, "secret", SecretOf(b), SecretOf(m))
        BY DEF Leads
    <2>2. /\ e["secret"] = NoField => SecretOf(m) = SecretOf(n)
          /\ e["secret"] # NoField => e["secret"][1] = SecretOf(m) /\ e["secret"][2] = SecretOf(n)
        BY DEF Steps
    <2> QED
        BY <2>1, <2>2, ChainGrows
  <1>6. ASSUME ~ReaddedIn(H)
        PROVE  MergedRelation(H) = RelationChange(b.rel, n.rel)
    <2>1. MergedRelation(H) = MergeRelation(MergedRelation(G), e.rel)
        BY <1>1, MergedLast
    <2>2. MergedRelation(G) = RelationChange(b.rel, m.rel)
        BY <1>6 DEF ReaddedIn, Leads
    <2>3. e.rel = RelationChange(m.rel, n.rel)
      <3>1. CASE e.verb # "created"
          BY <3>1 DEF Steps
      <3>2. CASE e.verb = "created" /\ G = {}
          BY <3>2 DEF Leads, Steps
      <3>3. CASE e.verb = "created" /\ G # {}
        <4>1. Latest(G).verb = "deleted" /\ Latest(G) \in G
            BY <3>3, Ends DEF Leads, Steps
        <4>2. ReaddedIn(H)
            BY <4>1, <3>3 DEF ReaddedIn
        <4> QED
            BY <4>2, <1>6
      <3> QED
          BY <3>1, <3>2, <3>3
    <2> QED
        BY <2>1, <2>2, <2>3, RelationsMerge
  <1> QED
      BY <1>1, <1>2, <1>3, <1>4, <1>5, <1>6 DEF Leads

-----------------------------------------------------------------------------
(* The rows of a flush.                                                    *)

LEMMA EntryIs ==
  ASSUME NEW id \in Nat, NEW o, NEW verb \in {"created", "updated", "deleted"}, NEW author,
         NEW c, IsPair(c), NEW p, IsPair(p), NEW d, IsDelta(d),
         NEW e, e = EntryRow(id, o, verb, author, c, p, d)
  PROVE  /\ IsEntry(e) /\ e.id = id /\ e.object = o /\ e.verb = verb
         /\ e.col = c /\ e.secret = p /\ e.rel = d
  <1>1. e = [id |-> id, object |-> o, verb |-> verb, actor |-> author.actor,
             scope |-> author.scope, col |-> c, secret |-> p, rel |-> d]
      BY DEF EntryRow
  <1> QED
      BY <1>1 DEF IsEntry, EntryRow

LEMMA PairIs ==
  ASSUME NEW v, NEW w
  PROVE  IsPair(<<v, w>>) /\ <<v, w>> # NoField /\ IsPair(NoField)
  BY DEF IsPair, NoField

LEMMA ChangeIs ==
  ASSUME NEW a \in SUBSET Items, NEW b \in SUBSET Items, NEW d, d = RelationChange(a, b)
  PROVE  /\ IsDelta(d) /\ d.added \cap d.removed = {} /\ d.erasedAdded = 0 /\ d.erasedRemoved = 0
         /\ d = NoChange <=> a = b
  <1>1. PICK p, q : p = b \ a /\ q = a \ b
      OBVIOUS
  <1>2. d = [NoChange EXCEPT !.added = p, !.removed = q]
      BY <1>1 DEF RelationChange
  <1>3. d = [added |-> p, removed |-> q, erasedAdded |-> 0, erasedRemoved |-> 0]
      BY <1>2 DEF NoChange
  <1>4. IsFiniteSet(p) /\ IsFiniteSet(q)
      BY <1>1, ItemsAssumption, FS_Subset
  <1>5. IsDelta(d)
      BY <1>3, <1>4 DEF IsDelta
  <1>6. d = NoChange <=> p = {} /\ q = {}
      BY <1>3 DEF NoChange
  <1> QED
      BY <1>1, <1>3, <1>5, <1>6

LEMMA NoChangeIs == IsDelta(NoChange) /\ NoChange.added = {} /\ NoChange.removed = {}
                    /\ NoChange.erasedAdded = 0 /\ NoChange.erasedRemoved = 0
  BY FS_EmptySet DEF NoChange, IsDelta

LEMMA CreatedFresh ==
  ASSUME NEW id \in Nat, NEW o \in Objects, NEW author, NEW n \in ObjectState,
         NEW e, e = CreatedRow(id, o, author, n)
  PROVE  /\ Fresh(e) /\ e.id = id /\ e.object = o /\ e.verb = "created"
         /\ e.col = <<Null, n.col>> /\ e.secret = <<Null, Redact(n.secret)>>
         /\ e.rel = RelationChange({}, n.rel)
  <1>1. n.rel \in SUBSET Items
      BY DEF ObjectState
  <1>2. PICK c, p, d : /\ c = <<Null, n.col>> /\ p = <<Null, Redact(n.secret)>>
                       /\ d = RelationChange({}, n.rel)
      OBVIOUS
  <1>3. IsPair(c) /\ IsPair(p) /\ c # NoField /\ p # NoField
      BY <1>2, PairIs
  <1>4. IsDelta(d) /\ d.added \cap d.removed = {} /\ d.erasedAdded = 0 /\ d.erasedRemoved = 0
      BY <1>1, <1>2, ChangeIs
  <1>5. e = EntryRow(id, o, "created", author, c, p, d)
      BY <1>2 DEF CreatedRow
  <1>6. /\ IsEntry(e) /\ e.id = id /\ e.object = o /\ e.verb = "created"
        /\ e.col = c /\ e.secret = p /\ e.rel = d
      BY <1>3, <1>4, <1>5, EntryIs
  <1> QED
      BY <1>2, <1>3, <1>4, <1>6 DEF Fresh

LEMMA DeletedFresh ==
  ASSUME NEW id \in Nat, NEW o \in Objects, NEW author, NEW m \in ObjectState,
         NEW e, e = DeletedRow(id, o, author, m)
  PROVE  /\ Fresh(e) /\ e.id = id /\ e.object = o /\ e.verb = "deleted"
         /\ e.col = <<m.col, Null>> /\ e.secret = <<Redact(m.secret), Null>>
         /\ e.rel = NoChange
  <1>1. PICK c, p : c = <<m.col, Null>> /\ p = <<Redact(m.secret), Null>>
      OBVIOUS
  <1>2. IsPair(c) /\ IsPair(p) /\ c # NoField /\ p # NoField
      BY <1>1, PairIs
  <1>3. e = EntryRow(id, o, "deleted", author, c, p, NoChange)
      BY <1>1 DEF DeletedRow
  <1>4. /\ IsEntry(e) /\ e.id = id /\ e.object = o /\ e.verb = "deleted"
        /\ e.col = c /\ e.secret = p /\ e.rel = NoChange
      BY <1>2, <1>3, NoChangeIs, EntryIs
  <1> QED
      BY <1>1, <1>2, <1>4, NoChangeIs DEF Fresh

\* An update writes the columns that changed, no others.
LEMMA UpdatedFresh ==
  ASSUME NEW id \in Nat, NEW o \in Objects, NEW author,
         NEW m \in ObjectState, NEW n \in ObjectState, m.exists, n.exists, n # m,
         NEW e, e = UpdatedRow(id, o, author, m, n)
  PROVE  /\ Fresh(e) /\ e.id = id /\ e.object = o /\ e.verb = "updated"
         /\ e.col = Changed(m.col, n.col) /\ e.secret = ChangedSecret(m.secret, n.secret)
         /\ e.rel = RelationChange(m.rel, n.rel)
  <1>1. m.rel \in SUBSET Items /\ n.rel \in SUBSET Items
      BY DEF ObjectState
  <1>2. PICK c, p, d : /\ c = Changed(m.col, n.col) /\ p = ChangedSecret(m.secret, n.secret)
                       /\ d = RelationChange(m.rel, n.rel)
      OBVIOUS
  <1>3. IsPair(c) /\ (c = NoField <=> m.col = n.col) /\ (c # NoField => c = <<m.col, n.col>>)
      BY <1>2, PairIs DEF Changed
  <1>4. /\ IsPair(p) /\ (p = NoField <=> m.secret = n.secret)
        /\ p # NoField => p = <<Redact(m.secret), Redact(n.secret)>>
      BY <1>2, PairIs DEF ChangedSecret
  <1>5. /\ IsDelta(d) /\ d.added \cap d.removed = {} /\ d.erasedAdded = 0 /\ d.erasedRemoved = 0
        /\ d = NoChange <=> m.rel = n.rel
      BY <1>1, <1>2, ChangeIs
  <1>6. e = EntryRow(id, o, "updated", author, c, p, d)
      BY <1>2 DEF UpdatedRow
  <1>7. /\ IsEntry(e) /\ e.id = id /\ e.object = o /\ e.verb = "updated"
        /\ e.col = c /\ e.secret = p /\ e.rel = d
      BY <1>3, <1>4, <1>5, <1>6, EntryIs
  <1>8. c # NoField \/ p # NoField \/ d # NoChange
    <2>1. m.col # n.col \/ m.secret # n.secret \/ m.rel # n.rel
        BY DEF ObjectState
    <2> QED
        BY <2>1, <1>3, <1>4, <1>5
  <1>9. c # NoField => ~Unchanged(c)
      BY <1>3 DEF Unchanged
  <1>10. p # NoField => ~Unchanged(p)
      BY <1>4 DEF Unchanged, Redact, Markers, Redacted, Null
  <1> QED
      BY <1>2, <1>5, <1>7, <1>8, <1>9, <1>10 DEF Fresh, HasRelation

LEMMA FlushSteps ==
  ASSUME NEW id \in Nat, NEW o \in Objects, NEW author, NEW m \in ObjectState, NEW n \in ObjectState
  PROVE  /\ ~m.exists /\ n.exists => Steps(CreatedRow(id, o, author, n), m, n)
         /\ m.exists /\ n.exists /\ n # m => Steps(UpdatedRow(id, o, author, m, n), m, n)
         /\ m.exists /\ n = [m EXCEPT !.exists = FALSE] => Steps(DeletedRow(id, o, author, m), m, n)
  <1>1. ASSUME ~m.exists, n.exists, NEW e, e = CreatedRow(id, o, author, n)
        PROVE  Steps(e, m, n)
    <2>1. ColOf(m) = Null /\ SecretOf(m) = Null /\ ColOf(n) = n.col /\ SecretOf(n) = Redact(n.secret)
        BY <1>1 DEF ColOf, SecretOf
    <2>2. /\ e.verb = "created" /\ e.rel = RelationChange({}, n.rel)
          /\ e.col = <<Null, n.col>> /\ e.secret = <<Null, Redact(n.secret)>>
        BY <1>1, CreatedFresh
    <2>3. /\ e.col # NoField /\ e.col[1] = Null /\ e.col[2] = n.col
          /\ e.secret # NoField /\ e.secret[1] = Null /\ e.secret[2] = Redact(n.secret)
        BY <2>2, PairIs
    <2> QED
        BY <2>1, <2>2, <2>3, <1>1 DEF Steps
  <1>2. ASSUME m.exists, n.exists, n # m, NEW e, e = UpdatedRow(id, o, author, m, n)
        PROVE  Steps(e, m, n)
    <2>1. /\ ColOf(m) = m.col /\ SecretOf(m) = Redact(m.secret)
          /\ ColOf(n) = n.col /\ SecretOf(n) = Redact(n.secret)
        BY <1>2 DEF ColOf, SecretOf
    <2>2. /\ e.verb = "updated" /\ e.rel = RelationChange(m.rel, n.rel)
          /\ e.col = Changed(m.col, n.col) /\ e.secret = ChangedSecret(m.secret, n.secret)
        BY <1>2, UpdatedFresh
    <2>3. /\ e.col = NoField => m.col = n.col
          /\ e.col # NoField => e.col[1] = m.col /\ e.col[2] = n.col
        BY <2>2, PairIs DEF Changed
    <2>4. /\ e.secret = NoField => m.secret = n.secret
          /\ e.secret # NoField => e.secret[1] = Redact(m.secret) /\ e.secret[2] = Redact(n.secret)
        BY <2>2, PairIs DEF ChangedSecret
    <2> QED
        BY <2>1, <2>2, <2>3, <2>4, <1>2 DEF Steps
  <1>3. ASSUME m.exists, n = [m EXCEPT !.exists = FALSE], NEW e, e = DeletedRow(id, o, author, m)
        PROVE  Steps(e, m, n)
    <2>1. ~n.exists /\ n.rel = m.rel
        BY <1>3 DEF ObjectState
    <2>2. ColOf(m) = m.col /\ SecretOf(m) = Redact(m.secret) /\ ColOf(n) = Null /\ SecretOf(n) = Null
        BY <1>3, <2>1 DEF ColOf, SecretOf
    <2>3. e.rel = RelationChange(m.rel, n.rel)
        BY <2>1, <1>3, DeletedFresh, RelationsMerge
    <2>4. /\ e.verb = "deleted"
          /\ e.col = <<m.col, Null>> /\ e.secret = <<Redact(m.secret), Null>>
        BY <1>3, DeletedFresh
    <2>5. /\ e.col # NoField /\ e.col[1] = m.col /\ e.col[2] = Null
          /\ e.secret # NoField /\ e.secret[1] = Redact(m.secret) /\ e.secret[2] = Null
        BY <2>4, PairIs
    <2> QED
        BY <2>1, <2>2, <2>3, <2>4, <2>5, <1>3 DEF Steps
  <1> QED
      BY <1>1, <1>2, <1>3

LEMMA WrittenRead ==
  ASSUME NEW rows, Written(rows)
  PROVE  IsRead(rows)
  BY DEF Written, IsRead, Fresh

\* One more row.
Plus(rows, e) == rows \o <<e>>

LEMMA RowsGrow ==
  ASSUME NEW rows, Written(rows), NEW e, Fresh(e), e.id = Len(rows) + 1,
         NEW out, out = Plus(rows, e)
  PROVE  /\ Written(out) /\ Len(out) = Len(rows) + 1 /\ Len(rows) \in Nat
         /\ GroupOf(out, e.object) = GroupOf(rows, e.object) \cup {e}
         /\ \A x : x # e.object => GroupOf(out, x) = GroupOf(rows, x)
         /\ \A x : \A r \in GroupOf(rows, x) : r.id < e.id
  <1>1. PICK n \in Nat : n = Len(rows) /\ DOMAIN rows = 1 .. n
      BY OfSeq DEF Written
  <1>2. PICK S : S = Range(rows) \cup {e}
      OBVIOUS
  <1>3. rows \in Seq(S)
    <2>1. rows \in [1 .. n -> S]
        BY <1>1, <1>2, OfSeq DEF Written, Range
    <2> QED
        BY <2>1, SeqDef
  <1>4. Len(out) = n + 1 /\ (\A i \in 1 .. n : out[i] = rows[i]) /\ out[n + 1] = e /\ out \in Seq(S)
      BY <1>1, <1>2, <1>3 DEF Plus
  <1>5. DOMAIN out = 1 .. n + 1 /\ out = [i \in 1 .. n + 1 |-> out[i]]
      BY <1>4, LenProperties
  <1>6. out \in Seq(Range(out))
    <2>1. PICK k \in Nat : k = n + 1
        OBVIOUS
    <2>2. out = [i \in 1 .. k |-> out[i]]
        BY <2>1, <1>5
    <2> QED
        BY <2>2, InSeq
  <1>7. \A i \in 1 .. n + 1 : i \in 1 .. n \/ i = n + 1
      OBVIOUS
  <1>8. \A r : r \in Range(out) <=> r \in Range(rows) \/ r = e
    <2>1. \A r : r \in Range(rows) <=> \E i \in 1 .. n : r = rows[i]
        BY <1>1 DEF Range
    <2>2. \A r : r \in Range(out) <=> \E i \in 1 .. n + 1 : r = out[i]
        BY <1>5 DEF Range
    <2>3. n + 1 \in 1 .. n + 1 /\ \A i \in 1 .. n : i \in 1 .. n + 1
        OBVIOUS
    <2> QED
        BY <2>1, <2>2, <2>3, <1>4, <1>7
  <1>9. Written(out)
    <2>1. ASSUME NEW i \in 1 .. n + 1 PROVE out[i].id = i /\ Fresh(out[i])
      <3>1. CASE i \in 1 .. n
          BY <3>1, <1>1, <1>4 DEF Written
      <3>2. CASE i = n + 1
          BY <3>2, <1>1, <1>4
      <3> QED
          BY <3>1, <3>2, <1>7
    <2> QED
        BY <2>1, <1>5, <1>6 DEF Written
  <1>10. \A x : \A r \in GroupOf(rows, x) : r.id < e.id
    <2>1. \A i \in 1 .. n : rows[i].id < n + 1
        BY <1>1 DEF Written
    <2> QED
        BY <2>1, <1>1 DEF GroupOf, Range
  <1> QED
      BY <1>1, <1>4, <1>8, <1>9, <1>10 DEF GroupOf

LEMMA InitLog == Init => LogInv
  <1> SUFFICES ASSUME Init PROVE LogInv
      OBVIOUS
  <1>1. Written(log)
    <2>1. log \in Seq(Range(log)) /\ DOMAIN log = {}
        BY DEF Init
    <2> QED
        BY <2>1 DEF Written
  <1>2. StatesInv
      BY DEF Init, StatesInv
  <1>3. ASSUME NEW o \in Objects
        PROVE  Leads(GroupOf(log, o), before[o], object[o])
    <2>1. GroupOf(log, o) = {}
        BY DEF Init, GroupOf, Range
    <2>2. MergedRelation({}) = NoChange
        BY FS_EmptySet, MergedLast DEF Ordered
    <2>3. With({}, "col") = {} /\ With({}, "secret") = {} /\ ~ReaddedIn({})
        BY DEF With, ReaddedIn
    <2> QED
        BY <2>1, <2>2, <2>3, RelationsMerge DEF Init, Leads, Chain
  <1> QED
      BY <1>1, <1>2, <1>3 DEF LogInv, HistoryInv

\* A row that leads from the object as it was to the object as it is now.
LEMMA OneRow ==
  ASSUME LogInv, NEW o \in Objects, NEW e, Fresh(e), e.id = NextId, e.object = o,
         NEW n \in ObjectState, Steps(e, object[o], n),
         Flushed(o, n, <<e>>), UNCHANGED switched
  PROVE  LogInv'
  <1>1. /\ log' = log \o <<e>> /\ object' = [object EXCEPT ![o] = n]
        /\ before' = before /\ switched' = switched
      BY DEF Flushed
  <1>2. Written(log) /\ e.id = Len(log) + 1
      BY DEF LogInv, NextId
  <1>3. /\ Written(log') /\ GroupOf(log', o) = GroupOf(log, o) \cup {e}
        /\ \A x : x # o => GroupOf(log', x) = GroupOf(log, x)
        /\ \A r \in GroupOf(log, o) : r.id < e.id
    <2>1. PICK rows, out : rows = log /\ out = Plus(rows, e)
        OBVIOUS
    <2>2. /\ Written(out) /\ GroupOf(out, e.object) = GroupOf(rows, e.object) \cup {e}
          /\ \A x : x # e.object => GroupOf(out, x) = GroupOf(rows, x)
          /\ \A x : \A r \in GroupOf(rows, x) : r.id < e.id
      <3>1. Written(rows) /\ e.id = Len(rows) + 1
          BY <2>1, <1>2
      <3> QED
          BY <3>1, <2>1, RowsGrow
    <2> QED
        BY <2>1, <2>2, <1>1 DEF Plus
  <1>4. StatesInv'
      BY <1>1 DEF LogInv, StatesInv
  <1>5. ASSUME NEW x \in Objects, x \notin switched
        PROVE  Leads(GroupOf(log', x), before[x], object'[x])
    <2>1. Leads(GroupOf(log, x), before[x], object[x])
        BY <1>5 DEF LogInv, HistoryInv
    <2>2. CASE x # o
      <3>1. object'[x] = object[x] /\ GroupOf(log', x) = GroupOf(log, x)
          BY <2>2, <1>1, <1>3 DEF LogInv, StatesInv
      <3> QED
          BY <2>1, <3>1
    <2>3. CASE x = o
      <3>1. object'[o] = n
          BY <1>1 DEF LogInv, StatesInv
      <3>2. Ordered(GroupOf(log, o)) /\ IsEntry(e)
          BY <1>2, WrittenRead, GroupOrdered DEF Fresh
      <3>3. ~before[o].exists => before[o].rel = {}
          BY DEF LogInv, StatesInv
      <3> QED
          BY <2>1, <2>3, <3>1, <3>2, <3>3, <1>3, LeadsOn
    <2> QED
        BY <2>2, <2>3
  <1>6. HistoryInv'
    <2>1. \A x \in Objects \ switched' : Leads(GroupOf(log', x), before'[x], object'[x])
        BY <1>1, <1>5
    <2> QED
        BY <2>1 DEF HistoryInv
  <1>7. Written(log)'
      BY <1>3 DEF Written
  <1> QED
      BY <1>4, <1>6, <1>7 DEF LogInv

LEMMA ReplaceLog ==
  ASSUME LogInv, NEW o \in Objects, NEW author, NEW n \in ObjectState, Replace(o, n, author)
  PROVE  LogInv'
  <1>1. PICK c, d : c = CreatedRow(NextId, o, author, n) /\ d = DeletedRow(NextId + 1, o, author, object[o])
      OBVIOUS
  <1>2. /\ log' = log \o <<c, d>> /\ object' = [object EXCEPT ![o] = n]
        /\ before' = before /\ switched' = switched \cup {o}
      BY <1>1 DEF Replace, Flushed
  <1>3. Written(log) /\ Len(log) \in Nat /\ object[o] \in ObjectState
      BY LenProperties DEF LogInv, StatesInv, Written
  <1>4. /\ Fresh(c) /\ c.id = Len(log) + 1 /\ c.object = o
        /\ Fresh(d) /\ d.id = Len(log) + 2 /\ d.object = o
      BY <1>1, <1>3, CreatedFresh, DeletedFresh DEF NextId
  <1>5. PICK mid : mid = Plus(log, c)
      OBVIOUS
  <1>6. Written(mid) /\ Len(mid) = Len(log) + 1 /\ \A x : x # o => GroupOf(mid, x) = GroupOf(log, x)
      BY <1>3, <1>4, <1>5, RowsGrow
  <1>7. log' = Plus(mid, d)
    <2>1. PICK S : S = Range(log) \cup {c, d}
        OBVIOUS
    <2>2. log \in Seq(S) /\ <<c>> \in Seq(S) /\ <<d>> \in Seq(S)
      <3>1. log \in [1 .. Len(log) -> S]
          BY <1>3, <2>1, OfSeq DEF Written, Range
      <3> QED
          BY <3>1, <2>1, <1>3, SeqDef
    <2>3. <<c>> \o <<d>> = <<c, d>>
      <3>1. PICK s, t, u : s = <<c>> /\ t = <<d>> /\ u = s \o t
          OBVIOUS
      <3>2. s \in Seq(S) /\ t \in Seq(S) /\ Len(s) = 1 /\ Len(t) = 1 /\ s[1] = c /\ t[1] = d
          BY <2>2, <3>1
      <3>3. u \in Seq(S) /\ Len(u) = 2 /\ u[1] = c /\ u[2] = d
          BY <3>1, <3>2, ConcatProperties
      <3>4. u = <<c, d>>
          BY <3>3, LenProperties
      <3> QED
          BY <3>1, <3>4
    <2>4. (log \o <<c>>) \o <<d>> = log \o (<<c>> \o <<d>>)
        BY <2>2, ConcatAssociative
    <2> QED
        BY <2>3, <2>4, <1>2, <1>5 DEF Plus
  <1>8. Written(log') /\ \A x : x # o => GroupOf(log', x) = GroupOf(mid, x)
    <2>1. d.id = Len(mid) + 1
        BY <1>3, <1>4, <1>6
    <2> QED
        BY <2>1, <1>4, <1>6, <1>7, RowsGrow
  <1>9. StatesInv'
      BY <1>2 DEF LogInv, StatesInv
  <1>10. \A x \in Objects \ switched' : Leads(GroupOf(log', x), before'[x], object'[x])
    <2>1. \A x \in Objects \ switched' : object'[x] = object[x] /\ GroupOf(log', x) = GroupOf(log, x)
        BY <1>2, <1>6, <1>8 DEF LogInv, StatesInv
    <2> QED
        BY <2>1, <1>2 DEF LogInv, HistoryInv
  <1>11. Written(log)'
      BY <1>8 DEF Written
  <1> QED
      BY <1>9, <1>10, <1>11 DEF LogInv, HistoryInv

LEMMA NextLog == LogInv /\ [Next]_vars => LogInv'
  <1> SUFFICES ASSUME LogInv, [Next]_vars PROVE LogInv'
      OBVIOUS
  <1>1. \A o \in Objects : object[o] \in ObjectState
      BY DEF LogInv, StatesInv
  <1>2. NextId \in Nat
      BY LenProperties DEF LogInv, Written, NextId
  <1>3. ASSUME NEW o \in Objects, NEW author \in Authors, NEW n \in ObjectState, Insert(o, n, author)
        PROVE  LogInv'
    <2>1. PICK e : e = CreatedRow(NextId, o, author, n)
        OBVIOUS
    <2>2. Flushed(o, n, <<e>>) /\ UNCHANGED switched /\ ~object[o].exists /\ n.exists
        BY <1>3, <2>1 DEF Insert
    <2>3. Fresh(e) /\ e.id = NextId /\ e.object = o
        BY <2>1, <1>2, CreatedFresh
    <2>4. Steps(e, object[o], n)
        BY <2>1, <2>2, <1>1, <1>2, FlushSteps
    <2> QED
        BY <2>2, <2>3, <2>4, OneRow
  <1>4. ASSUME NEW o \in Objects, NEW author \in Authors, NEW n \in ObjectState, Update(o, n, author)
        PROVE  LogInv'
    <2>1. PICK e : e = UpdatedRow(NextId, o, author, object[o], n)
        OBVIOUS
    <2>2. Flushed(o, n, <<e>>) /\ UNCHANGED switched /\ object[o].exists /\ n.exists /\ n # object[o]
        BY <1>4, <2>1 DEF Update
    <2>3. Fresh(e) /\ e.id = NextId /\ e.object = o
        BY <2>1, <2>2, <1>1, <1>2, UpdatedFresh
    <2>4. Steps(e, object[o], n)
        BY <2>1, <2>2, <1>1, <1>2, FlushSteps
    <2> QED
        BY <2>2, <2>3, <2>4, OneRow
  <1>5. ASSUME NEW o \in Objects, NEW author \in Authors, Delete(o, author)
        PROVE  LogInv'
    <2>1. PICK e, n : e = DeletedRow(NextId, o, author, object[o]) /\ n = [object[o] EXCEPT !.exists = FALSE]
        OBVIOUS
    <2>2. Flushed(o, n, <<e>>) /\ UNCHANGED switched /\ object[o].exists
        BY <1>5, <2>1 DEF Delete
    <2>3. Fresh(e) /\ e.id = NextId /\ e.object = o
        BY <2>1, <1>1, <1>2, DeletedFresh
    <2>4. n \in ObjectState
        BY <2>1, <1>1 DEF ObjectState
    <2>5. Steps(e, object[o], n)
        BY <2>1, <2>2, <2>4, <1>1, <1>2, FlushSteps
    <2> QED
        BY <2>2, <2>3, <2>4, <2>5, OneRow
  <1>6. CASE Next
      BY <1>3, <1>4, <1>5, <1>6, ReplaceLog DEF Next
  <1>7. CASE UNCHANGED vars
    <2>1. log' = log /\ before' = before /\ object' = object /\ switched' = switched
        BY <1>7 DEF vars
    <2> QED
        BY <2>1 DEF LogInv, Written, StatesInv, HistoryInv
  <1> QED
      BY <1>6, <1>7

LEMMA LogHolds == Spec => []LogInv
  BY InitLog, NextLog, PTL DEF Spec

-----------------------------------------------------------------------------
(* The net change.                                                         *)

LEMMA NothingMerged ==
  ASSUME NEW G, Ordered(G), \A r \in G : r.rel = NoChange
  PROVE  MergedRelation(G) = NoChange
  <1> DEFINE Wrong == {T \in SUBSET G : MergedRelation(T) # NoChange}
  <1> SUFFICES ASSUME Wrong # {} PROVE FALSE
      OBVIOUS
  <1>1. PICK T \in Wrong : \A U \in Wrong : U \subseteq T => U = T
    <2>1. Wrong # {} /\ \A U \in Wrong : IsFiniteSet(U)
        BY FS_Subset DEF Ordered
    <2> HIDE DEF Wrong
    <2> QED
        BY <2>1, LeastSet
  <1>2. Ordered(T) /\ T # {}
      BY <1>1, SubsetOrdered, MergedLast
  <1>3. PICK x \in T : x = Latest(T)
      BY <1>2, Ends
  <1>4. T \ {x} \notin Wrong /\ T \ {x} \in SUBSET G
      BY <1>1
  <1>5. MergedRelation(T) = MergeRelation(NoChange, NoChange)
      BY <1>1, <1>2, <1>3, <1>4, MergedLast
  <1>6. MergeRelation(NoChange, NoChange) = NoChange
      BY RelationsMerge
  <1> QED
      BY <1>1, <1>5, <1>6

LEMMA CompactedIf ==
  ASSUME NEW G, Ordered(G),
         \A r, s \in G : Adjacent(G, r, s) => MayFollow(r.verb, s.verb)
  PROVE  CanCompact(G) <=> ~ \/ \E r, s \in G : r.actor # s.actor
                             \/ ReaddedIn(G) /\ \E r \in G : HasRelation(r)
  <1>1. Reinserts(G) => ReaddedIn(G)
      BY DEF Reinserts, Adjacent, ReaddedIn
  <1>2. ASSUME NEW r \in G, NEW s \in G, r.id < s.id, r.verb = "deleted", s.verb = "created"
        PROVE  Reinserts(G)
    <2>1. PICK S : S = {t \in G : r.id < t.id}
        OBVIOUS
    <2>2. S \subseteq G /\ S # {} /\ Ordered(S)
        BY <2>1, <1>2, SubsetOrdered
    <2>3. PICK t \in S : \A u \in S : t.id <= u.id
        BY <2>2, Ends
    <2>4. \A u \in G : u.id \in Nat
        BY DEF Ordered, IsEntry
    <2>5. Adjacent(G, r, t)
        BY <2>1, <2>3, <2>4 DEF Adjacent
    <2>6. t.verb = "created"
        BY <2>2, <2>3, <2>5, <1>2 DEF MayFollow
    <2> QED
        BY <2>2, <2>3, <2>5, <2>6, <1>2 DEF Reinserts
  <1> QED
      BY <1>1, <1>2 DEF CanCompact, ReaddedIn

\* A row that is alone is merged into what it is.
LEMMA OneMerged ==
  ASSUME NEW r, Fresh(r)
  PROVE  CanCompact({r}) /\ Merge({r}) = {r}
  <1>1. IsEntry(r)
      BY DEF Fresh
  <1>2. Ordered({r})
      BY <1>1, FS_Singleton DEF Ordered
  <1>3. Earliest({r}) = r /\ Latest({r}) = r
      BY <1>2, Ends
  <1>4. CanCompact({r})
    <2>1. \A s, t \in {r} : ~Adjacent({r}, s, t)
        BY <1>1 DEF Adjacent, IsEntry
    <2> QED
        BY <2>1 DEF CanCompact, Reinserts
  <1>5. MergedVerb({r}) = r.verb
      BY <1>1, <1>3 DEF MergedVerb, IsEntry
  <1>6. ASSUME NEW f \in {"col", "secret"}
        PROVE  MergedColumn({r}, f, r.verb) = r[f]
    <2>1. IsPair(r[f]) /\ (r.verb = "updated" /\ r[f] # NoField => ~Unchanged(r[f]))
      <3>1. CASE f = "col"
          BY <3>1 DEF Fresh, IsEntry
      <3>2. CASE f = "secret"
          BY <3>2 DEF Fresh, IsEntry
      <3> QED
          BY <3>1, <3>2
    <2>2. PICK C, p : C = {s \in {r} : s[f] # NoField} /\ p = <<Earliest(C)[f][1], Latest(C)[f][2]>>
        OBVIOUS
    <2>3. MergedColumn({r}, f, r.verb) =
            IF C = {} \/ (r.verb = "updated" /\ Unchanged(p)) THEN NoField ELSE p
        BY <2>2 DEF MergedColumn
    <2>4. CASE r[f] = NoField
        BY <2>2, <2>3, <2>4
    <2>5. CASE r[f] # NoField
      <3>1. C = {r}
          BY <2>2, <2>5
      <3>2. p = <<r[f][1], r[f][2]>>
          BY <3>1, <2>2, <1>3
      <3>3. r[f] = p
          BY <3>2, <2>1, <2>5 DEF IsPair
      <3> QED
          BY <3>1, <3>3, <2>1, <2>3, <2>5
    <2> QED
        BY <2>4, <2>5
  <1>7. MergedRelation({r}) = r.rel
    <2>1. {r} \ {r} = {}
        OBVIOUS
    <2>2. MergedRelation({r}) = MergeRelation(NoChange, r.rel)
        BY <1>2, <1>3, <2>1, MergedLast
    <2>3. PICK a, d : a = r.rel.added /\ d = r.rel.removed
        OBVIOUS
    <2>4. r.rel = [added |-> a, removed |-> d, erasedAdded |-> 0, erasedRemoved |-> 0] /\ a \cap d = {}
        BY <1>1, <2>3 DEF Fresh, IsEntry, IsDelta
    <2>5. PICK p, q : p = {} \ d /\ q = {} \cup (d \ {})
        OBVIOUS
    <2>6. MergeRelation(NoChange, r.rel) =
            [added |-> p \cup (a \ q), removed |-> q \ a, erasedAdded |-> 0 + 0, erasedRemoved |-> 0 + 0]
        BY <2>4, <2>5 DEF MergeRelation, NoChange
    <2>7. p \cup (a \ q) = a /\ q \ a = d
        BY <2>4, <2>5
    <2> QED
        BY <2>2, <2>4, <2>6, <2>7
  <1>8. MergedRow({r}) = EntryRow(r.id, r.object, r.verb, [actor |-> r.actor, scope |-> r.scope],
                                  r.col, r.secret, r.rel)
    <2>1. /\ MergedColumn({r}, "col", r.verb) = r.col
          /\ MergedColumn({r}, "secret", r.verb) = r.secret
        BY <1>6
    <2> QED
        BY <2>1, <1>3, <1>5, <1>7 DEF MergedRow
  <1>9. MergedRow({r}) = r
      BY <1>8, <1>1 DEF IsEntry
  <1>10. ~(r.verb = "created" /\ r.verb = "deleted")
      OBVIOUS
  <1>11. ~(r.verb = "updated" /\ r.col = NoField /\ r.secret = NoField /\ ~HasRelation(r))
      BY DEF Fresh
  <1>12. Merge({r}) = {r}
      BY <1>3, <1>9, <1>10, <1>11 DEF Merge
  <1> QED
      BY <1>4, <1>12

\* The merged column goes from the old value to the new one.
LEMMA ColumnIs ==
  ASSUME NEW G, Ordered(G), NEW f, NEW v, NEW old, NEW new, Chain(G, f, old, new),
         v # "updated" => With(G, f) # {}
  PROVE  MergedColumn(G, f, v) =
           IF v = "updated" /\ (With(G, f) = {} \/ Unchanged(<<old, new>>)) THEN NoField ELSE <<old, new>>
  <1>1. PICK C, p : C = With(G, f) /\ p = <<Earliest(C)[f][1], Latest(C)[f][2]>>
      OBVIOUS
  <1>2. MergedColumn(G, f, v) = IF C = {} \/ (v = "updated" /\ Unchanged(p)) THEN NoField ELSE p
      BY <1>1 DEF MergedColumn, With
  <1>3. C # {} => p = <<old, new>>
      BY <1>1 DEF Chain
  <1> QED
      BY <1>1, <1>2, <1>3

LEMMA NetIs ==
  ASSUME LogInv, NEW o \in Objects \ switched, NEW G, G = GroupOf(log, o), G # {},
         NetVerb(o) # "none"
  PROVE  /\ MergedVerb(G) = NetVerb(o)
         /\ MergedColumn(G, "col", NetVerb(o)) = NetCol(o)
         /\ MergedColumn(G, "secret", NetVerb(o)) = NetSecret(o)
         /\ (ReaddedIn(G) => \A r \in G : ~HasRelation(r)) => MergedRelation(G) = NetRel(o)
  <1>1. PICK b, n, v : b = before[o] /\ n = object[o] /\ v = NetVerb(o)
      OBVIOUS
  <1>2. /\ Leads(G, b, n) /\ b \in ObjectState /\ n \in ObjectState
      BY <1>1 DEF LogInv, HistoryInv, StatesInv
  <1>3. Ordered(G) /\ \A r \in G : Fresh(r)
    <2>1. Written(log)
        BY DEF LogInv
    <2> QED
        BY <2>1, WrittenRead, GroupOrdered DEF Written
  <1>4. Earliest(G) \in G /\ Latest(G) \in G
      BY <1>3, Ends
  <1>5. v = IF b.exists THEN (IF n.exists THEN "updated" ELSE "deleted")
            ELSE (IF n.exists THEN "created" ELSE "none")
      BY <1>1 DEF NetVerb
  <1>6. (Earliest(G).verb = "created" <=> ~b.exists) /\ (Latest(G).verb = "deleted" <=> ~n.exists)
      BY <1>2 DEF Leads
  <1>7. MergedVerb(G) = v
      BY <1>1, <1>5, <1>6 DEF MergedVerb
  <1>8. v # "updated" => With(G, "col") # {} /\ With(G, "secret") # {}
    <2>1. v # "updated" => \E r \in G : r.verb # "updated"
        BY <1>1, <1>4, <1>5, <1>6
    <2>2. \A r \in G : r.verb # "updated" => r["col"] # NoField /\ r["secret"] # NoField
        BY <1>3 DEF Fresh
    <2> QED
        BY <2>1, <2>2 DEF With
  <1>9. MergedColumn(G, "col", v) = NetCol(o)
    <2>1. PICK old, new : old = ColOf(b) /\ new = ColOf(n)
        OBVIOUS
    <2>2. Chain(G, "col", old, new)
        BY <1>2, <2>1 DEF Leads
    <2>3. MergedColumn(G, "col", v) =
            IF v = "updated" /\ (With(G, "col") = {} \/ Unchanged(<<old, new>>)) THEN NoField ELSE <<old, new>>
        BY <2>2, <1>3, <1>8, ColumnIs
    <2>4. With(G, "col") = {} => old = new
        BY <2>2 DEF Chain
    <2>5. v = "updated" => old \notin Markers
        BY <2>1, <1>2, <1>5, ValuesAssumption DEF ColOf, ObjectState
    <2>6. v = "updated" => (Unchanged(<<old, new>>) <=> old = new)
        BY <2>5 DEF Unchanged
    <2>7. NetCol(o) = IF v = "updated" THEN Changed(old, new) ELSE <<old, new>>
        BY <2>1, <1>1 DEF NetCol, ColOf
    <2> QED
        BY <2>3, <2>4, <2>6, <2>7 DEF Changed
  <1>10. MergedColumn(G, "secret", v) = NetSecret(o)
    <2>1. PICK old, new : old = SecretOf(b) /\ new = SecretOf(n)
        OBVIOUS
    <2>2. Chain(G, "secret", old, new)
        BY <1>2, <2>1 DEF Leads
    <2>3. MergedColumn(G, "secret", v) =
            IF v = "updated" /\ (With(G, "secret") = {} \/ Unchanged(<<old, new>>)) THEN NoField ELSE <<old, new>>
        BY <2>2, <1>3, <1>8, ColumnIs
    <2>4. With(G, "secret") = {} <=> ~Touched(o)
      <3>1. Touched(o) <=> \E r \in G : r["secret"] # NoField
          BY DEF Touched
      <3> QED
          BY <3>1 DEF With
    <2>5. old \in {Null, Redacted} /\ new \in {Null, Redacted}
        BY <2>1 DEF SecretOf, Redact
    <2>6. Unchanged(<<old, new>>) <=> old = Null /\ new = Null
        BY <2>5 DEF Unchanged, Markers, Null, Redacted, Erased
    <2>7. NetSecret(o) = IF v = "updated" /\ (~Touched(o) \/ (old = Null /\ new = Null))
                         THEN NoField ELSE <<old, new>>
        BY <2>1, <1>1 DEF NetSecret, SecretOf
    <2> QED
        BY <2>3, <2>4, <2>6, <2>7
  <1>11. ASSUME ReaddedIn(G) => \A r \in G : ~HasRelation(r)
         PROVE  MergedRelation(G) = NetRel(o)
    <2>1. Readded(o) <=> ReaddedIn(G)
        BY DEF Readded, ReaddedIn
    <2>2. CASE ReaddedIn(G)
      <3>1. \A r \in G : r.rel = NoChange
          BY <2>2, <1>11 DEF HasRelation
      <3> QED
          BY <3>1, <2>1, <2>2, <1>3, NothingMerged DEF NetRel
    <2>3. CASE ~ReaddedIn(G)
        BY <2>1, <2>3, <1>1, <1>2 DEF Leads, NetRel
    <2> QED
        BY <2>2, <2>3
  <1> QED
      BY <1>1, <1>7, <1>9, <1>10, <1>11

LEMMA NetShown ==
  ASSUME LogInv, NEW o \in Objects \ switched
  PROVE  ShownNet(o)
  <1>1. PICK G, shown : G = GroupOf(log, o) /\ shown = ShownOf(log, o)
      OBVIOUS
  <1>2. Written(log) /\ Leads(G, before[o], object[o])
      BY <1>1 DEF LogInv, HistoryInv
  <1>3. Ordered(G) /\ \A r \in G : Fresh(r)
      BY <1>1, <1>2, WrittenRead, GroupOrdered DEF Written
  <1>4. shown = IF G = {} THEN {} ELSE IF CanCompact(G) THEN Merge(G) ELSE G
    <2>1. shown = IF G = {} THEN {} ELSE IF Raw(G) THEN G ELSE Merge(G)
        BY <1>1, <1>2, WrittenRead, ShownIs
    <2>2. \A r : G = {r} => CanCompact(G) /\ Merge(G) = G
        BY <1>3, OneMerged
    <2> QED
        BY <2>1, <2>2 DEF Raw
  <1> DEFINE raw == \/ \E r, s \in G : r.actor # s.actor
                    \/ Readded(o) /\ \E r \in G : HasRelation(r)
             none == \/ NetVerb(o) = "none"
                     \/ /\ NetVerb(o) = "updated" /\ NetCol(o) = NoField
                        /\ NetSecret(o) = NoField /\ NetRel(o) = NoChange
             net(r) == /\ r.verb = NetVerb(o) /\ r.col = NetCol(o)
                       /\ r.secret = NetSecret(o) /\ r.rel = NetRel(o)
  <1>5. Readded(o) <=> ReaddedIn(G)
      BY <1>1 DEF Readded, ReaddedIn
  <1>6. CanCompact(G) <=> ~raw
      BY <1>2, <1>3, <1>5, CompactedIf DEF Leads
  <1>7. ASSUME G # {}, ~raw, NetVerb(o) = "none"
        PROVE  shown = {}
    <2>1. ~before[o].exists /\ ~object[o].exists
        BY <1>7 DEF NetVerb
    <2>2. Earliest(G).verb = "created" /\ Latest(G).verb = "deleted"
        BY <2>1, <1>2, <1>7 DEF Leads
    <2>3. Merge(G) = {}
        BY <2>2 DEF Merge
    <2> QED
        BY <2>3, <1>4, <1>6, <1>7
  <1>8. ASSUME G # {}, ~raw, NetVerb(o) # "none"
        PROVE  /\ shown = IF none THEN {} ELSE {MergedRow(G)}
               /\ net(MergedRow(G))
    <2>1. PICK r : r = MergedRow(G)
        OBVIOUS
    <2>2. /\ MergedVerb(G) = NetVerb(o)
          /\ MergedColumn(G, "col", NetVerb(o)) = NetCol(o)
          /\ MergedColumn(G, "secret", NetVerb(o)) = NetSecret(o)
          /\ MergedRelation(G) = NetRel(o)
        BY <1>1, <1>5, <1>8, NetIs
    <2>3. net(r)
        BY <2>1, <2>2, MergedShape
    <2>4. ~(Earliest(G).verb = "created" /\ Latest(G).verb = "deleted")
        BY <1>2, <1>8 DEF Leads, NetVerb
    <2>5. Merge(G) = IF none THEN {} ELSE {r}
        BY <2>1, <2>3, <2>4, <1>8 DEF Merge, HasRelation
    <2> QED
        BY <2>1, <2>3, <2>5, <1>4, <1>6, <1>8
  <1>9. IF G = {} THEN shown = {}
        ELSE IF raw THEN shown = G
        ELSE IF none THEN shown = {}
        ELSE \E r \in shown : shown = {r} /\ net(r)
    <2>1. CASE G = {}
        BY <2>1, <1>4
    <2>2. CASE G # {} /\ raw
        BY <2>2, <1>4, <1>6
    <2>3. CASE G # {} /\ ~raw
      <3>1. CASE NetVerb(o) = "none"
          BY <3>1, <2>3, <1>7
      <3>2. CASE NetVerb(o) # "none"
        <4>1. PICK r : r = MergedRow(G)
            OBVIOUS
        <4>2. shown = (IF none THEN {} ELSE {r}) /\ net(r)
            BY <4>1, <3>2, <2>3, <1>8
        <4> HIDE DEF net, none
        <4>3. none => shown = {}
            BY <4>2
        <4>4. ~none => shown = {r} /\ r \in shown
            BY <4>2
        <4> QED
            BY <4>2, <4>3, <4>4, <2>3
      <3> QED
          BY <3>1, <3>2
    <2> QED
        BY <2>1, <2>2, <2>3
  <1> QED
      BY <1>1, <1>9 DEF ShownNet

-----------------------------------------------------------------------------

\* docs/guides/querying.md, "merged into the net change of the transaction":
\* whatever the flushes of a transaction did to an object that none of them
\* deleted and re-added at once, a reader is shown the difference between it
\* before and after, or nothing if there is none.
THEOREM NetChangeHolds == Spec => []NetChangeUnlessSwitched
  <1>1. LogInv => NetChangeUnlessSwitched
      BY NetShown DEF NetChangeUnlessSwitched
  <1> QED
      BY <1>1, LogHolds, PTL

\* _compaction.py, "Compacting a compacted result changes nothing", of the rows
\* of any transaction and of what a scrub leaves of them.
THEOREM IdempotentHolds == Spec => []Idempotent
  <1>1. LogInv => Idempotent
    <2> SUFFICES ASSUME LogInv, NEW o \in Objects, NEW scopes \in SUBSET Scopes,
                        NEW rows, rows = Scrub(log, o, scopes)
                 PROVE  Compact(Compact(rows)) = Compact(rows)
        BY DEF Idempotent
    <2> QED
        BY WrittenRead, ScrubRead, CompactedTwice DEF LogInv
  <1> QED
      BY <1>1, LogHolds, PTL

\* Rows read newest first are merged like rows read oldest first.
THEOREM DirectionHolds == Spec => []DirectionKept
  <1>1. LogInv => DirectionKept
      BY WrittenRead, CompactedReversed DEF LogInv, DirectionKept
  <1> QED
      BY <1>1, LogHolds, PTL

\* privacy._ERASED_CHANGES: a scrub, of any object and scopes, hides no field
\* and no object a reader was shown before it.
THEOREM ErasedHolds == Spec => []ErasedStillShown
  <1>1. LogInv => ErasedStillShown
      BY WrittenRead, ScrubShows DEF LogInv, ErasedStillShown
  <1> QED
      BY <1>1, LogHolds, PTL
====
