----------------------------- MODULE ReadingProofs -----------------------------
(***************************************************************************)
(* Proofs about Scrub and Reading, for any number of calls, requests and   *)
(* reads, and any operations, scopes and visibilities: what a scrub erases *)
(* stays erased, nothing else is, and what a reader is shown.              *)
(***************************************************************************)
EXTENDS Reading, SequenceTheorems, NaturalsInduction, WellFoundedInduction,
        FiniteSetTheorems, TLAPS

-----------------------------------------------------------------------------
(* Rows, and logs that grow.                                               *)

Parts == {"values", "personal"}
Fixed == {"kind", "tx", "actor", "scope", "object", "target", "system", "at"}

IsRow(r) ==
  /\ DOMAIN r = Fixed \cup Parts
  /\ r.kind \in {"transaction", "entry"}
  /\ r.tx \in Nat /\ r.at \in Nat /\ r.system \in BOOLEAN
  /\ r.values \in Held /\ r.personal \in Held

\* A later version of a row has parts erased, and is the same otherwise.
Version(old, new) ==
  /\ IsRow(old) /\ IsRow(new)
  /\ \A f \in Fixed : new[f] = old[f]
  /\ \A p \in Parts : new[p] # old[p] => old[p] = "kept" /\ new[p] = "erased"

\* Rows are added at the end, those of one transaction together.
Extends(old, new) ==
  /\ DOMAIN old \subseteq DOMAIN new
  /\ \A i \in DOMAIN old : Version(old[i], new[i])
  /\ \A i \in DOMAIN new \ DOMAIN old : new[i].tx \notin DOMAIN old

\* No transaction has rows on both sides.
Ends(n) == n \in 0 .. Len(log) /\ \A i \in DOMAIN log : i > n => log[i].tx > n

Log ==
  /\ log \in Seq(Range(log))
  /\ \A i \in DOMAIN log :
       /\ IsRow(log[i])
       /\ log[i].tx \in 1 .. i /\ log[log[i].tx].kind = "transaction"
       /\ (log[i].kind = "transaction") <=> (log[i].tx = i)

-----------------------------------------------------------------------------
(* The calls.                                                              *)

CallFields == {"at", "op", "by", "start", "next", "seen", "todo", "writes", "record", "count"}

\* The statements a call has finished, and those it is to make at all.
Finishes(c) == {Statements(call[c].op)[k] : k \in 1 .. call[c].next - 1}
All(o) == {Statements(o)[k] : k \in 1 .. Len(Statements(o))}

Made(c) ==
  /\ DOMAIN call[c] = CallFields
  /\ call[c].at \in {"idle", "scan", "update", "record", "done"}
  /\ call[c].next \in 1 .. 3
  /\ call[c].at # "idle" => call[c].op \in Operations /\ Ends(call[c].start)
  /\ call[c].at \in {"scan", "update"} => call[c].next <= Len(Statements(call[c].op))
  /\ call[c].at \in {"record", "done"} => call[c].next = Len(Statements(call[c].op)) + 1

\* What a call has changed and not committed is a later version of what is
\* committed, of rows it was asked about, and of rows no other call has changed.
Asked(c, i, p) == \E s \in All(call[c].op) : Part(s) = p /\ Concerns(call[c].op, s, log, i)
Writes(c) ==
  /\ call[c].at \in {"idle", "done"} => DOMAIN call[c].writes = {}
  /\ DOMAIN call[c].writes \subseteq DOMAIN log
  /\ \A i \in DOMAIN call[c].writes :
       /\ Version(log[i], call[c].writes[i])
       /\ \A p \in Parts : call[c].writes[i][p] # log[i][p] => Asked(c, i, p)
Apart(c) == \A d \in Calls \ {c} : DOMAIN call[c].writes \cap DOMAIN call[d].writes = {}

\* A snapshot is an earlier log, with the call's changes, not before its start.
Snapshot(c) ==
  call[c].at = "update" =>
    /\ Extends(call[c].seen, Sees(c))
    /\ 1 .. call[c].start \subseteq DOMAIN call[c].seen
    /\ \A i \in call[c].todo : i \in DOMAIN call[c].seen /\ Concerns(call[c].op, Statement(c), call[c].seen, i)

\* Of the rows there were when the call began, a finished statement leaves none
\* it should erase, and the present one those it has still to do.
Clean(o, s, rows, i) == Concerns(o, s, rows, i) => ~Holds(rows[i], s)
Progress(c) ==
  call[c].at # "idle" =>
    /\ \A s \in Finishes(c) : \A i \in 1 .. call[c].start : Clean(call[c].op, s, Sees(c), i)
    /\ call[c].at = "update" =>
         \A i \in 1 .. call[c].start : Clean(call[c].op, Statement(c), Sees(c), i) \/ i \in call[c].todo

\* Nor does the record of a call hold anything.
Record(c) ==
  call[c].at = "done" =>
    \A i \in {call[c].record, call[c].record + 1} :
      i \in DOMAIN log /\ \A s \in All(call[c].op) : Clean(call[c].op, s, log, i)

CallInv(c) == Made(c) /\ Writes(c) /\ Apart(c) /\ Snapshot(c) /\ Progress(c) /\ Record(c)

\* Of what is erased, a finished call was asked.
Erasures ==
  \A i \in DOMAIN log, p \in Parts :
    log[i][p] = "erased" => \E c \in Finished : Asked(c, i, p)

ScrubInv ==
  /\ requests \in 0 .. MaxRequests
  /\ DOMAIN call = Calls
  /\ Log /\ Erasures
  /\ \A c \in Calls : CallInv(c)

-----------------------------------------------------------------------------
(* The reader.                                                             *)

\* Rows as they were when read.
Were(rows, v) ==
  \A i \in DOMAIN rows :
    /\ i \in DOMAIN log /\ Version(rows[i], log[i])
    /\ rows[i].kind = "entry" /\ Predicate(rows[i], v)

\* Rows read after a call was done show nothing it erased.
Hides(o, row) ==
  AskedFor(o, row) => IF o.kind = "scrub" THEN row.values # "kept" ELSE row.personal # "kept"
Unshown(done, rows) ==
  \A c \in done : \A i \in DOMAIN rows : i <= call[c].start => Hides(call[c].op, rows[i])

UnshownHeader(c, t, header) ==
  t <= call[c].start /\ HeaderAskedFor(call[c].op, t, header) => header.personal # "kept"
UnshownHeaders ==
  \A c \in shown.done : \A t \in DOMAIN shown.headers : UnshownHeader(c, t, shown.headers[t])

UnshownLabel ==
  shown.label # 0 =>
    /\ shown.label \in DOMAIN log /\ Predicate(log[shown.label], shown.v)
    /\ \A c \in shown.done :
         call[c].op.kind = "scrub" /\ AskedFor(call[c].op, log[shown.label]) =>
           shown.label > call[c].start

Reader ==
  /\ DOMAIN reader = {"at", "v", "txs", "rows", "done"}
  /\ reader.at \in {"none", "entries", "headers"}
  /\ reader.done \subseteq Finished
  /\ Were(reader.rows, reader.v) /\ Unshown(reader.done, reader.rows)

Shown ==
  /\ DOMAIN shown = {"rows", "headers", "v", "done", "label"}
  /\ shown.done \subseteq Finished
  /\ Were(shown.rows, shown.v) /\ Unshown(shown.done, shown.rows)
  /\ DOMAIN shown.headers = {shown.rows[i].tx : i \in DOMAIN shown.rows}
  /\ \A t \in DOMAIN shown.headers : Allowed(shown.headers[t].scope, shown.v.scopes)
  /\ UnshownHeaders /\ UnshownLabel

IInv ==
  /\ ScrubInv /\ Reader /\ Shown
  /\ dropped \subseteq DOMAIN log /\ reads \in 0 .. MaxReads

-----------------------------------------------------------------------------
(* Rows and sequences.                                                     *)

Steps == {"values", "transactions", "context"}

LEMMA RowErased ==
  ASSUME NEW r, IsRow(r), NEW s \in Steps, Holds(r, s)
  PROVE  /\ Version(r, Erased(r, s))
         /\ ~Holds(Erased(r, s), s)
         /\ \A p \in Parts : Erased(r, s)[p] # r[p] => p = Part(s)
  <1> DEFINE p == Part(s)
             e == [r EXCEPT ![p] = "erased"]
  <1>1. p \in Parts /\ r[p] = "kept" /\ DOMAIN r = Fixed \cup Parts
      BY DEF Part, Parts, Steps, Holds, IsRow
  <1>2. /\ DOMAIN e = Fixed \cup Parts /\ e[p] = "erased"
        /\ \A f \in Fixed \cup Parts : f # p => e[f] = r[f]
      BY <1>1
  <1>3. Erased(r, s) = e
      BY DEF Erased
  <1> HIDE DEF e, p
  <1>4. \A f \in Fixed : e[f] = r[f]
      BY <1>1, <1>2 DEF Fixed, Parts
  <1>5. IsRow(e)
    <2>1. e["values"] \in Held /\ e["personal"] \in Held
        BY <1>1, <1>2 DEF IsRow, Held, Parts
    <2> QED
        BY <1>2, <1>4, <2>1 DEF IsRow, Fixed
  <1>6. Version(r, e)
      BY <1>1, <1>2, <1>4, <1>5 DEF Version
  <1> QED
      BY <1>1, <1>2, <1>3, <1>6 DEF Holds, p

LEMMA SameVersion ==
  ASSUME NEW r, IsRow(r)
  PROVE  Version(r, r)
  BY DEF Version

LEMMA LaterVersion ==
  ASSUME NEW a, NEW b, NEW c, Version(a, b), Version(b, c)
  PROVE  Version(a, c)
  BY DEF Version

LEMMA StaysErased ==
  ASSUME NEW a, NEW b, Version(a, b), NEW s \in Steps, ~Holds(a, s)
  PROVE  ~Holds(b, s)
  BY DEF Version, Holds, Part, Parts, Steps

LEMMA FixedFields ==
  ASSUME NEW a, NEW b, Version(a, b)
  PROVE  /\ b.kind = a.kind /\ b.tx = a.tx /\ b.actor = a.actor /\ b.scope = a.scope
         /\ b.object = a.object /\ b.target = a.target /\ b.system = a.system /\ b.at = a.at
  BY DEF Version, Fixed

LEMMA InSeq ==
  ASSUME NEW n \in Nat, NEW s, s = [i \in 1 .. n |-> s[i]]
  PROVE  s \in Seq(Range(s)) /\ Len(s) = n /\ DOMAIN s = 1 .. n
  <1>1. DOMAIN s = 1 .. n
      OBVIOUS
  <1>2. s \in [1 .. n -> Range(s)]
      BY <1>1 DEF Range
  <1>3. s \in Seq(Range(s))
      BY <1>2, SeqDef
  <1> QED
      BY <1>1, <1>3, LenProperties

LEMMA OfSeq ==
  ASSUME NEW s, s \in Seq(Range(s))
  PROVE  Len(s) \in Nat /\ DOMAIN s = 1 .. Len(s)
  BY LenProperties

LEMMA Joined ==
  ASSUME NEW s, NEW t, s \in Seq(Range(s)), t \in Seq(Range(t))
  PROVE  /\ s \o t \in Seq(Range(s \o t))
         /\ Len(s \o t) = Len(s) + Len(t)
         /\ DOMAIN (s \o t) = 1 .. Len(s) + Len(t)
         /\ \A i \in 1 .. Len(s) : (s \o t)[i] = s[i]
         /\ \A i \in 1 .. Len(t) : (s \o t)[Len(s) + i] = t[i]
  <1> DEFINE S == Range(s) \cup Range(t)
             u == s \o t
  <1>1. s \in Seq(S) /\ t \in Seq(S) /\ Len(s) \in Nat /\ Len(t) \in Nat
    <2>1. \A i \in 1 .. Len(s) : s[i] \in S
        BY LenProperties DEF Range
    <2>2. \A i \in 1 .. Len(t) : t[i] \in S
        BY LenProperties DEF Range
    <2>3. s \in [1 .. Len(s) -> S] /\ t \in [1 .. Len(t) -> S]
        BY <2>1, <2>2, LenProperties
    <2> HIDE DEF S
    <2> QED
        BY <2>3, LenProperties, SeqDef
  <1> HIDE DEF S
  <1>2. /\ u \in Seq(S) /\ Len(u) = Len(s) + Len(t)
        /\ \A i \in 1 .. Len(s) : u[i] = s[i]
        /\ \A i \in 1 .. Len(s) + Len(t) : i > Len(s) => u[i] = t[i - Len(s)]
      BY <1>1, ConcatProperties
  <1>3. DOMAIN u = 1 .. Len(s) + Len(t) /\ Len(s) + Len(t) \in Nat
      BY <1>1, <1>2, LenProperties
  <1>4. u = [i \in 1 .. Len(s) + Len(t) |-> u[i]]
      BY <1>2, <1>3, LenProperties
  <1> HIDE DEF u
  <1>5. u \in Seq(Range(u))
      BY <1>3, <1>4, InSeq
  <1>6. \A i \in 1 .. Len(t) : u[Len(s) + i] = t[i]
    <2> TAKE i \in 1 .. Len(t)
    <2>1. Len(s) + i \in 1 .. Len(s) + Len(t) /\ Len(s) + i > Len(s) /\ Len(s) + i - Len(s) = i
        BY <1>1
    <2> QED
        BY <2>1, <1>2
  <1> QED
      BY <1>2, <1>3, <1>5, <1>6 DEF u

LEMMA Headed ==
  ASSUME NEW x, NEW s, s \in Seq(Range(s))
  PROVE  /\ <<x>> \o s \in Seq(Range(<<x>> \o s))
         /\ Len(<<x>> \o s) = 1 + Len(s)
         /\ DOMAIN (<<x>> \o s) = 1 .. 1 + Len(s)
         /\ (<<x>> \o s)[1] = x
         /\ \A i \in 1 .. Len(s) : (<<x>> \o s)[1 + i] = s[i]
  <1>1. <<x>> \in Seq(Range(<<x>>)) /\ Len(<<x>>) = 1 /\ <<x>>[1] = x /\ 1 \in 1 .. 1
      BY DEF Range
  <1>2. PICK h : h = <<x>>
      OBVIOUS
  <1>3. h \in Seq(Range(h)) /\ Len(h) = 1 /\ h[1] = x
      BY <1>1, <1>2
  <1>4. /\ h \o s \in Seq(Range(h \o s)) /\ Len(h \o s) = Len(h) + Len(s)
        /\ DOMAIN (h \o s) = 1 .. Len(h) + Len(s)
        /\ \A i \in 1 .. Len(h) : (h \o s)[i] = h[i]
        /\ \A i \in 1 .. Len(s) : (h \o s)[Len(h) + i] = s[i]
    <2>1. h \in Seq(Range(h)) /\ s \in Seq(Range(s))
        BY <1>3
    <2>2. Len(h \o s) = Len(h) + Len(s)
        BY <2>1, Joined
    <2>3. DOMAIN (h \o s) = 1 .. Len(h) + Len(s)
        BY <2>1, Joined
    <2>4. \A i \in 1 .. Len(h) : (h \o s)[i] = h[i]
        BY <2>1, Joined
    <2>5. \A i \in 1 .. Len(s) : (h \o s)[Len(h) + i] = s[i]
        BY <2>1, Joined
    <2>6. h \o s \in Seq(Range(h \o s))
        BY <2>1, Joined
    <2> QED
        BY <2>2, <2>3, <2>4, <2>5, <2>6
  <1> QED
      BY <1>1, <1>2, <1>3, <1>4

\* The rows one transaction adds.
IsAdded(rows, first) ==
  /\ rows \in Seq(Range(rows)) /\ Len(rows) >= 1
  /\ \A k \in DOMAIN rows :
       /\ IsRow(rows[k]) /\ rows[k].tx = first
       /\ (rows[k].kind = "transaction") <=> (k = 1)
       /\ \A p \in Parts : rows[k][p] # "erased"
       /\ rows[k].kind = "transaction" => rows[k].values = "none"

AddsFor(rows, first, actor, personal, es) ==
  /\ IsAdded(rows, first)
  /\ Len(rows) = Len(es) + 1
  /\ rows[1] = TransactionRow(first, actor, personal)
  /\ \A k \in 1 .. Len(es) :
       /\ rows[k + 1].kind = "entry" /\ rows[k + 1].system = es[k].system
       /\ rows[k + 1].actor = es[k].actor /\ rows[k + 1].personal = personal

LEMMA RowsAdded ==
  ASSUME NEW first \in Nat, NEW actor, NEW personal \in {"none", "kept"}, NEW es,
         es \in Seq(Range(es)), \A k \in DOMAIN es : es[k].at \in Nat /\ es[k].system \in BOOLEAN
  PROVE  AddsFor(RowsOf(first, actor, personal, es), first, actor, personal, es)
  <1> DEFINE x == TransactionRow(first, actor, personal)
             f(k) == [kind |-> "entry", tx |-> first, actor |-> es[k].actor,
                      scope |-> es[k].scope, object |-> es[k].object,
                      target |-> es[k].target, system |-> es[k].system,
                      at |-> es[k].at, values |-> "kept", personal |-> personal]
             t == [k \in DOMAIN es |-> f(k)]
             rows == <<x>> \o t
  <1>1. RowsOf(first, actor, personal, es) = rows
      BY DEF RowsOf
  <1>2. Len(es) \in Nat /\ DOMAIN es = 1 .. Len(es)
      BY OfSeq
  <1>3. /\ IsRow(x) /\ x.tx = first /\ x.kind = "transaction" /\ x.values = "none"
        /\ \A p \in Parts : x[p] # "erased"
      BY DEF TransactionRow, IsRow, Fixed, Parts, Held
  <1>4. \A k \in 1 .. Len(es) :
          /\ IsRow(f(k)) /\ f(k).tx = first /\ f(k).kind = "entry"
          /\ \A p \in Parts : f(k)[p] # "erased"
          /\ f(k).system = es[k].system /\ f(k).actor = es[k].actor /\ f(k).personal = personal
      BY <1>2 DEF IsRow, Fixed, Parts, Held
  <1> HIDE DEF x, f
  <1>5. t = [k \in 1 .. Len(es) |-> t[k]] /\ \A k \in 1 .. Len(es) : t[k] = f(k)
      BY <1>2
  <1> HIDE DEF t
  <1>6. t \in Seq(Range(t)) /\ Len(t) = Len(es)
      BY <1>2, <1>5, InSeq
  <1>7. <<x>> \in Seq(Range(<<x>>)) /\ Len(<<x>>) = 1 /\ <<x>>[1] = x
      BY DEF Range
  <1>8. /\ rows \in Seq(Range(rows))
        /\ Len(rows) = 1 + Len(es) /\ DOMAIN rows = 1 .. 1 + Len(es)
        /\ rows[1] = x
        /\ \A k \in 1 .. Len(es) : rows[1 + k] = t[k]
      BY <1>6, Headed
  <1> HIDE DEF rows
  <1>9. \A k \in DOMAIN rows : k = 1 \/ (k - 1 \in 1 .. Len(es) /\ k = 1 + (k - 1))
      BY <1>2, <1>8
  <1>10. \A k \in DOMAIN rows : k # 1 => rows[k] = f(k - 1) /\ k - 1 \in 1 .. Len(es)
    <2> SUFFICES ASSUME NEW k \in DOMAIN rows, k # 1 PROVE rows[k] = f(k - 1) /\ k - 1 \in 1 .. Len(es)
        OBVIOUS
    <2>1. k - 1 \in 1 .. Len(es) /\ k = 1 + (k - 1)
        BY <1>9
    <2>2. rows[1 + (k - 1)] = t[k - 1]
        BY <1>8, <2>1
    <2> QED
        BY <2>1, <2>2, <1>5
  <1>11. IsAdded(rows, first)
    <2>1. Len(rows) >= 1
        BY <1>2, <1>8
    <2>2. \A k \in DOMAIN rows :
            /\ IsRow(rows[k]) /\ rows[k].tx = first
            /\ (rows[k].kind = "transaction") <=> (k = 1)
            /\ \A p \in Parts : rows[k][p] # "erased"
            /\ rows[k].kind = "transaction" => rows[k].values = "none"
        BY <1>3, <1>4, <1>8, <1>10
    <2> QED
        BY <1>8, <2>1, <2>2 DEF IsAdded
  <1>12. \A k \in 1 .. Len(es) : rows[k + 1] = f(k)
    <2> TAKE k \in 1 .. Len(es)
    <2>1. k + 1 = 1 + k
        BY <1>2
    <2> QED
        BY <2>1, <1>5, <1>8
  <1> QED
    <2>1. AddsFor(rows, first, actor, personal, es)
        BY <1>2, <1>4, <1>8, <1>11, <1>12 DEF AddsFor, x
    <2> QED
        BY <2>1, <1>1

\* The record of a scrub.
IsRecord(rows, first, actor, personal) ==
  /\ IsAdded(rows, first) /\ Len(rows) = 2
  /\ rows[1] = TransactionRow(first, actor, personal)
  /\ rows[2].kind = "entry" /\ rows[2].system = TRUE
  /\ rows[2].actor = actor /\ rows[2].personal = personal

LEMMA RecordAdded ==
  ASSUME NEW first \in Nat, NEW actor, NEW personal \in {"none", "kept"}, NEW e,
         e.system = TRUE, e.at = 0, e.actor = actor
  PROVE  IsRecord(RowsOf(first, actor, personal, <<e>>), first, actor, personal)
  <1>1. PICK es : es = <<e>>
      OBVIOUS
  <1>2. /\ es \in Seq(Range(es)) /\ Len(es) = 1 /\ DOMAIN es = 1 .. 1 /\ es[1] = e
      BY <1>1 DEF Range
  <1>3. \A k \in DOMAIN es : es[k].at \in Nat /\ es[k].system \in BOOLEAN
    <2> SUFFICES ASSUME NEW k \in DOMAIN es PROVE es[k].at \in Nat /\ es[k].system \in BOOLEAN
        OBVIOUS
    <2>1. es[k] = e
        BY <1>2
    <2>2. e.at \in Nat
        OBVIOUS
    <2>3. e.system \in BOOLEAN
        OBVIOUS
    <2> QED
        BY ONLY <2>1, <2>2, <2>3, Zenon
  <1>4. PICK rows : rows = RowsOf(first, actor, personal, es)
      OBVIOUS
  <1>5. AddsFor(rows, first, actor, personal, es)
      BY <1>2, <1>3, <1>4, RowsAdded
  <1>9. \A k \in 1 .. 1 : /\ rows[k + 1].kind = "entry" /\ rows[k + 1].system = es[k].system
                          /\ rows[k + 1].actor = es[k].actor /\ rows[k + 1].personal = personal
      BY <1>2, <1>5 DEF AddsFor
  <1>10. 1 \in 1 .. 1 /\ 1 + 1 = 2
      OBVIOUS
  <1>11. /\ rows[2].kind = "entry" /\ rows[2].system = TRUE
         /\ rows[2].actor = actor /\ rows[2].personal = personal
      BY <1>2, <1>9, <1>10
  <1>12. IsAdded(rows, first) /\ Len(rows) = 2 /\ rows[1] = TransactionRow(first, actor, personal)
      BY <1>2, <1>5 DEF AddsFor
  <1> QED
    <2>1. IsRecord(rows, first, actor, personal)
        BY <1>11, <1>12 DEF IsRecord
    <2> QED
        BY <2>1, <1>1, <1>4

-----------------------------------------------------------------------------
(* The statements of a call.                                               *)

LEMMA StatementsAre ==
  ASSUME NEW o \in Operations
  PROVE  /\ Len(Statements(o)) \in {1, 2}
         /\ All(o) \subseteq Steps
         /\ \A k \in 1 .. Len(Statements(o)) : Statements(o)[k] \in All(o)
         /\ o.kind = "scrub" => All(o) = {"values"}
         /\ o.kind = "scrub_actor" => All(o) = {"transactions", "context"}
  <1>1. CASE o.kind = "scrub"
    <2>1. Len(Statements(o)) = 1 /\ Statements(o)[1] = "values"
        BY <1>1 DEF Statements
    <2> QED
        BY <1>1, <2>1 DEF All, Steps
  <1>2. CASE o.kind = "scrub_actor"
    <2>1. /\ Len(Statements(o)) = 2
          /\ Statements(o)[1] = "transactions" /\ Statements(o)[2] = "context"
        BY <1>2 DEF Statements
    <2>2. 1 .. 2 = {1, 2}
        OBVIOUS
    <2> QED
        BY <1>2, <2>1, <2>2 DEF All, Steps
  <1> QED
      BY <1>1, <1>2, OperationsAssumption

LEMMA ConcernsSame ==
  ASSUME NEW old, NEW new, Extends(old, new), NEW o, NEW s \in Steps, NEW i \in DOMAIN old
  PROVE  Concerns(o, s, new, i) <=> Concerns(o, s, old, i)
  <1>1. \A j \in DOMAIN old :
          /\ new[j].kind = old[j].kind /\ new[j].tx = old[j].tx /\ new[j].actor = old[j].actor
          /\ new[j].scope = old[j].scope /\ new[j].object = old[j].object
          /\ new[j].target = old[j].target /\ new[j].system = old[j].system /\ new[j].at = old[j].at
      BY FixedFields DEF Extends
  <1>2. Entries(new, i) = Entries(old, i)
      BY <1>1 DEF Entries, Extends
  <1>3. \A j \in Entries(old, i) : new[j].scope = old[j].scope
      BY <1>1 DEF Entries
  <1>4. \A c : AllEntriesMatch(new, i, c) <=> AllEntriesMatch(old, i, c)
      BY <1>2, <1>3 DEF AllEntriesMatch
  <1> QED
      BY <1>1, <1>4 DEF Concerns, IsAbout, Steps

LEMMA CleanStays ==
  ASSUME NEW old, NEW new, Extends(old, new), NEW o, NEW s \in Steps, NEW i \in DOMAIN old,
         Clean(o, s, old, i)
  PROVE  Clean(o, s, new, i)
  BY ConcernsSame, StaysErased DEF Clean, Extends

LEMMA ExtendsFurther ==
  ASSUME NEW a, NEW b, NEW c, Extends(a, b), Extends(b, c)
  PROVE  Extends(a, c)
  <1>1. \A i \in DOMAIN a : Version(a[i], c[i])
      BY LaterVersion DEF Extends
  <1>2. \A i \in DOMAIN b : c[i].tx = b[i].tx
      BY FixedFields DEF Extends
  <1> QED
      BY <1>1, <1>2 DEF Extends

-----------------------------------------------------------------------------
(* The log.                                                                *)

LEMMA Logged ==
  ASSUME Log
  PROVE  /\ Len(log) \in Nat /\ DOMAIN log = 1 .. Len(log)
         /\ Ends(Len(log))
         /\ \A i \in DOMAIN log : i \in Nat /\ IsRow(log[i]) /\ Version(log[i], log[i])
         /\ Extends(log, log)
  <1>1. Len(log) \in Nat /\ DOMAIN log = 1 .. Len(log)
      BY OfSeq DEF Log
  <1> QED
      BY <1>1, SameVersion DEF Log, Ends, Extends

LEMMA SeesLater ==
  ASSUME Log, NEW c \in Calls, Writes(c)
  PROVE  /\ DOMAIN Sees(c) = DOMAIN log
         /\ Extends(log, Sees(c))
         /\ \A i \in DOMAIN log : Sees(c)[i] = IF i \in DOMAIN call[c].writes
                                               THEN call[c].writes[i] ELSE log[i]
  BY Logged DEF Writes, Sees, Extends

LEMMA Grown ==
  ASSUME Log, NEW base, DOMAIN base = DOMAIN log, base = [i \in DOMAIN log |-> base[i]],
         \A i \in DOMAIN log : Version(log[i], base[i]),
         NEW rows, IsAdded(rows, Len(log) + 1), log' = base \o rows
  PROVE  /\ Log' /\ Extends(log, log')
         /\ \A i \in DOMAIN log : log'[i] = base[i]
         /\ \A k \in 1 .. Len(rows) : /\ Len(log) + k \in DOMAIN log' \ DOMAIN log
                                      /\ log'[Len(log) + k] = rows[k]
         /\ \A i \in DOMAIN log' \ DOMAIN log :
              \A p \in Parts : log'[i].tx = Len(log) + 1 /\ log'[i][p] # "erased"
         /\ \A n : Ends(n) => Ends(n)'
         /\ Len(rows) \in Nat /\ Len(rows) >= 1
  <1> DEFINE n == Len(log)
             m == Len(rows)
  <1>1. n \in Nat /\ DOMAIN log = 1 .. n
      BY Logged
  <1>2. m \in Nat /\ DOMAIN rows = 1 .. m /\ m >= 1 /\ rows \in Seq(Range(rows))
      BY OfSeq DEF IsAdded
  <1>3. base \in Seq(Range(base)) /\ Len(base) = n
      BY <1>1, InSeq
  <1>4. /\ base \o rows \in Seq(Range(base \o rows))
        /\ DOMAIN (base \o rows) = 1 .. n + m
        /\ \A i \in 1 .. n : (base \o rows)[i] = base[i]
        /\ \A k \in 1 .. m : (base \o rows)[n + k] = rows[k]
    <2>1. DOMAIN (base \o rows) = 1 .. Len(base) + Len(rows)
        BY <1>2, <1>3, Joined
    <2>2. \A i \in 1 .. Len(base) : (base \o rows)[i] = base[i]
        BY <1>2, <1>3, Joined
    <2>3. \A i \in 1 .. Len(rows) : (base \o rows)[Len(base) + i] = rows[i]
        BY <1>2, <1>3, Joined
    <2>4. base \o rows \in Seq(Range(base \o rows))
        BY <1>2, <1>3, Joined
    <2> QED
        BY <2>1, <2>2, <2>3, <2>4, <1>3
  <1>5. /\ log' \in Seq(Range(log')) /\ DOMAIN log' = 1 .. n + m
        /\ \A i \in 1 .. n : log'[i] = base[i]
        /\ \A k \in 1 .. m : log'[n + k] = rows[k]
      BY <1>4
  <1>5a. Len(log') = n + m
    <2>1. Len(log') \in Nat /\ DOMAIN log' = 1 .. Len(log')
        BY <1>5, OfSeq
    <2> QED
        BY <2>1, <1>1, <1>2, <1>5
  <1> HIDE DEF n, m
  <1>6. \A i \in DOMAIN log' \ DOMAIN log : i - n \in 1 .. m /\ i = n + (i - n)
      BY <1>1, <1>2, <1>5
  <1>7. \A i \in DOMAIN log' \ DOMAIN log :
          /\ IsRow(log'[i]) /\ log'[i].tx = n + 1
          /\ (log'[i].kind = "transaction") <=> (i = n + 1)
          /\ \A p \in Parts : log'[i][p] # "erased"
    <2> SUFFICES ASSUME NEW i \in DOMAIN log' \ DOMAIN log
                 PROVE  /\ IsRow(log'[i]) /\ log'[i].tx = n + 1
                        /\ (log'[i].kind = "transaction") <=> (i = n + 1)
                        /\ \A p \in Parts : log'[i][p] # "erased"
        OBVIOUS
    <2>1. i - n \in 1 .. m /\ log'[i] = rows[i - n]
        BY <1>5, <1>6
    <2>2. (i - n = 1) <=> (i = n + 1)
        BY <2>1, <1>1, <1>2, <1>6
    <2> QED
        BY <2>1, <2>2, <1>2 DEF IsAdded, n
  <1>8. \A i \in DOMAIN log : i \in DOMAIN log' /\ log'[i] = base[i] /\ Version(log[i], log'[i])
      BY <1>1, <1>2, <1>5
  <1>9. Extends(log, log')
      BY <1>1, <1>7, <1>8 DEF Extends
  <1>10. Log'
    <2> SUFFICES ASSUME NEW i \in DOMAIN log'
                 PROVE  /\ IsRow(log'[i])
                        /\ log'[i].tx \in 1 .. i /\ log'[log'[i].tx].kind = "transaction"
                        /\ (log'[i].kind = "transaction") <=> (log'[i].tx = i)
        BY <1>5 DEF Log
    <2>1. CASE i \in DOMAIN log
      <3>1. log'[i].tx = log[i].tx /\ log'[i].kind = log[i].kind /\ IsRow(log'[i])
          BY <2>1, <1>8, FixedFields DEF Version
      <3>2. log[i].tx \in 1 .. i /\ log[i].tx \in DOMAIN log
          BY <2>1, <1>1 DEF Log
      <3>3. log'[log[i].tx].kind = log[log[i].tx].kind
          BY <3>2, <1>8, FixedFields
      <3> QED
          BY <2>1, <3>1, <3>2, <3>3 DEF Log
    <2>2. CASE i \notin DOMAIN log
      <3>1. n + 1 \in DOMAIN log' \ DOMAIN log /\ i >= n + 1 /\ i \in Nat
          BY <2>2, <1>1, <1>2, <1>5, <1>6
      <3> QED
          BY <2>2, <3>1, <1>1, <1>7
    <2> QED
        BY <2>1, <2>2
  <1>11. \A k \in 1 .. m : n + k \in DOMAIN log' \ DOMAIN log /\ log'[n + k] = rows[k]
      BY <1>1, <1>2, <1>5
  <1>12. ASSUME NEW k, Ends(k) PROVE Ends(k)'
    <2>1. k \in 0 .. n /\ k \in Nat /\ k <= n
        BY <1>1, <1>12 DEF Ends, n
    <2>2. k \in 0 .. Len(log')
        BY <2>1, <1>1, <1>2, <1>5a
    <2>3. ASSUME NEW i \in DOMAIN log', i > k PROVE log'[i].tx > k
      <3>1. CASE i \in DOMAIN log
          BY <2>3, <3>1, <1>8, <1>12, FixedFields DEF Ends
      <3>2. CASE i \notin DOMAIN log
          BY <2>1, <3>2, <1>1, <1>7
      <3> QED
          BY <3>1, <3>2
    <2> QED
        BY <2>2, <2>3 DEF Ends
  <1> QED
      BY <1>2, <1>7, <1>8, <1>9, <1>10, <1>11, <1>12 DEF n, m

-----------------------------------------------------------------------------
(* The calls.                                                              *)

LEMMA StepsOf ==
  ASSUME NEW c \in Calls, Made(c), call[c].at # "idle"
  PROVE  /\ call[c].op \in Operations
         /\ Finishes(c) \subseteq All(call[c].op) /\ Finishes(c) \subseteq Steps
         /\ call[c].at \in {"scan", "update"} => Statement(c) \in Steps /\ Statement(c) \in All(call[c].op)
         /\ call[c].at \in {"record", "done"} => Finishes(c) = All(call[c].op)
  <1> DEFINE o == call[c].op
             n == Len(Statements(o))
             k == call[c].next
  <1>1. /\ o \in Operations /\ k \in Nat /\ k >= 1
        /\ call[c].at \in {"scan", "update"} => k <= n
        /\ call[c].at \in {"record", "done"} => k = n + 1
        /\ call[c].at \in {"scan", "update", "record", "done"}
      BY DEF Made
  <1> HIDE DEF o, k
  <1>2. n \in Nat /\ All(o) \subseteq Steps /\ \A j \in 1 .. n : Statements(o)[j] \in All(o)
    <2>1. n \in {1, 2}
        BY <1>1, StatementsAre
    <2>2. All(o) \subseteq Steps /\ \A j \in 1 .. n : Statements(o)[j] \in All(o)
        BY <1>1, StatementsAre
    <2> QED
        BY <2>1, <2>2
  <1>3. Finishes(c) = {Statements(o)[j] : j \in 1 .. k - 1}
      BY DEF Finishes, o, k
  <1> HIDE DEF n
  <1>4. \A j \in 1 .. k - 1 : j \in 1 .. n
      BY <1>1, <1>2
  <1>5. Finishes(c) \subseteq All(o)
      BY <1>2, <1>3, <1>4
  <1>6. call[c].at \in {"scan", "update"} => k \in 1 .. n
      BY <1>1, <1>2
  <1>7. Statement(c) = Statements(o)[k]
      BY DEF Statement, o, k
  <1>8. call[c].at \in {"record", "done"} => k - 1 = n
      BY <1>1, <1>2
  <1>9. call[c].at \in {"record", "done"} => Finishes(c) = All(o)
      BY <1>3, <1>8 DEF All, n
  <1> QED
      BY <1>1, <1>2, <1>5, <1>6, <1>7, <1>9 DEF o

\* A call that stands still while others go on.
LEMMA StandsStill ==
  ASSUME Log, Log', Extends(log, log'), \A n : Ends(n) => Ends(n)',
         NEW c \in Calls, CallInv(c), call'[c] = call[c],
         \A i \in DOMAIN call[c].writes : log'[i] = log[i]
  PROVE  Made(c)' /\ Writes(c)' /\ Snapshot(c)' /\ Progress(c)' /\ Record(c)'
  <1>1. Made(c)'
      BY DEF CallInv, Made
  <1>2. \A i \in DOMAIN log, s \in Steps :
          Concerns(call[c].op, s, log', i) <=> Concerns(call[c].op, s, log, i)
      BY ConcernsSame
  <1>3. DOMAIN log \subseteq DOMAIN log'
      BY DEF Extends
  <1>4. call[c].at # "idle" => All(call[c].op) \subseteq Steps
      BY StatementsAre DEF CallInv, Made
  <1>5. Writes(c)'
    <2>1. ASSUME NEW i \in DOMAIN call[c].writes, NEW p \in Parts, call[c].writes[i][p] # log[i][p]
          PROVE  Asked(c, i, p)'
      <3>1. i \in DOMAIN log /\ Asked(c, i, p)
          BY <2>1 DEF CallInv, Writes
      <3>2. call[c].at # "idle"
          BY <2>1 DEF CallInv, Writes
      <3> QED
          BY <3>1, <3>2, <1>2, <1>4 DEF Asked
    <2> QED
        BY <2>1, <1>3 DEF CallInv, Writes
  <1>6. Sees(c)' = [i \in DOMAIN log' |-> IF i \in DOMAIN call[c].writes
                                          THEN call[c].writes[i] ELSE log'[i]]
      BY DEF Sees
  <1>7. /\ DOMAIN Sees(c) = DOMAIN log
        /\ \A i \in DOMAIN log : Sees(c)[i] = IF i \in DOMAIN call[c].writes
                                              THEN call[c].writes[i] ELSE log[i]
        /\ Extends(log, Sees(c))
      BY SeesLater DEF CallInv
  <1>8. Extends(Sees(c), Sees(c)')
    <2>1. ASSUME NEW i \in DOMAIN log PROVE Version(Sees(c)[i], Sees(c)'[i])
      <3>1. CASE i \in DOMAIN call[c].writes
          BY <2>1, <3>1, <1>3, <1>6, <1>7, SameVersion DEF Extends, Version
      <3>2. CASE i \notin DOMAIN call[c].writes
          BY <2>1, <3>2, <1>3, <1>6, <1>7 DEF Extends
      <3> QED
          BY <3>1, <3>2
    <2>2. ASSUME NEW i \in DOMAIN log' \ DOMAIN log PROVE Sees(c)'[i].tx \notin DOMAIN log
        BY <2>2, <1>6 DEF CallInv, Writes, Extends
    <2> QED
        BY <2>1, <2>2, <1>3, <1>6, <1>7 DEF Extends
  <1>9. Snapshot(c)'
    <2> SUFFICES ASSUME call[c].at = "update" PROVE Snapshot(c)'
        BY DEF Snapshot
    <2>1. Extends(call[c].seen, Sees(c))'
        BY <1>8, ExtendsFurther DEF CallInv, Snapshot
    <2>2. Statement(c)' = Statement(c)
        BY DEF Statement
    <2> QED
        BY <2>1, <2>2 DEF CallInv, Snapshot
  <1>10. Progress(c)'
    <2> SUFFICES ASSUME call[c].at # "idle" PROVE Progress(c)'
        BY DEF Progress
    <2>1. 1 .. call[c].start \subseteq DOMAIN Sees(c)
        BY <1>7, Logged DEF CallInv, Made, Ends
    <2>2. Statement(c)' = Statement(c) /\ Finishes(c)' = Finishes(c)
        BY DEF Statement, Finishes
    <2>3. Finishes(c) \subseteq Steps /\ (call[c].at = "update" => Statement(c) \in Steps)
        BY StepsOf DEF CallInv
    <2>4. ASSUME NEW s \in Steps, NEW i \in 1 .. call[c].start, Clean(call[c].op, s, Sees(c), i)
          PROVE  Clean(call[c].op, s, Sees(c)', i)
        BY <2>1, <2>4, <1>8, CleanStays
    <2>5. \A s \in Finishes(c) : \A i \in 1 .. call[c].start : Clean(call[c].op, s, Sees(c)', i)
        BY <2>3, <2>4 DEF CallInv, Progress
    <2>6. call[c].at = "update" =>
            \A i \in 1 .. call[c].start :
              Clean(call[c].op, Statement(c), Sees(c)', i) \/ i \in call[c].todo
        BY <2>3, <2>4 DEF CallInv, Progress
    <2> QED
        BY <2>2, <2>5, <2>6 DEF Progress, Clean
  <1>11. Record(c)'
    <2> SUFFICES ASSUME call[c].at = "done", NEW i \in {call[c].record, call[c].record + 1}
                 PROVE  i \in DOMAIN log' /\ \A s \in All(call[c].op) : Clean(call[c].op, s, log', i)
        BY DEF Record, Clean
    <2>1. i \in DOMAIN log /\ \A s \in All(call[c].op) : Clean(call[c].op, s, log, i)
        BY DEF CallInv, Record
    <2> QED
        BY <2>1, <1>3, <1>4, CleanStays
  <1> QED
      BY <1>1, <1>5, <1>9, <1>10, <1>11

\* What a call was asked about does not change.
LEMMA AskedStays ==
  ASSUME Log, NEW c \in Calls, Made(c), call[c].at # "idle", call'[c].op = call[c].op,
         Extends(log, log'), NEW i \in DOMAIN log, NEW p \in Parts
  PROVE  Asked(c, i, p)' <=> Asked(c, i, p)
  <1>1. All(call[c].op) \subseteq Steps
      BY StatementsAre DEF Made
  <1>2. \A s \in All(call[c].op) :
          Concerns(call[c].op, s, log', i) <=> Concerns(call[c].op, s, log, i)
      BY <1>1, ConcernsSame
  <1> QED
      BY <1>2 DEF Asked

\* What was erased was asked for, and stays so.
LEMMA ErasuresStay ==
  ASSUME Log, \A c \in Calls : Made(c), Extends(log, log'), Finished \subseteq Finished',
         \A c \in Finished : call'[c].op = call[c].op,
         NEW i \in DOMAIN log, NEW p \in Parts, \E c \in Finished : Asked(c, i, p)
  PROVE  (\E c \in Finished : Asked(c, i, p))'
  <1>1. PICK c \in Finished : Asked(c, i, p)
      OBVIOUS
  <1>2. All(call[c].op) \subseteq Steps
      BY StatementsAre DEF Finished, Made
  <1>3. Asked(c, i, p)'
      BY <1>1, <1>2, ConcernsSame DEF Asked
  <1> QED
      BY <1>1, <1>3

-----------------------------------------------------------------------------
(* The steps of Scrub.                                                     *)

\* A step of one call that leaves the log alone.
LEMMA MineKeeps ==
  ASSUME ScrubInv, NEW c \in Calls, UNCHANGED <<log, requests>>,
         NEW x, call' = [call EXCEPT ![c] = x], call[c].at # "done", x.at # "done",
         Made(c)', Writes(c)', Snapshot(c)', Progress(c)',
         \A i \in DOMAIN x.writes : i \in DOMAIN call[c].writes \/ ~Locked(c, i)
  PROVE  ScrubInv'
  <1>1. DOMAIN call' = Calls /\ call'[c] = x /\ \A d \in Calls : d # c => call'[d] = call[d]
      BY DEF ScrubInv
  <1>2. Finished' = Finished
      BY <1>1 DEF Finished
  <1>3. Apart(c)'
      BY <1>1 DEF ScrubInv, CallInv, Apart, Locked
  <1>4. Record(c)'
      BY <1>1 DEF Record
  <1>5. ASSUME NEW d \in Calls, d # c PROVE CallInv(d)'
    <2>1. call'[d] = call[d] /\ CallInv(d) /\ Log /\ Log'
        BY <1>1, <1>5 DEF ScrubInv, Log
    <2>2. Extends(log, log') /\ \A n : Ends(n) => Ends(n)'
        BY <2>1, Logged DEF Ends
    <2>3. Made(d)' /\ Writes(d)' /\ Snapshot(d)' /\ Progress(d)' /\ Record(d)'
        BY <2>1, <2>2, StandsStill
    <2>4. Apart(d)'
        BY <1>1, <1>5, <2>1 DEF ScrubInv, CallInv, Apart, Locked
    <2> QED
        BY <2>3, <2>4 DEF CallInv
  <1>6. Erasures'
    <2> SUFFICES ASSUME NEW i \in DOMAIN log', NEW p \in Parts, log'[i][p] = "erased"
                 PROVE  (\E d \in Finished : Asked(d, i, p))'
        BY DEF Erasures
    <2>1. \A d \in Finished : call'[d] = call[d]
        BY <1>1 DEF Finished
    <2>2. i \in DOMAIN log /\ \E d \in Finished : Asked(d, i, p)
        BY DEF ScrubInv, Erasures
    <2>3. Extends(log, log')
        BY Logged DEF ScrubInv
    <2> QED
        BY <1>2, <2>1, <2>2, <2>3, ErasuresStay DEF ScrubInv, CallInv
  <1>7. Log'
      BY DEF ScrubInv, Log
  <1> QED
      BY <1>1, <1>3, <1>4, <1>5, <1>6, <1>7 DEF ScrubInv, CallInv

LEMMA ScrubInit == Init => ScrubInv
  <1> SUFFICES ASSUME Init PROVE ScrubInv
      OBVIOUS
  <1>1. log = <<>> /\ requests = 0 /\ call = [c \in Calls |-> Idle]
      BY DEF Init
  <1>2. log \in Seq(Range(log)) /\ DOMAIN log = {} /\ DOMAIN (<<>>) = {}
      BY <1>1, EmptySeq
  <1>3. Log
      BY <1>2 DEF Log
  <1>4. ASSUME NEW c \in Calls PROVE CallInv(c)
    <2>1. call[c] = Idle
        BY <1>1
    <2>2. /\ DOMAIN Idle = CallFields /\ Idle.at = "idle" /\ Idle.next = 1
          /\ DOMAIN Idle.writes = {}
        BY <1>2 DEF Idle, CallFields
    <2> QED
        BY <2>1, <2>2, <1>1 DEF CallInv, Made, Writes, Apart, Snapshot, Progress, Record
  <1> QED
      BY <1>1, <1>2, <1>3, <1>4, MaxRequestsAssumption DEF ScrubInv, Erasures

LEMMA RequestKeeps ==
  ASSUME ScrubInv, Request
  PROVE  ScrubInv' /\ Extends(log, log')
  <1>1. PICK q \in Requests : log' = log \o RowsOf(Len(log) + 1, q.actor, "kept", q.entries)
      BY DEF Request
  <1> DEFINE rows == RowsOf(Len(log) + 1, q.actor, "kept", q.entries)
  <1>2. /\ requests' \in 0 .. MaxRequests /\ call' = call
      BY MaxRequestsAssumption DEF Request, ScrubInv
  <1>3. IsAdded(rows, Len(log) + 1)
    <2>1. Len(log) + 1 \in Nat
        BY Logged DEF ScrubInv
    <2>2. \A k \in DOMAIN q.entries : q.entries[k].at \in Nat /\ q.entries[k].system \in BOOLEAN
        BY RequestsAssumption
    <2>3. q.entries \in Seq(Range(q.entries))
        BY RequestsAssumption
    <2> QED
        BY <2>1, <2>2, <2>3, RowsAdded DEF AddsFor
  <1> HIDE DEF rows
  <1>4. log = [i \in DOMAIN log |-> log[i]] /\ \A i \in DOMAIN log : Version(log[i], log[i])
    <2>1. log \in Seq(Range(log))
        BY DEF ScrubInv, Log
    <2> QED
        BY <2>1, Logged, LenProperties DEF ScrubInv
  <1>5. /\ Log' /\ Extends(log, log') /\ \A n : Ends(n) => Ends(n)'
        /\ \A i \in DOMAIN log : log'[i] = log[i]
        /\ \A i \in DOMAIN log' \ DOMAIN log : \A p \in Parts : log'[i][p] # "erased"
    <2>1. Log /\ IsAdded(rows, Len(log) + 1) /\ log' = log \o rows
        BY <1>1, <1>3 DEF ScrubInv, rows
    <2>2. Log' /\ Extends(log, log') /\ \A n : Ends(n) => Ends(n)'
        BY <2>1, <1>4, Grown
    <2>3. \A i \in DOMAIN log : log'[i] = log[i]
        BY <2>1, <1>4, Grown
    <2>4. \A i \in DOMAIN log' \ DOMAIN log :
            \A p \in Parts : log'[i].tx = Len(log) + 1 /\ log'[i][p] # "erased"
        BY <2>1, <1>4, Grown
    <2> QED
        BY <2>2, <2>3, <2>4
  <1>6. ASSUME NEW c \in Calls PROVE CallInv(c)'
    <2>1. Made(c)' /\ Writes(c)' /\ Snapshot(c)' /\ Progress(c)' /\ Record(c)'
        BY <1>2, <1>5, StandsStill DEF ScrubInv, CallInv, Writes
    <2>2. Apart(c)'
        BY <1>2 DEF ScrubInv, CallInv, Apart
    <2> QED
        BY <2>1, <2>2 DEF CallInv
  <1>7. Erasures'
    <2> SUFFICES ASSUME NEW i \in DOMAIN log', NEW p \in Parts, log'[i][p] = "erased"
                 PROVE  (\E c \in Finished : Asked(c, i, p))'
        BY DEF Erasures
    <2>1. i \in DOMAIN log /\ log[i][p] = "erased"
        BY <1>5
    <2>2. \E c \in Finished : Asked(c, i, p)
        BY <2>1 DEF ScrubInv, Erasures
    <2>3. Finished \subseteq Finished'
        BY <1>2 DEF Finished
    <2> QED
        BY <2>1, <2>2, <2>3, <1>2, <1>5, ErasuresStay DEF ScrubInv, CallInv
  <1> QED
      BY <1>2, <1>5, <1>6, <1>7 DEF ScrubInv

LEMMA StartKeeps ==
  ASSUME ScrubInv, NEW c \in Calls, Start(c)
  PROVE  ScrubInv'
  <1>1. PICK o \in Operations, by \in Operators :
          call' = [call EXCEPT ![c] = [Idle EXCEPT !.at = "scan", !.op = o,
                                                   !.by = by, !.start = Len(log)]]
      BY DEF Start
  <1> DEFINE x == [Idle EXCEPT !.at = "scan", !.op = o, !.by = by, !.start = Len(log)]
  <1>2. call[c].at = "idle" /\ UNCHANGED <<log, requests>>
      BY DEF Start
  <1>3. /\ DOMAIN x = CallFields /\ x.at = "scan" /\ x.op = o /\ x.start = Len(log)
        /\ x.next = 1 /\ DOMAIN x.writes = {}
    <2>1. DOMAIN (<<>>) = {}
        BY EmptySeq
    <2> QED
        BY <2>1 DEF Idle, CallFields
  <1> HIDE DEF x
  <1>4. call' = [call EXCEPT ![c] = x] /\ call'[c] = x
      BY <1>1 DEF ScrubInv, x
  <1>5. Made(c)'
    <2>1. Ends(Len(log))'
        BY <1>2, Logged DEF ScrubInv, Ends
    <2>2. 1 <= Len(Statements(o))
        BY StatementsAre
    <2> QED
        BY <1>2, <1>3, <1>4, <2>1, <2>2 DEF Made
  <1>6. Writes(c)' /\ Snapshot(c)'
      BY <1>3, <1>4 DEF Writes, Snapshot
  <1>7. Progress(c)'
    <2>1. 1 .. call'[c].next - 1 = {}
        BY <1>3, <1>4
    <2>2. Finishes(c)' = {}
        BY <2>1 DEF Finishes
    <2> QED
        BY <1>3, <1>4, <2>2 DEF Progress
  <1> QED
      BY <1>2, <1>3, <1>4, <1>5, <1>6, <1>7, MineKeeps

LEMMA FailKeeps ==
  ASSUME ScrubInv, NEW c \in Calls, Fail(c)
  PROVE  ScrubInv'
  <1>1. /\ call[c].at # "done" /\ UNCHANGED <<log, requests>>
        /\ call' = [call EXCEPT ![c] = Idle] /\ call'[c] = Idle
      BY DEF Fail, ScrubInv
  <1>2. /\ DOMAIN Idle = CallFields /\ Idle.at = "idle" /\ Idle.next = 1 /\ DOMAIN Idle.writes = {}
    <2>1. DOMAIN (<<>>) = {}
        BY EmptySeq
    <2> QED
        BY <2>1 DEF Idle, CallFields
  <1>3. Made(c)' /\ Writes(c)' /\ Snapshot(c)' /\ Progress(c)'
      BY <1>1, <1>2 DEF Made, Writes, Snapshot, Progress
  <1> QED
      BY <1>1, <1>2, <1>3, MineKeeps

LEMMA ScanKeeps ==
  ASSUME ScrubInv, NEW c \in Calls, Scan(c)
  PROVE  ScrubInv'
  <1> DEFINE todo == {i \in DOMAIN log : Matches(call[c].op, Statement(c), Sees(c), i)}
             x == [call[c] EXCEPT !.at = "update", !.seen = Sees(c), !.todo = todo]
  <1>1. /\ call[c].at = "scan" /\ UNCHANGED <<log, requests>>
        /\ call' = [call EXCEPT ![c] = x]
      BY DEF Scan
  <1>2. CallInv(c) /\ Log /\ DOMAIN call[c] = CallFields
      BY DEF ScrubInv, CallInv, Made
  <1>3. /\ DOMAIN x = CallFields /\ x.at = "update" /\ x.seen = Sees(c) /\ x.todo = todo
        /\ x.op = call[c].op /\ x.start = call[c].start /\ x.next = call[c].next
        /\ x.writes = call[c].writes
      BY <1>2 DEF CallFields
  <1> HIDE DEF x, todo
  <1>4. call'[c] = x
      BY <1>1 DEF ScrubInv
  <1>5. /\ Sees(c)' = Sees(c) /\ Statement(c)' = Statement(c) /\ Finishes(c)' = Finishes(c)
      BY <1>1, <1>3, <1>4 DEF Sees, Statement, Finishes
  <1>6. Made(c)'
      BY <1>1, <1>2, <1>3, <1>4 DEF CallInv, Made, Ends
  <1>7. Writes(c)'
    <2>1. \A i \in DOMAIN log, p \in Parts : Asked(c, i, p)' <=> Asked(c, i, p)
        BY <1>1, <1>2, <1>3, <1>4, AskedStays, Logged DEF CallInv
    <2> QED
        BY <1>1, <1>2, <1>3, <1>4, <2>1 DEF CallInv, Writes
  <1>8. DOMAIN Sees(c) = DOMAIN log /\ Extends(log, Sees(c))
      BY <1>2, SeesLater DEF CallInv
  <1>9. Snapshot(c)'
    <2>1. Extends(Sees(c), Sees(c))
        BY <1>8, SameVersion DEF Extends, Version
    <2>2. 1 .. call[c].start \subseteq DOMAIN log
        BY <1>1, <1>2, Logged DEF CallInv, Made, Ends
    <2>3. \A i \in todo : i \in DOMAIN log /\ Concerns(call[c].op, Statement(c), Sees(c), i)
        BY DEF todo, Matches
    <2> QED
        BY <1>3, <1>4, <1>5, <1>8, <2>1, <2>2, <2>3 DEF Snapshot
  <1>10. Progress(c)'
    <2>1. \A s \in Finishes(c) : \A i \in 1 .. call[c].start : Clean(call[c].op, s, Sees(c), i)
        BY <1>1, <1>2 DEF CallInv, Progress
    <2>2. \A i \in 1 .. call[c].start : Clean(call[c].op, Statement(c), Sees(c), i) \/ i \in todo
      <3>1. \A i \in 1 .. call[c].start : i \in DOMAIN log
          BY <1>1, <1>2, Logged DEF CallInv, Made, Ends
      <3> QED
          BY <3>1 DEF Clean, todo, Matches
    <2> QED
        BY <1>3, <1>4, <1>5, <2>1, <2>2 DEF Progress, Clean
  <1> QED
      BY <1>1, <1>3, <1>4, <1>6, <1>7, <1>9, <1>10, MineKeeps

LEMMA UpdateKeeps ==
  ASSUME ScrubInv, NEW c \in Calls, Update(c)
  PROVE  ScrubInv'
  <1> DEFINE s == Statement(c)
             o == call[c].op
  <1>1. PICK i \in call[c].todo :
          /\ ~Locked(c, i)
          /\ LET x == call[c] IN
               call' = [call EXCEPT ![c] = [x EXCEPT
                 !.todo = x.todo \ {i},
                 !.writes = IF StillMatches(c, i)
                            THEN [j \in DOMAIN x.writes \cup {i} |->
                                    IF j = i THEN Erased(Newest(c, i), Statement(c))
                                    ELSE x.writes[j]]
                            ELSE x.writes,
                 !.count = IF StillMatches(c, i) THEN x.count + 1 ELSE x.count]]
      BY DEF Update
  <1> DEFINE old == call[c].writes
             new == [j \in DOMAIN old \cup {i} |-> IF j = i THEN Erased(Sees(c)[i], s) ELSE old[j]]
             writes == IF StillMatches(c, i) THEN new ELSE old
             x == [call[c] EXCEPT !.todo = call[c].todo \ {i}, !.writes = writes,
                     !.count = IF StillMatches(c, i) THEN call[c].count + 1 ELSE call[c].count]
  <1>2. /\ call[c].at = "update" /\ UNCHANGED <<log, requests>>
        /\ call' = [call EXCEPT ![c] = x]
      BY <1>1 DEF Update, Newest
  <1>3. CallInv(c) /\ Log /\ DOMAIN call[c] = CallFields
      BY DEF ScrubInv, CallInv, Made
  <1>4. /\ DOMAIN x = CallFields /\ x.at = "update" /\ x.seen = call[c].seen
        /\ x.todo = call[c].todo \ {i} /\ x.writes = writes
        /\ x.op = o /\ x.start = call[c].start /\ x.next = call[c].next
      BY <1>2, <1>3 DEF CallFields
  <1> HIDE DEF x
  <1>5. call'[c] = x
      BY <1>2 DEF ScrubInv
  <1>6. s \in Steps /\ s \in All(o) /\ Finishes(c) \subseteq Steps
      BY <1>2, <1>3, StepsOf DEF CallInv
  <1>7. /\ DOMAIN Sees(c) = DOMAIN log /\ Extends(log, Sees(c))
        /\ \A j \in DOMAIN log : Sees(c)[j] = IF j \in DOMAIN old THEN old[j] ELSE log[j]
      BY <1>3, SeesLater DEF CallInv
  <1>8. /\ Extends(call[c].seen, Sees(c)) /\ i \in DOMAIN call[c].seen
        /\ Concerns(o, s, call[c].seen, i) /\ 1 .. call[c].start \subseteq DOMAIN call[c].seen
      BY <1>1, <1>2, <1>3 DEF CallInv, Snapshot
  <1>9. i \in DOMAIN log /\ IsRow(Sees(c)[i])
      BY <1>7, <1>8 DEF Extends, Version
  <1>10. Concerns(o, s, log, i)
    <2>1. Concerns(o, s, Sees(c), i)
        BY <1>6, <1>8, ConcernsSame
    <2> QED
        BY <2>1, <1>6, <1>7, <1>9, ConcernsSame
  <1>11. StillMatches(c, i) <=> Holds(Sees(c)[i], s)
      BY <1>8 DEF StillMatches, Newest
  <1>12. /\ Statement(c)' = s /\ Finishes(c)' = Finishes(c) /\ x.writes = writes
         /\ Sees(c)' = [j \in DOMAIN log |-> IF j \in DOMAIN writes THEN writes[j] ELSE log[j]]
      BY <1>2, <1>4, <1>5 DEF Sees, Statement, Finishes
  <1> HIDE DEF s, o, old
  <1>13. /\ DOMAIN writes \subseteq DOMAIN old \cup {i}
         /\ \A j \in DOMAIN old : j # i => writes[j] = old[j] /\ j \in DOMAIN writes
         /\ Holds(Sees(c)[i], s) => i \in DOMAIN writes /\ writes[i] = Erased(Sees(c)[i], s)
         /\ ~Holds(Sees(c)[i], s) => writes = old
    <2>1. CASE StillMatches(c, i)
        BY <2>1, <1>11
    <2>2. CASE ~StillMatches(c, i)
        BY <2>2, <1>11
    <2> QED
        BY <2>1, <2>2
  <1> HIDE DEF writes, new
  <1>14. /\ Version(Sees(c)[i], Sees(c)'[i]) /\ ~Holds(Sees(c)'[i], s)
         /\ \A p \in Parts : Sees(c)'[i][p] # Sees(c)[i][p] => p = Part(s)
         /\ \A j \in DOMAIN log : j # i => Sees(c)'[j] = Sees(c)[j]
    <2>1. CASE Holds(Sees(c)[i], s)
        BY <2>1, <1>6, <1>7, <1>9, <1>12, <1>13, RowErased
    <2>2. CASE ~Holds(Sees(c)[i], s)
        BY <2>2, <1>7, <1>9, <1>12, <1>13, SameVersion
    <2>3. \A j \in DOMAIN log : j # i => Sees(c)'[j] = Sees(c)[j]
        BY <1>7, <1>12, <1>13
    <2> QED
        BY <2>1, <2>2, <2>3
  <1>15. Extends(Sees(c), Sees(c)')
    <2>1. DOMAIN Sees(c)' = DOMAIN Sees(c)
        BY <1>7, <1>12
    <2>2. \A j \in DOMAIN log : IsRow(Sees(c)[j])
        BY <1>7 DEF Extends, Version
    <2>3. \A j \in DOMAIN log : Version(Sees(c)[j], Sees(c)'[j])
        BY <2>2, <1>14, SameVersion
    <2> QED
        BY <2>1, <2>3, <1>7 DEF Extends
  <1>16. Made(c)'
      BY <1>2, <1>3, <1>4, <1>5 DEF CallInv, Made, Ends, o
  <1>17. Writes(c)'
    <2>1. \A q \in Parts, j \in DOMAIN log : Asked(c, j, q)' <=> Asked(c, j, q)
        BY <1>2, <1>3, <1>4, <1>5, AskedStays, Logged DEF CallInv, o
    <2>2. DOMAIN writes \subseteq DOMAIN log
        BY <1>3, <1>9, <1>13 DEF CallInv, Writes, old
    <2>3. ASSUME NEW j \in DOMAIN writes
          PROVE  /\ Version(log[j], writes[j])
                 /\ \A q \in Parts : writes[j][q] # log[j][q] => Asked(c, j, q)
      <3>1. j \in DOMAIN log /\ writes[j] = Sees(c)'[j]
          BY <2>2, <2>3, <1>12
      <3>2. /\ Version(log[j], Sees(c)[j])
            /\ \A q \in Parts : Sees(c)[j][q] # log[j][q] => Asked(c, j, q)
          BY <3>1, <1>3, <1>7 DEF CallInv, Writes, Extends, old
      <3>3. CASE j = i
        <4>1. Version(log[j], writes[j])
            BY <3>1, <3>2, <3>3, <1>14, LaterVersion
        <4>2. Asked(c, i, Part(s))
            BY <1>6, <1>10 DEF Asked, o
        <4> QED
            BY <3>1, <3>2, <3>3, <4>1, <4>2, <1>14
      <3>4. CASE j # i
          BY <3>1, <3>2, <3>4, <1>14
      <3> QED
          BY <3>3, <3>4
    <2> QED
        BY <2>1, <2>2, <2>3, <1>2, <1>4, <1>5 DEF Writes
  <1>18. Snapshot(c)'
    <2>1. Extends(call[c].seen, Sees(c)')
        BY <1>8, <1>15, ExtendsFurther
    <2>2. \A j \in call[c].todo : j \in DOMAIN call[c].seen /\ Concerns(o, s, call[c].seen, j)
        BY <1>2, <1>3 DEF CallInv, Snapshot, o, s
    <2> QED
        BY <2>1, <2>2, <1>4, <1>5, <1>8, <1>12 DEF Snapshot
  <1>19. Progress(c)'
    <2>1. 1 .. call[c].start \subseteq DOMAIN Sees(c)
        BY <1>8 DEF Extends
    <2>2. \A t \in Finishes(c) : \A j \in 1 .. call[c].start : Clean(o, t, Sees(c)', j)
        BY <2>1, <1>2, <1>3, <1>6, <1>15, CleanStays DEF CallInv, Progress, o
    <2>3. \A j \in 1 .. call[c].start : Clean(o, s, Sees(c)', j) \/ j \in call[c].todo \ {i}
      <3> SUFFICES ASSUME NEW j \in 1 .. call[c].start, j = i \/ j \notin call[c].todo
                   PROVE  Clean(o, s, Sees(c)', j)
          OBVIOUS
      <3>1. CASE j = i
          BY <3>1, <1>14 DEF Clean
      <3>2. CASE j # i
        <4>1. Clean(o, s, Sees(c), j)
            BY <3>2, <1>2, <1>3 DEF CallInv, Progress, o, s
        <4> QED
            BY <4>1, <2>1, <1>6, <1>15, CleanStays
      <3> QED
          BY <3>1, <3>2
    <2> QED
        BY <2>2, <2>3, <1>4, <1>5, <1>12 DEF Progress, Clean
  <1>20. \A j \in DOMAIN x.writes : j \in DOMAIN call[c].writes \/ ~Locked(c, j)
      BY <1>1, <1>4, <1>13 DEF old
  <1> QED
      BY <1>2, <1>4, <1>16, <1>17, <1>18, <1>19, <1>20, MineKeeps

LEMMA StatementEndsKeeps ==
  ASSUME ScrubInv, NEW c \in Calls, StatementEnds(c)
  PROVE  ScrubInv'
  <1> DEFINE o == call[c].op
             n == Len(Statements(o))
             k == call[c].next
             at == IF k = n THEN "record" ELSE "scan"
             x == [call[c] EXCEPT !.seen = <<>>, !.next = k + 1, !.at = at]
  <1>1. /\ call[c].at = "update" /\ call[c].todo = {} /\ UNCHANGED <<log, requests>>
        /\ call' = [call EXCEPT ![c] = x]
      BY DEF StatementEnds
  <1>2. CallInv(c) /\ Log /\ DOMAIN call[c] = CallFields
      BY DEF ScrubInv, CallInv, Made
  <1>3. /\ DOMAIN x = CallFields /\ x.at = at /\ x.next = k + 1
        /\ x.op = o /\ x.start = call[c].start /\ x.writes = call[c].writes
      BY <1>2 DEF CallFields
  <1> HIDE DEF x
  <1>4. call'[c] = x
      BY <1>1 DEF ScrubInv
  <1>5. /\ o \in Operations /\ k \in 1 .. 3 /\ k <= n /\ n \in {1, 2}
        /\ Ends(call[c].start)
      BY <1>1, <1>2, StatementsAre DEF CallInv, Made
  <1>6. Sees(c)' = Sees(c)
      BY <1>1, <1>3, <1>4 DEF Sees
  <1>7. Finishes(c)' = Finishes(c) \cup {Statement(c)}
    <2>1. Finishes(c)' = {Statements(o)[j] : j \in 1 .. (k + 1) - 1}
        BY <1>3, <1>4 DEF Finishes
    <2>2. 1 .. (k + 1) - 1 = (1 .. k - 1) \cup {k}
        BY <1>5
    <2> QED
        BY <2>1, <2>2 DEF Finishes, Statement
  <1> HIDE DEF n, k, at
  <1>8. at \in {"record", "scan"} /\ (at = "record" <=> k = n)
      BY DEF at
  <1>9. Made(c)'
    <2>1. call'[c].next \in 1 .. 3
        BY <1>3, <1>4, <1>5
    <2>2. /\ at = "scan" => k + 1 <= n
          /\ at = "record" => k + 1 = n + 1
        BY <1>5, <1>8
    <2>3. Ends(call[c].start)'
        BY <1>1, <1>3, <1>4, <1>5 DEF Ends
    <2> QED
        BY <1>3, <1>4, <1>5, <1>8, <2>1, <2>2, <2>3 DEF Made, n
  <1>10. Writes(c)'
    <2>1. \A i \in DOMAIN log, p \in Parts : Asked(c, i, p)' <=> Asked(c, i, p)
        BY <1>1, <1>2, <1>3, <1>4, AskedStays, Logged DEF CallInv
    <2> QED
        BY <1>1, <1>2, <1>3, <1>4, <1>8, <2>1 DEF CallInv, Writes
  <1>11. Snapshot(c)'
      BY <1>3, <1>4, <1>8 DEF Snapshot
  <1>12. Progress(c)'
    <2>1. \A s \in Finishes(c) \cup {Statement(c)} :
            \A i \in 1 .. call[c].start : Clean(o, s, Sees(c), i)
        BY <1>1, <1>2 DEF CallInv, Progress
    <2> QED
        BY <2>1, <1>3, <1>4, <1>6, <1>7, <1>8 DEF Progress, Clean
  <1> QED
      BY <1>1, <1>3, <1>4, <1>8, <1>9, <1>10, <1>11, <1>12, MineKeeps

LEMMA CommitKeeps ==
  ASSUME ScrubInv, NEW c \in Calls, Commit(c)
  PROVE  ScrubInv' /\ Extends(log, log')
  <1> DEFINE o == call[c].op
             n == Len(log)
             personal == RecordPersonal(c)
             es == <<RecordEntry(c)>>
             rows == RowsOf(n + 1, call[c].by.actor, personal, es)
             x == [call[c] EXCEPT !.at = "done", !.writes = <<>>, !.record = n + 1]
  <1>1. /\ call[c].at = "record" /\ log' = Sees(c) \o rows
        /\ call' = [call EXCEPT ![c] = x] /\ requests' = requests
      BY DEF Commit
  <1>2. CallInv(c) /\ Log /\ DOMAIN call[c] = CallFields
      BY DEF ScrubInv, CallInv, Made
  <1>3. /\ DOMAIN x = CallFields /\ x.at = "done" /\ x.record = n + 1 /\ DOMAIN x.writes = {}
        /\ x.op = o /\ x.start = call[c].start /\ x.next = call[c].next
    <2>1. DOMAIN (<<>>) = {}
        BY EmptySeq
    <2> QED
        BY <1>2, <2>1 DEF CallFields
  <1> HIDE DEF x
  <1>4. DOMAIN call' = Calls /\ call'[c] = x /\ \A d \in Calls : d # c => call'[d] = call[d]
      BY <1>1 DEF ScrubInv
  <1>5. /\ o \in Operations /\ All(o) \subseteq Steps /\ Finishes(c) = All(o)
        /\ 1 .. call[c].start \subseteq DOMAIN log
    <2>1. o \in Operations /\ Finishes(c) = All(o)
        BY <1>1, <1>2, StepsOf DEF CallInv
    <2>2. 1 .. call[c].start \subseteq DOMAIN log
        BY <1>1, <1>2, Logged DEF CallInv, Made, Ends
    <2> QED
        BY <2>1, <2>2, StatementsAre
  <1>6. /\ DOMAIN Sees(c) = DOMAIN log /\ Extends(log, Sees(c))
        /\ \A i \in DOMAIN log : Sees(c)[i] = IF i \in DOMAIN call[c].writes
                                               THEN call[c].writes[i] ELSE log[i]
      BY <1>2, SeesLater DEF CallInv
  <1>7. n \in Nat /\ n + 1 \in Nat /\ DOMAIN log = 1 .. n
      BY <1>2, Logged
  <1>8. /\ personal \in {"none", "kept"}
        /\ o.kind = "scrub_actor" /\ o.actor = call[c].by.actor => personal = "none"
      BY DEF RecordPersonal
  <1>9. \E e : /\ es = <<e>> /\ e.system = TRUE /\ e.at = 0 /\ e.actor = call[c].by.actor
    <2>1. PICK e : e = RecordEntry(c)
        OBVIOUS
    <2>2. e.system = TRUE /\ e.at = 0 /\ e.actor = call[c].by.actor
        BY <2>1 DEF RecordEntry
    <2> QED
        BY <2>1, <2>2
  <1> HIDE DEF es, personal
  <1>11. /\ IsAdded(rows, n + 1) /\ Len(rows) = 2
         /\ rows[1] = TransactionRow(n + 1, call[c].by.actor, personal)
         /\ rows[2].kind = "entry" /\ rows[2].system = TRUE
         /\ rows[2].actor = call[c].by.actor /\ rows[2].personal = personal
    <2>1. PICK e : es = <<e>> /\ e.system = TRUE /\ e.at = 0 /\ e.actor = call[c].by.actor
        BY <1>9
    <2>2. PICK first \in Nat : first = n + 1
        BY <1>7
    <2>3. IsRecord(rows, first, call[c].by.actor, personal)
        BY <2>1, <2>2, <1>8, RecordAdded
    <2> QED
        BY <2>2, <2>3 DEF IsRecord
  <1> HIDE DEF rows
  <1>12. Sees(c) = [i \in DOMAIN log |-> Sees(c)[i]] /\ \A i \in DOMAIN log : Version(log[i], Sees(c)[i])
      BY <1>6 DEF Sees, Extends
  <1>13. /\ Log' /\ Extends(log, log') /\ \A m : Ends(m) => Ends(m)'
         /\ \A i \in DOMAIN log : log'[i] = Sees(c)[i]
         /\ \A k \in 1 .. Len(rows) : n + k \in DOMAIN log' \ DOMAIN log /\ log'[n + k] = rows[k]
         /\ \A i \in DOMAIN log' \ DOMAIN log :
              \A p \in Parts : log'[i].tx = n + 1 /\ log'[i][p] # "erased"
    <2>1. IsAdded(rows, Len(log) + 1) /\ log' = Sees(c) \o rows /\ DOMAIN Sees(c) = DOMAIN log
        BY <1>1, <1>6, <1>11 DEF n
    <2>2. Log' /\ Extends(log, log') /\ \A m : Ends(m) => Ends(m)'
        BY <2>1, <1>2, <1>12, Grown
    <2>3. \A i \in DOMAIN log : log'[i] = Sees(c)[i]
        BY <2>1, <1>2, <1>12, Grown
    <2>4. \A k \in 1 .. Len(rows) : /\ Len(log) + k \in DOMAIN log' \ DOMAIN log
                                    /\ log'[Len(log) + k] = rows[k]
        BY <2>1, <1>2, <1>12, Grown
    <2>5. \A i \in DOMAIN log' \ DOMAIN log :
            \A p \in Parts : log'[i].tx = Len(log) + 1 /\ log'[i][p] # "erased"
        BY <2>1, <1>2, <1>12, Grown
    <2> QED
        BY <2>2, <2>3, <2>4, <2>5 DEF n
  <1>14. Extends(Sees(c), log')
      BY <1>6, <1>7, <1>13, SameVersion DEF Extends, Version
  <1>15. Made(c)'
      BY <1>1, <1>2, <1>3, <1>4, <1>13 DEF CallInv, Made, o
  <1>16. Writes(c)' /\ Snapshot(c)'
      BY <1>3, <1>4 DEF Writes, Snapshot
  <1>17. Progress(c)'
    <2>1. Finishes(c)' = All(o)
        BY <1>3, <1>4, <1>5 DEF Finishes
    <2>2. \A i \in DOMAIN log' : Sees(c)'[i] = log'[i]
        BY <1>3, <1>4 DEF Sees
    <2>3. DOMAIN Sees(c)' = DOMAIN log'
        BY DEF Sees
    <2>4. Sees(c)' = [i \in DOMAIN log' |-> log'[i]] /\ log' = [i \in DOMAIN log' |-> log'[i]]
      <3>1. Sees(c)' = [i \in DOMAIN log' |-> log'[i]]
          BY <1>3, <1>4 DEF Sees
      <3>2. log' = [i \in DOMAIN log' |-> log'[i]]
          BY <1>13, LenProperties DEF Log
      <3> QED
          BY <3>1, <3>2
    <2>5. \A s \in All(o) : \A i \in 1 .. call[c].start : Clean(o, s, log', i)
      <3> SUFFICES ASSUME NEW s \in All(o), NEW i \in 1 .. call[c].start
                   PROVE  Clean(o, s, log', i)
          OBVIOUS
      <3>1. Clean(o, s, Sees(c), i) /\ i \in DOMAIN Sees(c) /\ s \in Steps
          BY <1>1, <1>2, <1>5, <1>6 DEF CallInv, Progress, o
      <3> QED
          BY <3>1, <1>14, CleanStays
    <2> QED
        BY <2>1, <2>4, <2>5, <1>3, <1>4 DEF Progress, Clean
  <1>18. Record(c)'
    <2>1. 1 \in 1 .. 2 /\ 2 \in 1 .. 2
        OBVIOUS
    <2>2. /\ n + 1 \in DOMAIN log' /\ log'[n + 1] = rows[1]
          /\ n + 2 \in DOMAIN log' /\ log'[n + 2] = rows[2]
        BY <2>1, <1>11, <1>13
    <2> SUFFICES ASSUME NEW i \in {n + 1, n + 2}, NEW s \in All(o)
                 PROVE  Clean(o, s, log', i)
      <3>1. {n + 1, (n + 1) + 1} = {n + 1, n + 2}
          BY <1>7
      <3>2. call'[c].record = n + 1 /\ call'[c].op = o
          BY <1>3, <1>4
      <3>3. \A i \in {n + 1, n + 2} : i \in DOMAIN log' /\ \A s \in All(o) : Clean(o, s, log', i)
          BY <2>2
      <3>4. \A i \in {call'[c].record, call'[c].record + 1} :
              i \in DOMAIN log' /\ \A s \in All(call'[c].op) : Clean(call'[c].op, s, log', i)
          BY <3>1, <3>2, <3>3
      <3> QED
          BY <3>4 DEF Record, Clean, All
    <2>3. /\ o.kind = "scrub" => s = "values"
          /\ o.kind = "scrub_actor" => s \in {"transactions", "context"}
          /\ o.kind \in {"scrub", "scrub_actor"}
        BY <1>5, StatementsAre, OperationsAssumption
    <2>4. CASE i = n + 1
      <3>1. /\ log'[i].kind = "transaction" /\ log'[i].actor = call[c].by.actor
            /\ log'[i].personal = personal
          BY <2>2, <2>4, <1>11 DEF TransactionRow
      <3> QED
          BY <2>2, <2>3, <2>4, <3>1, <1>8 DEF Clean, Concerns, Holds, Part
    <2>5. CASE i = n + 2
      <3>1. /\ log'[i].kind = "entry" /\ log'[i].actor = call[c].by.actor
            /\ log'[i].personal = personal /\ log'[i].system = TRUE
          BY <2>2, <2>5, <1>11
      <3> QED
          BY <2>2, <2>3, <2>5, <3>1, <1>8 DEF Clean, Concerns, Holds, Part
    <2> QED
        BY <2>4, <2>5
  <1>19. Apart(c)'
      BY <1>3, <1>4 DEF Apart
  <1>20. ASSUME NEW d \in Calls, d # c PROVE CallInv(d)'
    <2>1. CallInv(d) /\ call'[d] = call[d]
        BY <1>4, <1>20 DEF ScrubInv
    <2>2. \A i \in DOMAIN call[d].writes : log'[i] = log[i]
        BY <2>1, <1>2, <1>6, <1>13, <1>20 DEF CallInv, Apart, Writes
    <2>3. Made(d)' /\ Writes(d)' /\ Snapshot(d)' /\ Progress(d)' /\ Record(d)'
        BY <2>1, <2>2, <1>2, <1>13, StandsStill
    <2>4. Apart(d)'
        BY <2>1, <1>3, <1>4, <1>20 DEF CallInv, Apart
    <2> QED
        BY <2>3, <2>4 DEF CallInv
  <1>21. Erasures'
    <2> SUFFICES ASSUME NEW i \in DOMAIN log', NEW p \in Parts, log'[i][p] = "erased"
                 PROVE  (\E d \in Finished : Asked(d, i, p))'
        BY DEF Erasures
    <2>1. i \in DOMAIN log /\ Sees(c)[i][p] = "erased"
        BY <1>13
    <2>2. Finished \subseteq Finished' /\ c \in Finished'
        BY <1>3, <1>4 DEF Finished
    <2>3. \A d \in Finished : call'[d].op = call[d].op
        BY <1>1, <1>4 DEF Finished
    <2>4. CASE log[i][p] = "erased"
      <3>1. \E d \in Finished : Asked(d, i, p)
          BY <2>1, <2>4 DEF ScrubInv, Erasures
      <3> QED
          BY <2>1, <2>2, <2>3, <3>1, <1>2, <1>13, ErasuresStay DEF ScrubInv, CallInv
    <2>5. CASE log[i][p] # "erased"
      <3>1. Asked(c, i, p)
          BY <2>1, <2>5, <1>2, <1>6 DEF CallInv, Writes
      <3>2. Asked(c, i, p)'
          BY <2>1, <3>1, <1>1, <1>2, <1>3, <1>4, <1>13, AskedStays DEF CallInv, o
      <3> QED
          BY <3>2, <2>2
    <2> QED
        BY <2>4, <2>5
  <1>22. CallInv(c)'
      BY <1>15, <1>16, <1>17, <1>18, <1>19 DEF CallInv
  <1> QED
      BY <1>1, <1>4, <1>13, <1>20, <1>21, <1>22 DEF ScrubInv

\* Every step of Scrub: rows are added and erased in, and a finished call
\* stays as it is.
Onward ==
  /\ Extends(log, log')
  /\ Finished \subseteq Finished'
  /\ \A c \in Finished : call'[c] = call[c]

LEMMA ScrubStep ==
  ASSUME ScrubInv, Next
  PROVE  ScrubInv' /\ Onward
  <1> DEFINE Step(c) == Start(c) \/ Scan(c) \/ Update(c) \/ StatementEnds(c) \/ Commit(c) \/ Fail(c)
  <1>1. ScrubInv' /\ Extends(log, log')
    <2>1. CASE Request
        BY <2>1, RequestKeeps
    <2>2. ASSUME NEW c \in Calls, Commit(c) PROVE ScrubInv' /\ Extends(log, log')
        BY <2>2, CommitKeeps
    <2>3. ASSUME NEW c \in Calls, Start(c) \/ Scan(c) \/ Update(c) \/ StatementEnds(c) \/ Fail(c)
          PROVE  ScrubInv' /\ Extends(log, log')
      <3>1. ScrubInv'
          BY <2>3, StartKeeps, ScanKeeps, UpdateKeeps, StatementEndsKeeps, FailKeeps
      <3>2. log' = log
          BY <2>3 DEF Start, Scan, Update, StatementEnds, Fail
      <3> QED
          BY <3>1, <3>2, Logged DEF ScrubInv
    <2> QED
        BY <2>1, <2>2, <2>3 DEF Next
  <1>2. \A d \in Finished : call'[d] = call[d]
    <2> SUFFICES ASSUME NEW d \in Finished PROVE call'[d] = call[d]
        OBVIOUS
    <2>1. d \in Calls /\ call[d].at = "done" /\ DOMAIN call = Calls
        BY DEF Finished, ScrubInv
    <2>2. CASE Request
        BY <2>2 DEF Request
    <2>3. ASSUME NEW c \in Calls, Step(c) PROVE call'[d] = call[d]
      <3>1. call[c].at # "done"
          BY <2>3 DEF Start, Scan, Update, StatementEnds, Commit, Fail
      <3>2. \E x : call' = [call EXCEPT ![c] = x]
        <4>1. CASE Start(c)
            BY <4>1 DEF Start
        <4>2. CASE Scan(c)
            BY <4>2 DEF Scan
        <4>3. CASE Update(c)
            BY <4>3 DEF Update
        <4>4. CASE StatementEnds(c)
            BY <4>4 DEF StatementEnds
        <4>5. CASE Commit(c)
            BY <4>5 DEF Commit
        <4>6. CASE Fail(c)
            BY <4>6 DEF Fail
        <4> QED
            BY <2>3, <4>1, <4>2, <4>3, <4>4, <4>5, <4>6
      <3> QED
          BY <2>1, <3>1, <3>2
    <2> QED
        BY <2>2, <2>3 DEF Next
  <1>3. Finished \subseteq Finished'
      BY <1>2 DEF Finished
  <1> QED
      BY <1>1, <1>2, <1>3 DEF Onward

LEMMA ScrubStands ==
  ASSUME ScrubInv, UNCHANGED vars
  PROVE  ScrubInv' /\ Onward
  <1>1. log' = log /\ requests' = requests /\ call' = call
      BY DEF vars
  <1>2. Log' /\ Extends(log, log') /\ \A n : Ends(n) => Ends(n)'
      BY <1>1, Logged DEF ScrubInv, Log, Ends
  <1>3. Finished \subseteq Finished' /\ \A c \in Finished : call'[c] = call[c]
      BY <1>1 DEF Finished
  <1>4. ASSUME NEW c \in Calls PROVE CallInv(c)'
    <2>1. Made(c)' /\ Writes(c)' /\ Snapshot(c)' /\ Progress(c)' /\ Record(c)'
        BY <1>1, <1>2, StandsStill DEF ScrubInv
    <2>2. Apart(c)'
        BY <1>1 DEF ScrubInv, CallInv, Apart
    <2> QED
        BY <2>1, <2>2 DEF CallInv
  <1>5. Erasures'
    <2> SUFFICES ASSUME NEW i \in DOMAIN log', NEW p \in Parts, log'[i][p] = "erased"
                 PROVE  (\E d \in Finished : Asked(d, i, p))'
        BY DEF Erasures
    <2>1. i \in DOMAIN log /\ \E d \in Finished : Asked(d, i, p)
        BY <1>1 DEF ScrubInv, Erasures
    <2> QED
        BY <1>1, <1>2, <1>3, <2>1, ErasuresStay DEF ScrubInv, CallInv
  <1> QED
      BY <1>1, <1>2, <1>3, <1>4, <1>5 DEF ScrubInv, Onward

-----------------------------------------------------------------------------
(* What the invariant says of finished calls.                              *)

LEMMA FinishedClean ==
  ASSUME ScrubInv, NEW c \in Finished
  PROVE  /\ call[c].op \in Operations /\ Ends(call[c].start)
         /\ 1 .. call[c].start \subseteq DOMAIN log
         /\ \A s \in All(call[c].op) : \A i \in 1 .. call[c].start : Clean(call[c].op, s, log, i)
         /\ \A s \in All(call[c].op) : \A i \in {call[c].record, call[c].record + 1} :
              i \in DOMAIN log /\ Clean(call[c].op, s, log, i)
  <1>1. c \in Calls /\ call[c].at = "done" /\ CallInv(c) /\ Log
      BY DEF Finished, ScrubInv
  <1>2. /\ call[c].op \in Operations /\ Ends(call[c].start)
        /\ 1 .. call[c].start \subseteq DOMAIN log
      BY <1>1, Logged DEF CallInv, Made, Ends
  <1>3. Finishes(c) = All(call[c].op)
      BY <1>1, StepsOf DEF CallInv
  <1>4. Sees(c) = log
    <2>1. DOMAIN call[c].writes = {}
        BY <1>1 DEF CallInv, Writes
    <2>2. Sees(c) = [i \in DOMAIN log |-> log[i]]
        BY <2>1 DEF Sees
    <2>3. log = [i \in DOMAIN log |-> log[i]]
        BY <1>1, LenProperties DEF Log
    <2> QED
        BY <2>2, <2>3
  <1>5. \A s \in All(call[c].op) : \A i \in 1 .. call[c].start : Clean(call[c].op, s, log, i)
      BY <1>1, <1>3, <1>4 DEF CallInv, Progress
  <1> QED
      BY <1>1, <1>2, <1>5 DEF CallInv, Record

LEMMA TypesHold ==
  ASSUME ScrubInv
  PROVE  TypeOK
  <1>1. \A i \in DOMAIN log :
          /\ log[i].values \in Held /\ log[i].personal \in Held
          /\ log[i].tx \in 1..i /\ log[log[i].tx].kind = "transaction"
          /\ (log[i].kind = "transaction") <=> (log[i].tx = i)
      BY DEF ScrubInv, Log, IsRow
  <1>2. \A c \in Calls :
          /\ call[c].at \in {"idle", "scan", "update", "record", "done"}
          /\ \A d \in Calls \ {c} : DOMAIN call[c].writes \cap DOMAIN call[d].writes = {}
      BY DEF ScrubInv, CallInv, Made, Apart
  <1> QED
      BY <1>1, <1>2 DEF ScrubInv, TypeOK

LEMMA ErasedHolds ==
  ASSUME ScrubInv
  PROVE  ErasedForGood
  <1> SUFFICES ASSUME NEW c \in Finished,
                      NEW i \in (1 .. call[c].start) \cup {call[c].record, call[c].record + 1}
               PROVE  LET o == call[c].op IN
                      IF o.kind = "scrub"
                      THEN Concerns(o, "values", log, i) => log[i].values # "kept"
                      ELSE \A statement \in {"transactions", "context"} :
                             Concerns(o, statement, log, i) => log[i].personal # "kept"
      BY DEF ErasedForGood
  <1> DEFINE o == call[c].op
  <1>1. o \in Operations /\ \A s \in All(o) : Clean(o, s, log, i)
      BY FinishedClean
  <1>2. /\ o.kind = "scrub" => All(o) = {"values"}
        /\ o.kind = "scrub_actor" => All(o) = {"transactions", "context"}
        /\ o.kind \in {"scrub", "scrub_actor"}
      BY <1>1, StatementsAre, OperationsAssumption
  <1> QED
      BY <1>1, <1>2 DEF Clean, Holds, Part

LEMMA AskedHolds ==
  ASSUME ScrubInv
  PROVE  OnlyAskedFor
  <1> SUFFICES ASSUME NEW i \in DOMAIN log
               PROVE  /\ log[i].values = "erased" =>
                           /\ ~log[i].system
                           /\ \E c \in Finished :
                                /\ call[c].op.kind = "scrub"
                                /\ call[c].op.object \in {log[i].object, log[i].target}
                                /\ call[c].op.object # log[i].object => call[c].op.targets
                                /\ Within(log[i].scope, call[c].op.scopes)
                      /\ log[i].personal = "erased" =>
                           \E c \in Finished :
                             /\ call[c].op.kind = "scrub_actor"
                             /\ call[c].op.actor = log[i].actor
                             /\ IF log[i].kind = "entry" THEN Within(log[i].scope, call[c].op.scopes)
                                ELSE \A j \in DOMAIN log : log[j].kind = "entry" /\ log[j].tx = i =>
                                       Within(log[j].scope, call[c].op.scopes)
      BY DEF OnlyAskedFor
  <1>1. \A c \in Finished : /\ call[c].op \in Operations
                            /\ call[c].op.kind = "scrub" => All(call[c].op) = {"values"}
                            /\ call[c].op.kind = "scrub_actor" => All(call[c].op) = {"transactions", "context"}
                            /\ call[c].op.kind \in {"scrub", "scrub_actor"}
      BY FinishedClean, StatementsAre, OperationsAssumption
  <1>2. ASSUME log[i].values = "erased"
        PROVE  /\ ~log[i].system
               /\ \E c \in Finished :
                    /\ call[c].op.kind = "scrub"
                    /\ call[c].op.object \in {log[i].object, log[i].target}
                    /\ call[c].op.object # log[i].object => call[c].op.targets
                    /\ Within(log[i].scope, call[c].op.scopes)
    <2>1. PICK c \in Finished : Asked(c, i, "values")
        BY <1>2 DEF ScrubInv, Erasures, Parts
    <2>2. call[c].op.kind = "scrub" /\ Concerns(call[c].op, "values", log, i)
        BY <2>1, <1>1 DEF Asked, Part
    <2> QED
        BY <2>2 DEF Concerns, IsAbout, MemberOf, Within
  <1>3. ASSUME log[i].personal = "erased"
        PROVE  \E c \in Finished :
                 /\ call[c].op.kind = "scrub_actor"
                 /\ call[c].op.actor = log[i].actor
                 /\ IF log[i].kind = "entry" THEN Within(log[i].scope, call[c].op.scopes)
                    ELSE \A j \in DOMAIN log : log[j].kind = "entry" /\ log[j].tx = i =>
                           Within(log[j].scope, call[c].op.scopes)
    <2>1. PICK c \in Finished : Asked(c, i, "personal")
        BY <1>3 DEF ScrubInv, Erasures, Parts
    <2>2. /\ call[c].op.kind = "scrub_actor"
          /\ \/ Concerns(call[c].op, "transactions", log, i)
             \/ Concerns(call[c].op, "context", log, i)
        BY <2>1, <1>1 DEF Asked, Part
    <2>3. CASE Concerns(call[c].op, "transactions", log, i)
        BY <2>2, <2>3 DEF Concerns, AllEntriesMatch, Entries, MemberOf, Within
    <2>4. CASE Concerns(call[c].op, "context", log, i)
        BY <2>2, <2>4 DEF Concerns, MemberOf, Within
    <2> QED
        BY <2>2, <2>3, <2>4
  <1> QED
      BY <1>2, <1>3

-----------------------------------------------------------------------------
(* The reader.                                                             *)

LEMMA MinIn ==
  ASSUME NEW S, S \subseteq Nat, S # {}
  PROVE  Min(S) \in S
  <1>1. IsWellFoundedOn(OpToRel(<, Nat), Nat)
      BY NatLessThanWellFounded
  <1>2. PICK m \in S : \A y \in S : ~(<<y, m>> \in OpToRel(<, Nat))
      BY <1>1, WFMin
  <1>3. \A y \in S : m <= y
    <2> SUFFICES ASSUME NEW y \in S PROVE m <= y
        OBVIOUS
    <2>1. ~(y < m) /\ y \in Nat /\ m \in Nat
        BY <1>2 DEF OpToRel
    <2> QED
        BY <2>1
  <1> QED
      BY <1>3 DEF Min

LEMMA MaxIn ==
  ASSUME NEW n \in Nat, NEW S, S \subseteq 1 .. n, S # {}
  PROVE  Max(S) \in S
  <1> DEFINE T == {n - i : i \in S}
  <1>1. T \subseteq Nat /\ T # {}
    <2>1. \A i \in 1 .. n : n - i \in Nat
        OBVIOUS
    <2> QED
        BY <2>1
  <1>2. IsWellFoundedOn(OpToRel(<, Nat), Nat)
      BY NatLessThanWellFounded
  <1>3. PICK m \in T : \A y \in T : ~(<<y, m>> \in OpToRel(<, Nat))
      BY <1>1, <1>2, WFMin
  <1>4. PICK i \in S : m = n - i
      OBVIOUS
  <1>5. \A j \in S : i >= j
    <2> SUFFICES ASSUME NEW j \in S PROVE i >= j
        OBVIOUS
    <2>1. n - j \in T /\ n - j \in Nat /\ m \in Nat
        BY <1>1
    <2>2. ~(n - j < m)
        BY <2>1, <1>3 DEF OpToRel
    <2>3. i \in Nat /\ j \in Nat
        OBVIOUS
    <2> QED
        BY <2>1, <2>2, <2>3, <1>4
  <1> QED
      BY <1>5 DEF Max

\* Rows that were read stay rows that were read, while rows are erased.
LEMMA WereStays ==
  ASSUME Extends(log, log'), NEW rows, NEW v, Were(rows, v)
  PROVE  Were(rows, v)'
  BY LaterVersion DEF Extends, Were

LEMMA UnshownStays ==
  ASSUME Onward, NEW done, done \subseteq Finished, NEW rows, Unshown(done, rows)
  PROVE  Unshown(done, rows)'
  BY DEF Onward, Unshown

\* What is asked for does not change either: rows only lose parts, and a
\* transaction gets no more entries.
LEMMA AskedSame ==
  ASSUME NEW o, NEW a, NEW b, Version(a, b)
  PROVE  AskedFor(o, b) <=> AskedFor(o, a)
  <1>1. /\ b.scope = a.scope /\ b.actor = a.actor /\ b.system = a.system /\ b.at = a.at
        /\ b.object = a.object /\ b.target = a.target
      BY FixedFields
  <1> QED
      BY <1>1 DEF AskedFor

LEMMA HeaderStays ==
  ASSUME Extends(log, log'), NEW o, NEW t \in DOMAIN log,
         \A j \in Entries(log', t) : Within(log'[j].scope, o.scopes)
  PROVE  \A j \in Entries(log, t) : Within(log[j].scope, o.scopes)
  <1>1. \A j \in DOMAIN log : /\ j \in DOMAIN log' /\ log'[j].kind = log[j].kind
                              /\ log'[j].tx = log[j].tx /\ log'[j].scope = log[j].scope
      BY FixedFields DEF Extends
  <1>2. \A j \in Entries(log, t) : j \in Entries(log', t) /\ log'[j].scope = log[j].scope
      BY <1>1 DEF Entries
  <1> QED
      BY <1>2

LEMMA ReaderStays ==
  ASSUME Onward, Reader, reader' = reader
  PROVE  Reader'
  <1>1. Were(reader.rows, reader.v)'
      BY WereStays DEF Onward, Reader, Were
  <1>2. Unshown(reader.done, reader.rows)'
      BY UnshownStays DEF Reader, Unshown
  <1> QED
      BY <1>1, <1>2 DEF Reader, Onward

LEMMA LabelStays ==
  ASSUME Onward, UnshownLabel, shown.done \subseteq Finished, shown' = shown
  PROVE  UnshownLabel'
  <1> SUFFICES ASSUME shown.label # 0 PROVE UnshownLabel'
      BY DEF UnshownLabel
  <1>1. shown.label \in DOMAIN log /\ Predicate(log[shown.label], shown.v)
      BY DEF UnshownLabel
  <1>2. /\ shown.label \in DOMAIN log' /\ Version(log[shown.label], log'[shown.label])
        /\ log'[shown.label].object = log[shown.label].object
        /\ log'[shown.label].scope = log[shown.label].scope
      BY <1>1, FixedFields DEF Onward, Extends
  <1>3. Predicate(log'[shown.label], shown.v)
      BY <1>1, <1>2 DEF Predicate
  <1>4. \A c \in shown.done : call'[c] = call[c]
      BY DEF Onward
  <1>5. \A c \in shown.done :
          AskedFor(call[c].op, log'[shown.label]) => AskedFor(call[c].op, log[shown.label])
      BY <1>2, AskedSame
  <1>6. \A c \in shown.done :
          call'[c].op.kind = "scrub" /\ AskedFor(call'[c].op, log'[shown.label]) =>
            shown.label > call'[c].start
      BY <1>4, <1>5 DEF UnshownLabel
  <1>7. shown'.label = shown.label /\ shown'.v = shown.v /\ shown'.done = shown.done
      OBVIOUS
  <1> QED
      BY <1>2, <1>3, <1>6, <1>7 DEF UnshownLabel, AskedFor

LEMMA ShownStays ==
  ASSUME ScrubInv, Onward, Shown, shown' = shown
  PROVE  Shown'
  <1>1. Were(shown.rows, shown.v)'
      BY WereStays DEF Onward, Shown, Were
  <1>2. Unshown(shown.done, shown.rows)'
      BY UnshownStays DEF Shown, Unshown
  <1>3. UnshownHeaders'
    <2> SUFFICES ASSUME NEW c \in shown.done, NEW t \in DOMAIN shown.headers
                 PROVE  UnshownHeader(c, t, shown.headers[t])'
        BY DEF UnshownHeaders
    <2>1. call'[c] = call[c] /\ UnshownHeader(c, t, shown.headers[t])
        BY DEF Onward, Shown, UnshownHeaders
    <2>2. t \in DOMAIN log
      <3>1. PICK i \in DOMAIN shown.rows : t = shown.rows[i].tx
          BY DEF Shown
      <3>2. i \in DOMAIN log /\ log[i].tx = t
          BY <3>1, FixedFields DEF Shown, Were
      <3>3. DOMAIN log = 1 .. Len(log) /\ Len(log) \in Nat /\ t \in 1 .. i
          BY <3>2, Logged DEF ScrubInv, Log
      <3> QED
          BY <3>2, <3>3
    <2>3. (\A j \in Entries(log', t) : Within(log'[j].scope, call[c].op.scopes))
            => \A j \in Entries(log, t) : Within(log[j].scope, call[c].op.scopes)
        BY <2>2, HeaderStays DEF Onward
    <2> QED
        BY <2>1, <2>3 DEF UnshownHeader, HeaderAskedFor, Entries, Within
  <1>4. UnshownLabel'
      BY LabelStays DEF Shown
  <1> QED
      BY <1>1, <1>2, <1>3, <1>4 DEF Shown, Onward

\* Before and between reads there is nothing.
LEMMA NoneRead ==
  ASSUME reader = NoRead
  PROVE  Reader
  <1>1. DOMAIN (<<>>) = {}
      BY EmptySeq
  <1> QED
      BY <1>1 DEF NoRead, Reader, Were, Unshown

Bare ==
  /\ DOMAIN shown = {"rows", "headers", "v", "done", "label"}
  /\ shown.rows = <<>> /\ shown.headers = <<>> /\ shown.done \subseteq Finished

LEMMA NoneShown ==
  ASSUME Bare, UnshownLabel
  PROVE  Shown
  <1>1. DOMAIN (<<>>) = {}
      BY EmptySeq
  <1>2. {shown.rows[i].tx : i \in DOMAIN shown.rows} = {}
      BY <1>1 DEF Bare
  <1> QED
      BY <1>1, <1>2 DEF Bare, Shown, Were, Unshown, UnshownHeaders

LEMMA InitHolds ==
  ASSUME ReadingInit
  PROVE  IInv
  <1>1. ScrubInv
      BY ScrubInit DEF ReadingInit
  <1>2. reader = NoRead /\ shown = Nothing /\ dropped = {} /\ reads = 0
      BY DEF ReadingInit
  <1>3. Shown
    <2>1. Bare /\ shown.label = 0
        BY <1>2 DEF Nothing, Bare
    <2> QED
        BY <2>1, NoneShown DEF UnshownLabel
  <1> QED
      BY <1>1, <1>2, <1>3, NoneRead, ReadBoundsAssumption DEF IInv

\* What was erased is not in a row that is there: what a call was asked for is
\* what its statements are about.
LEMMA AskedIsConcerned ==
  ASSUME NEW o \in Operations, NEW rows, NEW i, IsRow(rows[i]), rows[i].kind = "entry",
         AskedFor(o, rows[i])
  PROVE  /\ o.kind = "scrub" => Concerns(o, "values", rows, i)
         /\ o.kind = "scrub_actor" => Concerns(o, "context", rows, i)
  <1>1. o.kind \in {"scrub", "scrub_actor"} /\ MemberOf(rows[i].scope, o.scopes)
      BY OperationsAssumption DEF AskedFor, Within, MemberOf
  <1>2. CASE o.kind = "scrub"
    <2>1. /\ ~rows[i].system /\ rows[i].at >= o.since
          /\ rows[i].object = o.object \/ (o.targets /\ rows[i].target = o.object)
        BY <1>2 DEF AskedFor
    <2> QED
        BY <2>1, <1>1, <1>2 DEF Concerns, IsAbout
  <1>3. CASE o.kind = "scrub_actor"
      BY <1>1, <1>3 DEF Concerns, AskedFor
  <1> QED
      BY <1>1, <1>2, <1>3

LEMMA RowShowsNothing ==
  ASSUME ScrubInv, NEW c \in Finished, NEW i \in DOMAIN log, i <= call[c].start
  PROVE  /\ \A s \in All(call[c].op) : Clean(call[c].op, s, log, i)
         /\ log[i].kind = "entry" => Hides(call[c].op, log[i])
  <1> DEFINE o == call[c].op
  <1>1. i \in 1 .. call[c].start
    <2>1. DOMAIN log = 1 .. Len(log) /\ Len(log) \in Nat
        BY Logged DEF ScrubInv
    <2>2. call[c].start \in Nat
        BY <2>1, FinishedClean DEF Ends
    <2> QED
        BY <2>1, <2>2
  <1>2. o \in Operations /\ \A s \in All(o) : Clean(o, s, log, i)
      BY <1>1, FinishedClean
  <1>3. IsRow(log[i])
      BY Logged DEF ScrubInv
  <1>4. ASSUME log[i].kind = "entry", AskedFor(o, log[i])
        PROVE  IF o.kind = "scrub" THEN log[i].values # "kept" ELSE log[i].personal # "kept"
    <2>1. /\ o.kind = "scrub" => Concerns(o, "values", log, i)
          /\ o.kind = "scrub_actor" => Concerns(o, "context", log, i)
        BY <1>2, <1>3, <1>4, AskedIsConcerned
    <2>2. CASE o.kind = "scrub"
      <3>1. Clean(o, "values", log, i)
          BY <1>2, <2>2, StatementsAre
      <3> QED
          BY <2>1, <2>2, <3>1 DEF Clean, Holds, Part
    <2>3. CASE o.kind = "scrub_actor"
      <3>1. Clean(o, "context", log, i)
          BY <1>2, <2>3, StatementsAre
      <3> QED
          BY <2>1, <2>3, <3>1 DEF Clean, Holds, Part
    <2> QED
        BY <1>2, <2>2, <2>3, OperationsAssumption
  <1> QED
      BY <1>2, <1>4 DEF Hides

LEMMA StartReadHolds ==
  ASSUME IInv, StartRead
  PROVE  IInv'
  <1>1. /\ UNCHANGED vars /\ dropped' = dropped /\ shown' = Nothing
        /\ reads < MaxReads /\ reads' = reads + 1
      BY DEF StartRead, vars
  <1>2. ScrubInv' /\ Onward
      BY <1>1, ScrubStands DEF IInv
  <1>3. reads' \in 0 .. MaxReads
      BY <1>1, ReadBoundsAssumption DEF IInv
  <1>4. PICK v \in Visibilities :
          reader' = [NoRead EXCEPT !.at = "entries", !.v = v, !.done = Finished,
                                   !.txs = {log[i].tx : i \in Visible(v)}]
      BY DEF StartRead
  <1>5. DOMAIN (<<>>) = {}
      BY EmptySeq
  <1>6. /\ DOMAIN reader' = {"at", "v", "txs", "rows", "done"} /\ reader'.at = "entries"
        /\ reader'.rows = <<>> /\ reader'.done = Finished
      BY <1>4 DEF NoRead
  <1>7. Reader'
      BY <1>2, <1>5, <1>6 DEF Reader, Were, Unshown, Onward
  <1>8. Shown'
    <2>1. Bare' /\ UnshownLabel'
        BY <1>1 DEF Nothing, Bare, UnshownLabel
    <2>2. Bare' /\ UnshownLabel' => Shown'
        BY NoneShown, PTL
    <2> QED
        BY <2>1, <2>2
  <1> QED
      BY <1>1, <1>2, <1>3, <1>7, <1>8 DEF IInv, vars

LEMMA ReadEntriesHolds ==
  ASSUME IInv, ReadEntries
  PROVE  IInv'
  <1> DEFINE S == EntriesOf(reader.txs, reader.v)
             rows == [i \in S |-> log[i]]
  <1>1. /\ UNCHANGED vars /\ dropped' = dropped /\ shown' = shown /\ reads' = reads
        /\ reader' = [reader EXCEPT !.at = "headers", !.rows = rows]
      BY DEF ReadEntries, vars
  <1>2. ScrubInv' /\ Onward
      BY <1>1, ScrubStands DEF IInv
  <1>3. /\ DOMAIN reader' = {"at", "v", "txs", "rows", "done"} /\ reader'.at = "headers"
        /\ reader'.rows = rows /\ reader'.done = reader.done /\ reader'.v = reader.v
      BY <1>1 DEF IInv, Reader
  <1>4. \A i \in S : i \in DOMAIN log /\ log[i].kind = "entry" /\ Predicate(log[i], reader.v)
      BY DEF EntriesOf, Visible
  <1> HIDE DEF S
  <1>5. Were(rows, reader.v)
      BY <1>4, Logged DEF Were, IInv, ScrubInv
  <1>6. Unshown(reader.done, rows)
    <2> SUFFICES ASSUME NEW c \in reader.done, NEW i \in S, i <= call[c].start
                 PROVE  Hides(call[c].op, log[i])
        BY DEF Unshown
    <2>1. c \in Finished /\ i \in DOMAIN log /\ log[i].kind = "entry"
        BY <1>4 DEF IInv, Reader
    <2> QED
        BY <2>1, RowShowsNothing DEF IInv
  <1>7. Reader'
    <2>1. PICK R, V : R = rows /\ V = reader.v
        OBVIOUS
    <2>2. Were(R, V) /\ Unshown(reader.done, R) /\ reader'.rows = R /\ reader'.v = V
        BY <2>1, <1>3, <1>5, <1>6
    <2> HIDE DEF rows
    <2>3. log' = log /\ call' = call
        BY <1>1 DEF vars
    <2>4. reader'.done \subseteq Finished'
        BY <1>2, <1>3 DEF IInv, Reader, Onward
    <2> QED
        BY <2>2, <2>3, <2>4, <1>3 DEF Reader, Were, Unshown
  <1> QED
      BY <1>1, <1>2, <1>7, ShownStays DEF IInv, vars

\* The header of a transaction that entries were read of: what its row says
\* now, or what the earliest of the entries said then.
LEMMA HeaderShows ==
  ASSUME IInv, NEW t \in Found(reader.rows)
  PROVE  LET h == Header(t, reader.rows) IN
         /\ Allowed(h.scope, reader.v.scopes)
         /\ \A c \in reader.done : UnshownHeader(c, t, h)
  <1> DEFINE rows == reader.rows
             S == {i \in DOMAIN rows : rows[i].tx = t}
             first == Min(S)
             h == Header(t, rows)
  <1>1. /\ Were(rows, reader.v) /\ Unshown(reader.done, rows) /\ reader.done \subseteq Finished
        /\ ScrubInv /\ Log /\ DOMAIN log \subseteq Nat
      BY Logged DEF IInv, Reader, ScrubInv
  <1>2. S \subseteq Nat /\ S # {}
      BY <1>1 DEF Found, Were
  <1>3. first \in DOMAIN rows /\ rows[first].tx = t
      BY <1>2, MinIn
  <1>4. /\ h.scope = rows[first].scope
        /\ t \in dropped => /\ h.from = "snapshot" /\ h.actor = rows[first].actor
                           /\ h.personal = rows[first].personal
        /\ t \notin dropped => /\ h.from = "row" /\ h.actor = log[t].actor
                              /\ h.personal = log[t].personal
      BY DEF Header
  <1> HIDE DEF first, h
  <1>5. /\ first \in DOMAIN log /\ Version(rows[first], log[first])
        /\ Predicate(rows[first], reader.v) /\ rows[first].kind = "entry"
      BY <1>1, <1>3 DEF Were
  <1>6. Allowed(h.scope, reader.v.scopes)
      BY <1>4, <1>5 DEF Predicate
  <1>7. /\ log[first].tx = t /\ t \in DOMAIN log /\ log[t].kind = "transaction"
        /\ first \in Entries(log, t)
    <2>1. log[first].tx = t /\ log[first].kind = "entry"
        BY <1>3, <1>5, FixedFields
    <2>2. DOMAIN log = 1 .. Len(log) /\ Len(log) \in Nat
        BY <1>1, Logged
    <2> QED
        BY <2>1, <2>2, <1>1, <1>5 DEF Log, Entries
  <1>8. ASSUME NEW c \in reader.done, t <= call[c].start, HeaderAskedFor(call[c].op, t, h)
        PROVE  h.personal # "kept"
    <2>1. c \in Finished /\ call[c].op.kind = "scrub_actor" /\ h.actor = call[c].op.actor
        BY <1>1, <1>8 DEF HeaderAskedFor
    <2>2. CASE t \in dropped
      <3>1. first <= call[c].start
        <4>1. Ends(call[c].start) /\ first \in Nat
            BY <2>1, <1>1, <1>5, FinishedClean
        <4>2. call[c].start \in Nat /\ t \in Nat /\ (first > call[c].start => log[first].tx > call[c].start)
            BY <4>1, <1>1, <1>5, <1>7, Logged DEF Ends
        <4> QED
            BY <4>1, <4>2, <1>7, <1>8
      <3>2. AskedFor(call[c].op, rows[first])
          BY <2>1, <2>2, <1>4, <1>8 DEF HeaderAskedFor, AskedFor
      <3>3. Hides(call[c].op, rows[first])
          BY <3>1, <1>1, <1>3 DEF Unshown
      <3> QED
          BY <2>1, <2>2, <3>2, <3>3, <1>4 DEF Hides
    <2>3. CASE t \notin dropped
      <3>1. \A j \in Entries(log, t) : MemberOf(log[j].scope, call[c].op.scopes)
          BY <2>3, <1>4, <1>8 DEF HeaderAskedFor, Within, MemberOf
      <3>2. Concerns(call[c].op, "transactions", log, t)
          BY <2>1, <2>3, <3>1, <1>4, <1>7 DEF Concerns, AllEntriesMatch
      <3>3. Clean(call[c].op, "transactions", log, t)
        <4>1. call[c].op \in Operations
            BY <2>1, <1>1, FinishedClean
        <4>2. "transactions" \in All(call[c].op)
            BY <4>1, <2>1, StatementsAre
        <4> QED
            BY <4>2, <2>1, <1>1, <1>7, <1>8, RowShowsNothing
      <3> QED
          BY <2>3, <3>2, <3>3, <1>4 DEF Clean, Holds, Part
    <2> QED
        BY <2>2, <2>3
  <1> QED
      BY <1>6, <1>8 DEF h, UnshownHeader

LEMMA ReadHeadersHolds ==
  ASSUME IInv, ReadHeaders
  PROVE  IInv'
  <1> DEFINE T == Found(reader.rows)
             headers == [t \in T |-> Header(t, reader.rows)]
  <1>1. /\ UNCHANGED vars /\ dropped' = dropped /\ reader' = NoRead /\ reads' = reads
        /\ shown' = [Nothing EXCEPT !.rows = reader.rows, !.v = reader.v, !.done = reader.done,
                                    !.headers = headers]
      BY DEF ReadHeaders, vars
  <1>2. ScrubInv' /\ Onward /\ log' = log /\ call' = call /\ Finished' = Finished
      BY <1>1, ScrubStands DEF IInv, vars, Finished
  <1>3. /\ DOMAIN shown' = {"rows", "headers", "v", "done", "label"}
        /\ shown'.rows = reader.rows /\ shown'.v = reader.v /\ shown'.done = reader.done
        /\ shown'.headers = headers /\ shown'.label = 0
      BY <1>1 DEF Nothing
  <1>4. \A t \in T :
          /\ Allowed(headers[t].scope, reader.v.scopes)
          /\ \A c \in reader.done : UnshownHeader(c, t, headers[t])
      BY HeaderShows
  <1>5. PICK H : H = headers
      OBVIOUS
  <1>6. /\ DOMAIN H = {reader.rows[i].tx : i \in DOMAIN reader.rows} /\ shown'.headers = H
        /\ \A t \in DOMAIN H :
             /\ Allowed(H[t].scope, reader.v.scopes)
             /\ \A c \in reader.done : UnshownHeader(c, t, H[t])
      BY <1>3, <1>4, <1>5 DEF Found
  <1> HIDE DEF headers
  <1>7. Shown'
    <2>1. /\ reader.done \subseteq Finished
          /\ Were(reader.rows, reader.v) /\ Unshown(reader.done, reader.rows)
        BY DEF IInv, Reader
    <2>2. Were(shown.rows, shown.v)' /\ Unshown(shown.done, shown.rows)'
        BY <2>1, <1>2, <1>3 DEF Were, Unshown
    <2>3. UnshownHeaders'
        BY <1>2, <1>3, <1>6 DEF UnshownHeaders, UnshownHeader, HeaderAskedFor
    <2>4. UnshownLabel'
        BY <1>3 DEF UnshownLabel
    <2> QED
        BY <2>1, <2>2, <2>3, <2>4, <1>2, <1>3, <1>6 DEF Shown
  <1>8. Reader'
    <2>1. (reader = NoRead)' => Reader'
        BY NoneRead, PTL
    <2> QED
        BY <2>1, <1>1
  <1> QED
      BY <1>1, <1>2, <1>7, <1>8 DEF IInv

LEMMA ResolveHolds ==
  ASSUME IInv, NEW object, Resolve(object)
  PROVE  IInv'
  <1>1. /\ UNCHANGED vars /\ dropped' = dropped /\ reader' = reader
        /\ reads < MaxReads /\ reads' = reads + 1
      BY DEF Resolve, vars
  <1>2. ScrubInv' /\ Onward /\ log' = log /\ call' = call /\ Finished' = Finished
      BY <1>1, ScrubStands DEF IInv, vars, Finished
  <1>3. PICK v \in Visibilities :
          shown' = [Nothing EXCEPT !.v = v, !.done = Finished, !.label = LabelOf(object, v)]
      BY DEF Resolve
  <1> DEFINE S == Labelled(object, v)
             label == LabelOf(object, v)
  <1>4. /\ Bare' /\ shown'.v = v /\ shown'.done = Finished /\ shown'.label = label
      BY <1>2, <1>3 DEF Nothing, Bare
  <1>5. label # 0 => label \in S
    <2>1. DOMAIN log = 1 .. Len(log) /\ Len(log) \in Nat
        BY Logged DEF IInv, ScrubInv
    <2>2. S \subseteq 1 .. Len(log)
        BY <2>1 DEF Labelled, Visible
    <2>3. S # {} => Max(S) \in S
        BY <2>1, <2>2, MaxIn
    <2> QED
        BY <2>3 DEF LabelOf
  <1> HIDE DEF label
  <1>6. UnshownLabel'
    <2> SUFFICES ASSUME label # 0 PROVE UnshownLabel'
        BY <1>4 DEF UnshownLabel
    <2>1. /\ label \in DOMAIN log /\ Predicate(log[label], v) /\ log[label].kind = "entry"
          /\ log[label].values = "kept"
        BY <1>5 DEF Labelled, Visible, Label
    <2>2. ASSUME NEW c \in Finished,
                 call[c].op.kind = "scrub", AskedFor(call[c].op, log[label])
          PROVE  label > call[c].start
      <3>1. ~(label <= call[c].start)
          BY <2>1, <2>2, RowShowsNothing DEF IInv, Hides
      <3>2. label \in Nat /\ call[c].start \in Nat
        <4>1. DOMAIN log = 1 .. Len(log) /\ Len(log) \in Nat
            BY Logged DEF IInv, ScrubInv
        <4>2. Ends(call[c].start)
            BY <2>2, FinishedClean DEF IInv
        <4> QED
            BY <4>1, <4>2, <2>1 DEF Ends
      <3> QED
          BY <3>1, <3>2
    <2> QED
        BY <2>1, <2>2, <1>2, <1>4 DEF UnshownLabel
  <1>7. Shown'
    <2>1. Bare' /\ UnshownLabel' => Shown'
        BY NoneShown, PTL
    <2> QED
        BY <2>1, <1>4, <1>6
  <1>8. reads' \in 0 .. MaxReads
      BY <1>1, ReadBoundsAssumption DEF IInv
  <1> QED
      BY <1>1, <1>2, <1>7, <1>8, ReaderStays DEF IInv

LEMMA DropHolds ==
  ASSUME IInv, Drop
  PROVE  IInv'
  <1>1. /\ UNCHANGED vars /\ reader' = reader /\ shown' = shown /\ reads' = reads
        /\ \E i \in DOMAIN log : dropped' = dropped \cup {i}
      BY DEF Drop, vars
  <1>2. ScrubInv' /\ Onward
      BY <1>1, ScrubStands DEF IInv
  <1>3. dropped' \subseteq DOMAIN log'
      BY <1>1 DEF IInv, vars
  <1> QED
      BY <1>1, <1>2, <1>3, ReaderStays, ShownStays DEF IInv

LEMMA ScrubHolds ==
  ASSUME IInv, [Next]_vars, UNCHANGED readingVars
  PROVE  IInv'
  <1>1. ScrubInv' /\ Onward
      BY ScrubStep, ScrubStands DEF IInv
  <1>2. dropped' \subseteq DOMAIN log' /\ reader' = reader /\ shown' = shown /\ reads' = reads
      BY <1>1 DEF IInv, readingVars, Onward, Extends
  <1> QED
      BY <1>1, <1>2, ReaderStays, ShownStays DEF IInv

LEMMA StepHolds ==
  ASSUME IInv, [ReadingNext]_allVars
  PROVE  IInv'
  <1>1. CASE Next /\ UNCHANGED readingVars
      BY <1>1, ScrubHolds
  <1>2. CASE StartRead
      BY <1>2, StartReadHolds
  <1>3. CASE ReadEntries
      BY <1>3, ReadEntriesHolds
  <1>4. CASE ReadHeaders
      BY <1>4, ReadHeadersHolds
  <1>5. CASE Drop
      BY <1>5, DropHolds
  <1>6. ASSUME NEW object, Resolve(object) PROVE IInv'
      BY <1>6, ResolveHolds
  <1>7. CASE UNCHANGED allVars
    <2>1. UNCHANGED vars /\ UNCHANGED readingVars
        BY <1>7 DEF allVars, vars, readingVars
    <2> QED
        BY <2>1, ScrubHolds
  <1> QED
      BY <1>1, <1>2, <1>3, <1>4, <1>5, <1>6, <1>7 DEF ReadingNext

-----------------------------------------------------------------------------
(* The sum of the counts of some calls.                                    *)

SumOf(g, S) == MapThenSumSet(LAMBDA c : g[c].count, S)
Pick(S) == CHOOSE c \in S : TRUE

\* The recursion MapThenSumSet is defined by.
Recursion(g, S, f) ==
  f = [T \in SUBSET S |-> IF T = {} THEN 0 ELSE g[Pick(T)].count + f[T \ {Pick(T)}]]

\* Of any finite sets one is least: induction over finite sets.
LEMMA LeastSet ==
  ASSUME NEW Sets, Sets # {}, \A T \in Sets : IsFiniteSet(T)
  PROVE  \E T \in Sets : \A U \in Sets : U \subseteq T => U = T
  <1> DEFINE S == UNION Sets
  <1>1. Sets \subseteq FiniteSubsetsOf(S)
      BY DEF FiniteSubsetsOf
  <1> HIDE DEF S
  <1>2. PICK T \in Sets : \A U \in Sets : <<U, T>> \notin StrictSubsetOrdering(S)
      BY <1>1, FS_StrictSubsetOrderingWellFounded, WFMin
  <1> QED
      BY <1>1, <1>2 DEF StrictSubsetOrdering, FiniteSubsetsOf

LEMMA PickIn ==
  ASSUME NEW S, S # {}
  PROVE  Pick(S) \in S
  BY DEF Pick

LEMMA OneRecursion ==
  ASSUME NEW g, NEW S, IsFiniteSet(S), NEW T, T \subseteq S,
         NEW e, Recursion(g, S, e), NEW f, Recursion(g, T, f)
  PROVE  \A U \in SUBSET T : e[U] = f[U]
  <1> DEFINE Wrong == {U \in SUBSET T : e[U] # f[U]}
  <1> SUFFICES ASSUME Wrong # {} PROVE FALSE
      OBVIOUS
  <1>1. PICK U \in Wrong : \A V \in Wrong : V \subseteq U => V = U
    <2>1. Wrong # {} /\ \A V \in Wrong : IsFiniteSet(V)
        BY FS_Subset
    <2> HIDE DEF Wrong
    <2> QED
        BY <2>1, LeastSet
  <1>2. U # {}
      BY <1>1 DEF Recursion
  <1>3. Pick(U) \in U
      BY <1>2, PickIn
  <1>4. U \ {Pick(U)} \notin Wrong /\ U \ {Pick(U)} \in SUBSET T
      BY <1>1, <1>3
  <1>5. e[U \ {Pick(U)}] = f[U \ {Pick(U)}]
      BY <1>4
  <1>6. e[U] = g[Pick(U)].count + e[U \ {Pick(U)}]
      BY <1>1, <1>2 DEF Recursion
  <1>7. f[U] = g[Pick(U)].count + f[U \ {Pick(U)}]
      BY <1>1, <1>2 DEF Recursion
  <1> QED
      BY <1>1, <1>5, <1>6, <1>7

LEMMA SomeRecursion ==
  ASSUME NEW g, NEW S, IsFiniteSet(S)
  PROVE  \E f : Recursion(g, S, f)
  <1> DEFINE Wrong == {T \in SUBSET S : ~\E f : Recursion(g, T, f)}
  <1> SUFFICES ASSUME Wrong # {} PROVE FALSE
      OBVIOUS
  <1>1. PICK T \in Wrong : \A U \in Wrong : U \subseteq T => U = T
    <2>1. Wrong # {} /\ \A U \in Wrong : IsFiniteSet(U)
        BY FS_Subset
    <2> HIDE DEF Wrong
    <2> QED
        BY <2>1, LeastSet
  <1> DEFINE Of(U) == CHOOSE f : Recursion(g, U, f)
             rest(U) == U \ {Pick(U)}
             h == [U \in SUBSET T |-> IF U = {} THEN 0
                                      ELSE g[Pick(U)].count + Of(rest(U))[rest(U)]]
  <1>2. IsFiniteSet(T) /\ \A U \in SUBSET T : IsFiniteSet(U)
      BY FS_Subset
  <1>3. \A U \in SUBSET T : U # T => Recursion(g, U, Of(U))
    <2> TAKE U \in SUBSET T
    <2> HAVE U # T
    <2>1. \E f : Recursion(g, U, f)
        BY <1>1
    <2> QED
        BY <2>1
  <1>4. \A U \in SUBSET T : U # {} => rest(U) \in SUBSET T /\ rest(U) # T /\ rest(U) # U
      BY PickIn
  <1> HIDE DEF Of, rest
  <1>5. ASSUME NEW U \in SUBSET T, U # T
        PROVE  h[U] = Of(U)[U]
    <2>1. CASE U = {}
        BY <1>3, <1>5, <2>1 DEF Recursion
    <2>2. CASE U # {}
      <3>1. Of(U)[U] = g[Pick(U)].count + Of(U)[rest(U)]
          BY <1>3, <1>5, <2>2 DEF Recursion, rest
      <3>2. rest(U) \subseteq U
          BY DEF rest
      <3>3. Recursion(g, U, Of(U)) /\ Recursion(g, rest(U), Of(rest(U)))
          BY <1>3, <1>4, <1>5, <2>2
      <3>4. Of(U)[rest(U)] = Of(rest(U))[rest(U)]
          BY <1>2, <3>2, <3>3, OneRecursion
      <3> QED
          BY <2>2, <3>1, <3>4
    <2> QED
        BY <2>1, <2>2
  <1>6. \A U \in SUBSET T : U # {} => h[U] = g[Pick(U)].count + h[rest(U)]
      BY <1>4, <1>5
  <1>7. h = [U \in SUBSET T |-> IF U = {} THEN 0 ELSE g[Pick(U)].count + h[rest(U)]]
      BY <1>6
  <1>8. Recursion(g, T, h)
      BY <1>7 DEF Recursion, rest
  <1> QED
      BY <1>1, <1>8

LEMMA SumIs ==
  ASSUME NEW g, NEW S, IsFiniteSet(S)
  PROVE  \E f : Recursion(g, S, f) /\ \A T \in SUBSET S : SumOf(g, T) = f[T]
  <1> DEFINE Of(T) == CHOOSE f : Recursion(g, T, f)
  <1>1. \A T : SumOf(g, T) = Of(T)[T]
      BY DEF SumOf, MapThenSumSet, MapThenFoldSet, Recursion, Pick
  <1>2. \A T \in SUBSET S : Recursion(g, T, Of(T))
      BY FS_Subset, SomeRecursion
  <1> HIDE DEF Of
  <1>3. \A T \in SUBSET S : Of(T)[T] = Of(S)[T]
      BY <1>2, OneRecursion
  <1> QED
      BY <1>1, <1>2, <1>3

LEMMA SumPicks ==
  ASSUME NEW g, NEW S, IsFiniteSet(S)
  PROVE  /\ SumOf(g, {}) = 0
         /\ S # {} => SumOf(g, S) = g[Pick(S)].count + SumOf(g, S \ {Pick(S)})
  <1>1. PICK f : Recursion(g, S, f) /\ \A T \in SUBSET S : SumOf(g, T) = f[T]
      BY SumIs
  <1>2. {} \in SUBSET S /\ S \in SUBSET S /\ S \ {Pick(S)} \in SUBSET S
      OBVIOUS
  <1>3. f[{}] = 0 /\ (S # {} => f[S] = g[Pick(S)].count + f[S \ {Pick(S)}])
      BY <1>1, <1>2 DEF Recursion
  <1> QED
      BY <1>1, <1>2, <1>3

LEMMA SumTyped ==
  ASSUME NEW g, NEW S, IsFiniteSet(S), \A c \in S : g[c].count \in Nat
  PROVE  \A T \in SUBSET S : SumOf(g, T) \in Nat
  <1> DEFINE Wrong == {T \in SUBSET S : SumOf(g, T) \notin Nat}
  <1> SUFFICES ASSUME Wrong # {} PROVE FALSE
      OBVIOUS
  <1>1. PICK T \in Wrong : \A U \in Wrong : U \subseteq T => U = T
    <2>1. Wrong # {} /\ \A U \in Wrong : IsFiniteSet(U)
        BY FS_Subset
    <2> HIDE DEF Wrong
    <2> QED
        BY <2>1, LeastSet
  <1>2. IsFiniteSet(T)
      BY FS_Subset
  <1>3. T # {}
    <2>1. SumOf(g, {}) = 0
        BY <1>2, SumPicks
    <2>2. SumOf(g, T) \notin Nat
        BY <1>1
    <2>3. PICK n : n = SumOf(g, {})
        OBVIOUS
    <2>4. n \in Nat
        BY <2>1, <2>3
    <2> QED
        BY <2>2, <2>3, <2>4
  <1>4. Pick(T) \in T
      BY <1>3, PickIn
  <1>5. SumOf(g, T \ {Pick(T)}) \in Nat
      BY <1>1, <1>4
  <1>6. SumOf(g, T) = g[Pick(T)].count + SumOf(g, T \ {Pick(T)})
      BY <1>2, <1>3, SumPicks
  <1> QED
      BY <1>1, <1>4, <1>5, <1>6

\* Whichever is taken first.
LEMMA SumTakes ==
  ASSUME NEW g, NEW S, IsFiniteSet(S), \A c \in S : g[c].count \in Nat
  PROVE  \A c \in S : SumOf(g, S) = g[c].count + SumOf(g, S \ {c})
  <1> DEFINE Wrong == {T \in SUBSET S : ~\A c \in T : SumOf(g, T) = g[c].count + SumOf(g, T \ {c})}
  <1> SUFFICES ASSUME Wrong # {} PROVE FALSE
      OBVIOUS
  <1>1. PICK T \in Wrong : \A U \in Wrong : U \subseteq T => U = T
    <2>1. Wrong # {} /\ \A U \in Wrong : IsFiniteSet(U)
        BY FS_Subset
    <2> HIDE DEF Wrong
    <2> QED
        BY <2>1, LeastSet
  <1>2. IsFiniteSet(T)
      BY FS_Subset
  <1>3. PICK c \in T : SumOf(g, T) # g[c].count + SumOf(g, T \ {c})
      BY <1>1
  <1>4. PICK p : p = Pick(T)
      OBVIOUS
  <1>5. p \in T /\ SumOf(g, T) = g[p].count + SumOf(g, T \ {p})
      BY <1>2, <1>3, <1>4, PickIn, SumPicks
  <1>6. p # c
      BY <1>3, <1>5
  <1>7. T \ {p} \notin Wrong /\ T \ {c} \notin Wrong
      BY <1>1, <1>3, <1>5
  <1>8. /\ SumOf(g, T \ {p}) = g[c].count + SumOf(g, (T \ {p}) \ {c})
        /\ SumOf(g, T \ {c}) = g[p].count + SumOf(g, (T \ {c}) \ {p})
      BY <1>3, <1>5, <1>6, <1>7
  <1>9. (T \ {p}) \ {c} = (T \ {c}) \ {p}
      OBVIOUS
  <1>10. g[c].count \in Nat /\ g[p].count \in Nat /\ SumOf(g, (T \ {c}) \ {p}) \in Nat
      BY <1>3, <1>5, SumTyped
  <1>11. PICK a, b, k : a = g[c].count /\ b = g[p].count /\ k = SumOf(g, (T \ {c}) \ {p})
      OBVIOUS
  <1>12. a + (b + k) = b + (a + k)
      BY <1>10, <1>11
  <1> QED
      BY <1>3, <1>5, <1>8, <1>9, <1>11, <1>12

LEMMA SameSum ==
  ASSUME NEW g, NEW h, NEW S, IsFiniteSet(S), \A c \in S : h[c] = g[c]
  PROVE  SumOf(h, S) = SumOf(g, S)
  <1> DEFINE Wrong == {T \in SUBSET S : SumOf(h, T) # SumOf(g, T)}
  <1> SUFFICES ASSUME Wrong # {} PROVE FALSE
      OBVIOUS
  <1>1. PICK T \in Wrong : \A U \in Wrong : U \subseteq T => U = T
    <2>1. Wrong # {} /\ \A U \in Wrong : IsFiniteSet(U)
        BY FS_Subset
    <2> HIDE DEF Wrong
    <2> QED
        BY <2>1, LeastSet
  <1>2. IsFiniteSet(T)
      BY FS_Subset
  <1>3. T # {}
      BY <1>1, <1>2, SumPicks
  <1>4. Pick(T) \in T /\ h[Pick(T)] = g[Pick(T)]
      BY <1>3, PickIn
  <1>5. SumOf(h, T \ {Pick(T)}) = SumOf(g, T \ {Pick(T)})
      BY <1>1, <1>4
  <1>6. /\ SumOf(g, T) = g[Pick(T)].count + SumOf(g, T \ {Pick(T)})
        /\ SumOf(h, T) = h[Pick(T)].count + SumOf(h, T \ {Pick(T)})
      BY <1>2, <1>3, SumPicks
  <1> QED
      BY <1>1, <1>4, <1>5, <1>6
-----------------------------------------------------------------------------
(* What the calls count.                                                   *)

Erases(o) == IF o.kind = "scrub" THEN "values" ELSE "personal"
Gone(p) == {i \in DOMAIN log : log[i][p] = "erased"}
Of(kind) == {c \in Finished : call[c].op.kind = kind}

\* An open call has counted the rows it has changed, each of which still held
\* what the call erases; what a finished call has counted stays.
Counts(c) ==
  /\ call[c].count \in Nat
  /\ call[c].at # "done" =>
       IsFiniteSet(DOMAIN call[c].writes) /\ call[c].count = Cardinality(DOMAIN call[c].writes)
  /\ \A i \in DOMAIN call[c].writes :
       /\ log[i][Erases(call[c].op)] = "kept"
       /\ call[c].writes[i][Erases(call[c].op)] = "erased"
       /\ \A p \in Parts \ {Erases(call[c].op)} : call[c].writes[i][p] = log[i][p]

CountInv ==
  /\ IsFiniteSet(Finished)
  /\ \A c \in Calls : Counts(c)
  /\ CountsAddUp

LEMMA CountedIs ==
  ASSUME NEW kind
  PROVE  Counted(kind) = SumOf(call, Of(kind))
  BY DEF Counted, SumOf, Of

SumsAre ==
  /\ SumOf(call, Of("scrub")) = Cardinality(Gone("values"))
  /\ SumOf(call, Of("scrub_actor")) = Cardinality(Gone("personal"))

LEMMA GoneIs == CountsAddUp <=> SumsAre
  <1>1. Gone("values") = {i \in DOMAIN log : log[i].values = "erased"}
      BY DEF Gone
  <1>2. Gone("personal") = {i \in DOMAIN log : log[i].personal = "erased"}
      BY DEF Gone
  <1> QED
      BY <1>1, <1>2, CountedIs DEF CountsAddUp, SumsAre

\* The same, of a state a step leads to.
LEMMA CountedThen ==
  ASSUME NEW f, f = call', NEW S, S = Of("scrub")', NEW T, T = Of("scrub_actor")',
         NEW V, V = Gone("values")', NEW P, P = Gone("personal")',
         SumOf(f, S) = Cardinality(V), SumOf(f, T) = Cardinality(P)
  PROVE  CountsAddUp'
  <1>1. CountsAddUp' <=> SumsAre'
      BY GoneIs, PTL
  <1>2. SumsAre'
      BY DEF SumsAre
  <1> QED
      BY <1>1, <1>2

\* No call ends, and no row is erased in the log.
LEMMA SumsStay ==
  ASSUME CountInv, Finished' = Finished, \A c \in Finished : call'[c] = call[c],
         \A p \in Parts : Gone(p)' = Gone(p)
  PROVE  CountsAddUp'
  <1>1. PICK f, g : f = call' /\ g = call
      OBVIOUS
  <1>2. \A kind : Of(kind)' = Of(kind) /\ IsFiniteSet(Of(kind)) /\ \A c \in Of(kind) : f[c] = g[c]
    <2> SUFFICES ASSUME NEW kind
                 PROVE  Of(kind)' = Of(kind) /\ IsFiniteSet(Of(kind)) /\ \A c \in Of(kind) : f[c] = g[c]
        OBVIOUS
    <2>1. Of(kind) \subseteq Finished
        BY DEF Of
    <2>2. Of(kind)' = {c \in Finished : call'[c].op.kind = kind}
        BY DEF Of
    <2>3. Of(kind)' = Of(kind)
        BY <2>2 DEF Of
    <2> QED
        BY <2>1, <2>3, <1>1, FS_Subset DEF CountInv
  <1>3. \A kind : SumOf(f, Of(kind)) = SumOf(g, Of(kind))
      BY <1>2, SameSum
  <1>4. /\ SumOf(g, Of("scrub")) = Cardinality(Gone("values"))
        /\ SumOf(g, Of("scrub_actor")) = Cardinality(Gone("personal"))
      BY <1>1, GoneIs DEF CountInv, SumsAre
  <1>5. "values" \in Parts /\ "personal" \in Parts
      BY DEF Parts
  <1> QED
      BY <1>1, <1>2, <1>3, <1>4, <1>5, CountedThen

\* A call whose changes are as they were.
LEMMA CountsStand ==
  ASSUME NEW c \in Calls, Counts(c), call'[c] = call[c],
         \A i \in DOMAIN call[c].writes : log'[i] = log[i]
  PROVE  Counts(c)'
  BY DEF Counts

\* A step of one call that leaves the log alone.
LEMMA MineCounts ==
  ASSUME ScrubInv, CountInv, NEW c \in Calls, log' = log,
         NEW x, call' = [call EXCEPT ![c] = x], call[c].at # "done", x.at # "done",
         Counts(c)'
  PROVE  CountInv'
  <1>1. DOMAIN call' = Calls /\ call'[c] = x /\ \A d \in Calls : d # c => call'[d] = call[d]
      BY DEF ScrubInv
  <1>2. Finished' = Finished /\ \A d \in Finished : call'[d] = call[d]
      BY <1>1 DEF Finished
  <1>3. \A p \in Parts : Gone(p)' = Gone(p)
      BY DEF Gone
  <1>4. CountsAddUp'
      BY <1>2, <1>3, SumsStay
  <1>5. \A d \in Calls : Counts(d)'
      BY <1>1, CountsStand DEF CountInv
  <1> QED
      BY <1>2, <1>4, <1>5 DEF CountInv

LEMMA CountsInit ==
  ASSUME Init
  PROVE  CountInv
  <1>1. log = <<>> /\ call = [c \in Calls |-> Idle]
      BY DEF Init
  <1>2. DOMAIN (<<>>) = {} /\ IsFiniteSet({}) /\ Cardinality({}) = 0
      BY EmptySeq, FS_EmptySet
  <1>3. Finished = {} /\ \A p : Gone(p) = {}
      BY <1>1, <1>2 DEF Finished, Idle, Gone
  <1>4. \A c \in Calls : Counts(c)
      BY <1>1, <1>2 DEF Counts, Idle
  <1>5. \A kind : Of(kind) = {}
      BY <1>3 DEF Of
  <1>6. SumOf(call, {}) = 0
      BY <1>2, SumPicks
  <1>7. CountsAddUp
      BY <1>2, <1>3, <1>5, <1>6, GoneIs DEF SumsAre
  <1> QED
      BY <1>2, <1>3, <1>4, <1>7 DEF CountInv

LEMMA RequestCounts ==
  ASSUME ScrubInv, CountInv, Request
  PROVE  CountInv'
  <1>1. PICK q \in Requests : log' = log \o RowsOf(Len(log) + 1, q.actor, "kept", q.entries)
      BY DEF Request
  <1> DEFINE rows == RowsOf(Len(log) + 1, q.actor, "kept", q.entries)
  <1>2. call' = call /\ Log
      BY DEF Request, ScrubInv
  <1>3. IsAdded(rows, Len(log) + 1)
    <2>1. Len(log) + 1 \in Nat
        BY Logged DEF ScrubInv
    <2>2. \A k \in DOMAIN q.entries : q.entries[k].at \in Nat /\ q.entries[k].system \in BOOLEAN
        BY RequestsAssumption
    <2>3. q.entries \in Seq(Range(q.entries))
        BY RequestsAssumption
    <2> QED
        BY <2>1, <2>2, <2>3, RowsAdded DEF AddsFor
  <1>4. log' = log \o rows
      BY <1>1
  <1> HIDE DEF rows
  <1>5. log = [i \in DOMAIN log |-> log[i]] /\ \A i \in DOMAIN log : Version(log[i], log[i])
    <2>1. log \in Seq(Range(log))
        BY <1>2 DEF Log
    <2> QED
        BY <2>1, <1>2, Logged, LenProperties
  <1>6. \A i \in DOMAIN log : log'[i] = log[i]
      BY <1>2, <1>3, <1>4, <1>5, Grown
  <1>7. \A i \in DOMAIN log' \ DOMAIN log :
          \A p \in Parts : log'[i].tx = Len(log) + 1 /\ log'[i][p] # "erased"
      BY <1>2, <1>3, <1>4, <1>5, Grown
  <1>8. DOMAIN log \subseteq DOMAIN log'
    <2>1. Extends(log, log')
        BY <1>2, <1>3, <1>4, <1>5, Grown
    <2> QED
        BY <2>1 DEF Extends
  <1>9. \A p \in Parts : Gone(p)' = Gone(p)
    <2> SUFFICES ASSUME NEW p \in Parts PROVE Gone(p)' = Gone(p)
        OBVIOUS
    <2>1. \A i \in DOMAIN log' : log'[i][p] = "erased" <=> i \in DOMAIN log /\ log[i][p] = "erased"
        BY <1>6, <1>7
    <2>2. Gone(p)' = {i \in DOMAIN log' : log'[i][p] = "erased"}
        BY DEF Gone
    <2> QED
        BY <2>1, <2>2, <1>8 DEF Gone
  <1>10. Finished' = Finished /\ \A c \in Finished : call'[c] = call[c]
      BY <1>2 DEF Finished
  <1>11. \A c \in Calls : Counts(c)'
      BY <1>2, <1>6, CountsStand DEF CountInv, ScrubInv, CallInv, Writes
  <1>12. CountsAddUp'
      BY <1>9, <1>10, SumsStay
  <1> QED
      BY <1>10, <1>11, <1>12 DEF CountInv

\* A call that begins, or is rolled back.
LEMMA NoneCounted ==
  ASSUME NEW c \in Calls, call'[c].count = 0, call'[c].writes = <<>>
  PROVE  Counts(c)'
  <1>1. DOMAIN (<<>>) = {} /\ IsFiniteSet({}) /\ Cardinality({}) = 0
      BY EmptySeq, FS_EmptySet
  <1> QED
      BY <1>1 DEF Counts

LEMMA BeginsCounts ==
  ASSUME ScrubInv, CountInv, NEW c \in Calls, Start(c) \/ Fail(c)
  PROVE  CountInv'
  <1>1. \E x : /\ call' = [call EXCEPT ![c] = x] /\ x.at # "done"
               /\ x.count = 0 /\ x.writes = <<>>
    <2>1. CASE Start(c)
      <3>1. PICK o \in Operations, by \in Operators :
              call' = [call EXCEPT ![c] = [Idle EXCEPT !.at = "scan", !.op = o,
                                                       !.by = by, !.start = Len(log)]]
          BY <2>1 DEF Start
      <3> DEFINE x == [Idle EXCEPT !.at = "scan", !.op = o, !.by = by, !.start = Len(log)]
      <3>2. x.at # "done" /\ x.count = 0 /\ x.writes = <<>>
          BY DEF Idle
      <3>3. call' = [call EXCEPT ![c] = x]
          BY <3>1
      <3> HIDE DEF x
      <3> QED
          BY <3>2, <3>3
    <2>2. CASE Fail(c)
      <3>1. call' = [call EXCEPT ![c] = Idle]
          BY <2>2 DEF Fail
      <3>2. Idle.at # "done" /\ Idle.count = 0 /\ Idle.writes = <<>>
          BY DEF Idle
      <3> QED
          BY <3>1, <3>2
    <2> QED
        BY <2>1, <2>2
  <1>2. PICK x : call' = [call EXCEPT ![c] = x] /\ x.at # "done" /\ x.count = 0 /\ x.writes = <<>>
      BY <1>1
  <1>3. log' = log /\ call[c].at # "done"
      BY DEF Start, Fail
  <1>4. call'[c] = x
      BY <1>2 DEF ScrubInv
  <1> QED
      BY <1>2, <1>3, <1>4, NoneCounted, MineCounts

\* A statement that begins or ends changes no row.
LEMMA GoesOnCounts ==
  ASSUME ScrubInv, CountInv, NEW c \in Calls, Scan(c) \/ StatementEnds(c)
  PROVE  CountInv'
  <1>1. /\ call[c].at # "done" /\ log' = log
        /\ DOMAIN call[c] = CallFields /\ DOMAIN call = Calls
      BY DEF Scan, StatementEnds, ScrubInv, CallInv, Made
  <1>2. \E x : /\ call' = [call EXCEPT ![c] = x] /\ x.at # "done"
               /\ x.count = call[c].count /\ x.writes = call[c].writes /\ x.op = call[c].op
    <2>1. CASE Scan(c)
      <3> DEFINE todo == {i \in DOMAIN log : Matches(call[c].op, Statement(c), Sees(c), i)}
                 x == [call[c] EXCEPT !.at = "update", !.seen = Sees(c), !.todo = todo]
      <3>1. call' = [call EXCEPT ![c] = x]
          BY <2>1 DEF Scan
      <3> HIDE DEF todo
      <3>2. x.at # "done" /\ x.count = call[c].count /\ x.writes = call[c].writes /\ x.op = call[c].op
          BY <1>1 DEF CallFields
      <3> QED
          BY <3>1, <3>2
    <2>2. CASE StatementEnds(c)
      <3> DEFINE to == IF call[c].next = Len(Statements(call[c].op)) THEN "record" ELSE "scan"
                 x == [call[c] EXCEPT !.seen = <<>>, !.next = call[c].next + 1, !.at = to]
      <3>1. call' = [call EXCEPT ![c] = x] /\ to # "done"
          BY <2>2 DEF StatementEnds
      <3> HIDE DEF to
      <3>2. x.at # "done" /\ x.count = call[c].count /\ x.writes = call[c].writes /\ x.op = call[c].op
          BY <1>1, <3>1 DEF CallFields
      <3> QED
          BY <3>1, <3>2
    <2> QED
        BY <2>1, <2>2
  <1>3. PICK x : /\ call' = [call EXCEPT ![c] = x] /\ x.at # "done"
                 /\ x.count = call[c].count /\ x.writes = call[c].writes /\ x.op = call[c].op
      BY <1>2
  <1>4. call'[c] = x
      BY <1>1, <1>3
  <1>5. Counts(c)'
      BY <1>1, <1>3, <1>4 DEF CountInv, Counts
  <1> QED
      BY <1>1, <1>3, <1>5, MineCounts

\* A row of an UPDATE is counted when it is changed: it has not been before,
\* for what it holds now the call has not erased.
LEMMA UpdateCounts ==
  ASSUME ScrubInv, CountInv, NEW c \in Calls, Update(c)
  PROVE  CountInv'
  <1> DEFINE s == Statement(c)
             o == call[c].op
  <1>1. PICK i \in call[c].todo :
          LET x == call[c] IN
            call' = [call EXCEPT ![c] = [x EXCEPT
              !.todo = x.todo \ {i},
              !.writes = IF StillMatches(c, i)
                         THEN [j \in DOMAIN x.writes \cup {i} |->
                                 IF j = i THEN Erased(Newest(c, i), Statement(c))
                                 ELSE x.writes[j]]
                         ELSE x.writes,
              !.count = IF StillMatches(c, i) THEN x.count + 1 ELSE x.count]]
      BY DEF Update
  <1> DEFINE old == call[c].writes
             new == [j \in DOMAIN old \cup {i} |-> IF j = i THEN Erased(Sees(c)[i], s) ELSE old[j]]
             writes == IF StillMatches(c, i) THEN new ELSE old
             count == IF StillMatches(c, i) THEN call[c].count + 1 ELSE call[c].count
             x == [call[c] EXCEPT !.todo = call[c].todo \ {i}, !.writes = writes, !.count = count]
  <1>2. /\ call[c].at = "update" /\ log' = log
        /\ call' = [call EXCEPT ![c] = x]
      BY <1>1 DEF Update, Newest
  <1>3. CallInv(c) /\ Counts(c) /\ Log /\ DOMAIN call[c] = CallFields
      BY DEF ScrubInv, CountInv, CallInv, Made
  <1>4. x.at = "update" /\ x.writes = writes /\ x.count = count /\ x.op = o
      BY <1>2, <1>3 DEF CallFields
  <1> HIDE DEF x
  <1>5. call'[c] = x
      BY <1>2 DEF ScrubInv
  <1>6. s \in Steps /\ Part(s) = Erases(o) /\ Erases(o) \in Parts
    <2>1. o \in Operations /\ s \in All(o) /\ s \in Steps
        BY <1>2, <1>3, StepsOf DEF CallInv
    <2>2. /\ o.kind \in {"scrub", "scrub_actor"}
          /\ o.kind = "scrub" => s = "values"
          /\ o.kind = "scrub_actor" => s \in {"transactions", "context"}
        BY <2>1, StatementsAre, OperationsAssumption
    <2> QED
        BY <2>1, <2>2 DEF Part, Erases, Parts
  <1>7. /\ DOMAIN Sees(c) = DOMAIN log
        /\ \A j \in DOMAIN log : Sees(c)[j] = IF j \in DOMAIN old THEN old[j] ELSE log[j]
        /\ \A j \in DOMAIN log : IsRow(log[j])
        /\ DOMAIN old \subseteq DOMAIN log
      BY <1>3, SeesLater, Logged DEF CallInv, Writes
  <1>8. i \in DOMAIN log
    <2>1. i \in DOMAIN call[c].seen /\ Extends(call[c].seen, Sees(c))
        BY <1>1, <1>2, <1>3 DEF CallInv, Snapshot
    <2> QED
        BY <2>1, <1>7 DEF Extends
  <1>9. /\ IsFiniteSet(DOMAIN old) /\ call[c].count = Cardinality(DOMAIN old) /\ call[c].count \in Nat
        /\ \A j \in DOMAIN old :
             /\ log[j][Erases(o)] = "kept" /\ old[j][Erases(o)] = "erased"
             /\ \A p \in Parts \ {Erases(o)} : old[j][p] = log[j][p]
      BY <1>2, <1>3 DEF Counts
  <1>10. CASE StillMatches(c, i)
    <2>1. Sees(c)[i][Part(s)] = "kept"
        BY <1>10 DEF StillMatches, Newest, Holds
    <2>2. i \notin DOMAIN old
        BY <2>1, <1>6, <1>7, <1>8, <1>9
    <2>3. log[i][Erases(o)] = "kept" /\ Holds(log[i], s)
        BY <2>1, <2>2, <1>6, <1>7, <1>8 DEF Holds
    <2>4. writes = new /\ count = call[c].count + 1
        BY <1>10
    <2>5. /\ new[i] = Erased(log[i], s) /\ DOMAIN new = DOMAIN old \cup {i}
          /\ \A j \in DOMAIN old : new[j] = old[j]
        BY <2>2, <1>7, <1>8
    <2> HIDE DEF new
    <2>6. /\ new[i][Erases(o)] = "erased"
          /\ \A p \in Parts \ {Erases(o)} : new[i][p] = log[i][p]
      <3>1. DOMAIN log[i] = Fixed \cup Parts
          BY <1>7, <1>8 DEF IsRow
      <3>2. Erased(log[i], s) = [log[i] EXCEPT ![Part(s)] = "erased"]
          BY DEF Erased
      <3> QED
          BY <3>1, <3>2, <2>5, <1>6
    <2>7. IsFiniteSet(DOMAIN new) /\ Cardinality(DOMAIN new) = call[c].count + 1
        BY <2>2, <2>5, <1>9, FS_AddElement
    <2>8. Counts(c)'
      <3>1. call'[c].writes = new /\ call'[c].count = call[c].count + 1 /\ call'[c].op = o
          BY <2>4, <1>4, <1>5
      <3>2. \A j \in DOMAIN new :
              /\ log[j][Erases(o)] = "kept" /\ new[j][Erases(o)] = "erased"
              /\ \A p \in Parts \ {Erases(o)} : new[j][p] = log[j][p]
          BY <2>3, <2>5, <2>6, <1>9
      <3> QED
          BY <3>1, <3>2, <2>7, <1>2, <1>9 DEF Counts
    <2> QED
        BY <2>8, <1>2, <1>4, MineCounts
  <1>11. CASE ~StillMatches(c, i)
    <2>1. call'[c].writes = old /\ call'[c].count = call[c].count /\ call'[c].op = o
        BY <1>4, <1>5, <1>11
    <2>2. Counts(c)'
        BY <2>1, <1>2, <1>9 DEF Counts
    <2> QED
        BY <2>2, <1>2, <1>4, MineCounts
  <1> QED
      BY <1>10, <1>11

\* One more call has ended: what it counted is what it adds to what is gone.
LEMMA SumGrows ==
  ASSUME NEW g, NEW f, NEW S, IsFiniteSet(S), NEW c, c \notin S,
         \A d \in S : f[d] = g[d], \A d \in S \cup {c} : f[d].count \in Nat
  PROVE  SumOf(f, S \cup {c}) = SumOf(g, S) + f[c].count
  <1>1. IsFiniteSet(S \cup {c}) /\ (S \cup {c}) \ {c} = S
      BY FS_AddElement
  <1>2. SumOf(f, S \cup {c}) = f[c].count + SumOf(f, S)
    <2>1. PICK T : T = S \cup {c}
        OBVIOUS
    <2>2. SumOf(f, T) = f[c].count + SumOf(f, T \ {c})
        BY <2>1, <1>1, SumTakes
    <2> QED
        BY <2>1, <2>2, <1>1
  <1>3. SumOf(f, S) = SumOf(g, S)
      BY SameSum
  <1>4. SumOf(f, S) \in Nat
      BY SumTyped
  <1>5. PICK m, n : m = SumOf(f, S) /\ n = f[c].count
      OBVIOUS
  <1>6. m \in Nat /\ n \in Nat
      BY <1>4, <1>5
  <1> QED
      BY <1>2, <1>3, <1>5, <1>6

LEMMA CommitCounts ==
  ASSUME ScrubInv, CountInv, NEW c \in Calls, Commit(c)
  PROVE  CountInv'
  <1> DEFINE o == call[c].op
             n == Len(log)
             es == <<RecordEntry(c)>>
             rows == RowsOf(n + 1, call[c].by.actor, RecordPersonal(c), es)
             old == call[c].writes
             x == [call[c] EXCEPT !.at = "done", !.writes = <<>>, !.record = n + 1]
  <1>1. /\ call[c].at = "record" /\ log' = Sees(c) \o rows
        /\ call' = [call EXCEPT ![c] = x]
      BY DEF Commit
  <1>2. /\ CallInv(c) /\ Counts(c) /\ Log
        /\ DOMAIN call[c] = CallFields /\ DOMAIN call = Calls
      BY DEF ScrubInv, CountInv, CallInv, Made
  <1>3. /\ x.at = "done" /\ x.op = o /\ x.count = call[c].count /\ DOMAIN x.writes = {}
    <2>1. DOMAIN (<<>>) = {}
        BY EmptySeq
    <2> QED
        BY <1>2, <2>1 DEF CallFields
  <1> HIDE DEF x
  <1>4. call'[c] = x /\ \A d \in Calls : d # c => call'[d] = call[d]
      BY <1>1, <1>2
  <1>5. o \in Operations /\ Erases(o) \in Parts
    <2>1. o \in Operations
        BY <1>1, <1>2, StepsOf DEF CallInv
    <2> QED
        BY <2>1 DEF Erases, Parts
  <1>6. /\ DOMAIN Sees(c) = DOMAIN log /\ Extends(log, Sees(c))
        /\ \A i \in DOMAIN log : Sees(c)[i] = IF i \in DOMAIN old THEN old[i] ELSE log[i]
        /\ DOMAIN old \subseteq DOMAIN log
      BY <1>2, SeesLater DEF CallInv, Writes
  <1>7. IsAdded(rows, n + 1)
    <2>1. PICK e : e = RecordEntry(c) /\ e.system = TRUE /\ e.at = 0 /\ e.actor = call[c].by.actor
      <3>1. PICK e : e = RecordEntry(c)
          OBVIOUS
      <3>2. e.system = TRUE /\ e.at = 0 /\ e.actor = call[c].by.actor
          BY <3>1 DEF RecordEntry
      <3> QED
          BY <3>1, <3>2
    <2>2. PICK first \in Nat : first = n + 1
        BY <1>2, Logged
    <2>3. RecordPersonal(c) \in {"none", "kept"}
        BY DEF RecordPersonal
    <2>4. PICK personal \in {"none", "kept"} : personal = RecordPersonal(c)
        BY <2>3
    <2>5. IsRecord(RowsOf(first, call[c].by.actor, personal, <<e>>), first, call[c].by.actor, personal)
        BY <2>1, RecordAdded
    <2> QED
        BY <2>1, <2>2, <2>4, <2>5 DEF IsRecord
  <1> HIDE DEF rows
  <1>8. Sees(c) = [i \in DOMAIN log |-> Sees(c)[i]] /\ \A i \in DOMAIN log : Version(log[i], Sees(c)[i])
      BY <1>6 DEF Sees, Extends
  <1>9. /\ \A i \in DOMAIN log : i \in DOMAIN log' /\ log'[i] = Sees(c)[i]
        /\ \A i \in DOMAIN log' \ DOMAIN log : \A p \in Parts : log'[i][p] # "erased"
    <2>1. IsAdded(rows, Len(log) + 1) /\ log' = Sees(c) \o rows /\ DOMAIN Sees(c) = DOMAIN log
        BY <1>1, <1>6, <1>7 DEF n
    <2>2. Extends(log, log')
        BY <2>1, <1>2, <1>8, Grown
    <2>3. \A i \in DOMAIN log : log'[i] = Sees(c)[i]
        BY <2>1, <1>2, <1>8, Grown
    <2>4. \A i \in DOMAIN log' \ DOMAIN log :
            \A p \in Parts : log'[i].tx = Len(log) + 1 /\ log'[i][p] # "erased"
        BY <2>1, <1>2, <1>8, Grown
    <2> QED
        BY <2>2, <2>3, <2>4 DEF Extends
  <1>10. /\ IsFiniteSet(DOMAIN old) /\ call[c].count = Cardinality(DOMAIN old) /\ call[c].count \in Nat
         /\ \A j \in DOMAIN old :
              /\ log[j][Erases(o)] = "kept" /\ old[j][Erases(o)] = "erased"
              /\ \A p \in Parts \ {Erases(o)} : old[j][p] = log[j][p]
      BY <1>1, <1>2 DEF Counts
  <1> HIDE DEF o, old
  <1>11. Finished' = Finished \cup {c} /\ c \notin Finished
      BY <1>1, <1>3, <1>4 DEF Finished
  <1>12. \A p \in Parts : Gone(p)' = IF p = Erases(o) THEN Gone(p) \cup DOMAIN old ELSE Gone(p)
    <2> SUFFICES ASSUME NEW p \in Parts
                 PROVE  Gone(p)' = IF p = Erases(o) THEN Gone(p) \cup DOMAIN old ELSE Gone(p)
        OBVIOUS
    <2>1. Gone(p)' = {i \in DOMAIN log' : log'[i][p] = "erased"}
        BY DEF Gone
    <2>2. \A i : i \in Gone(p)' <=> i \in DOMAIN log /\ Sees(c)[i][p] = "erased"
        BY <2>1, <1>9
    <2>3. CASE p = Erases(o)
        BY <2>2, <2>3, <1>6, <1>10 DEF Gone
    <2>4. CASE p # Erases(o)
        BY <2>2, <2>4, <1>6, <1>10 DEF Gone
    <2> QED
        BY <2>3, <2>4
  <1>13. \A p \in Parts : IsFiniteSet(Gone(p))
    <2>1. IsFiniteSet(1 .. n)
        BY <1>2, Logged, FS_Interval
    <2> QED
        BY <2>1, <1>2, Logged, FS_Subset DEF Gone
  <1>14. DOMAIN old \cap Gone(Erases(o)) = {}
      BY <1>10 DEF Gone
  <1>15. /\ Cardinality(Gone(Erases(o)) \cup DOMAIN old) = Cardinality(Gone(Erases(o))) + call[c].count
         /\ Cardinality(Gone(Erases(o))) \in Nat
    <2>1. PICK A, B : A = Gone(Erases(o)) /\ B = DOMAIN old
        OBVIOUS
    <2>2. IsFiniteSet(A) /\ IsFiniteSet(B) /\ A \cap B = {}
        BY <2>1, <1>5, <1>10, <1>13, <1>14
    <2>3. Cardinality(A) \in Nat /\ Cardinality(B) \in Nat /\ Cardinality(A \cap B) = 0
        BY <2>2, FS_CardinalityType, FS_EmptySet
    <2>4. Cardinality(A \cup B) = Cardinality(A) + Cardinality(B) - Cardinality(A \cap B)
        BY <2>2, FS_Union
    <2> QED
        BY <2>1, <2>3, <2>4, <1>10
  <1>16. PICK f, g : f = call' /\ g = call
      OBVIOUS
  <1>17. \A d \in Finished : f[d] = g[d] /\ f[d].count \in Nat
      BY <1>4, <1>11, <1>16 DEF CountInv, Counts, Finished
  <1>18. f[c].count = call[c].count
      BY <1>3, <1>4, <1>16
  <1>19. ASSUME NEW kind
         PROVE  SumOf(f, Of(kind)') = IF o.kind = kind THEN SumOf(g, Of(kind)) + call[c].count
                                      ELSE SumOf(g, Of(kind))
    <2>1. Of(kind) \subseteq Finished /\ IsFiniteSet(Of(kind)) /\ c \notin Of(kind)
        BY <1>11, FS_Subset DEF CountInv, Of
    <2>2. Of(kind)' = {d \in Finished \cup {c} : f[d].op.kind = kind}
        BY <1>11, <1>16 DEF Of
    <2>3. Of(kind)' = IF o.kind = kind THEN Of(kind) \cup {c} ELSE Of(kind)
        BY <2>2, <1>3, <1>4, <1>16, <1>17 DEF Of
    <2>4. PICK S : S = Of(kind)
        OBVIOUS
    <2>5. SumOf(f, S \cup {c}) = SumOf(g, S) + f[c].count
        BY <2>1, <2>4, <1>10, <1>17, <1>18, SumGrows
    <2>6. SumOf(f, S) = SumOf(g, S)
        BY <2>1, <2>4, <1>17, SameSum
    <2> QED
        BY <2>3, <2>4, <2>5, <2>6, <1>18
  <1>20. /\ SumOf(g, Of("scrub")) = Cardinality(Gone("values"))
         /\ SumOf(g, Of("scrub_actor")) = Cardinality(Gone("personal"))
      BY <1>16, GoneIs DEF CountInv, SumsAre
  <1>21. CountsAddUp'
    <2>1. "values" \in Parts /\ "personal" \in Parts /\ "values" # "personal"
        BY DEF Parts
    <2>2. PICK V, P : V = Gone("values")' /\ P = Gone("personal")'
        OBVIOUS
    <2>3. PICK S, T : S = Of("scrub")' /\ T = Of("scrub_actor")'
        OBVIOUS
    <2>4. SumOf(f, S) = Cardinality(V) /\ SumOf(f, T) = Cardinality(P)
      <3>1. CASE o.kind = "scrub"
        <4>1. Erases(o) = "values"
            BY <3>1 DEF Erases
        <4>2. V = Gone("values") \cup DOMAIN old /\ P = Gone("personal")
            BY <4>1, <2>1, <2>2, <1>12
        <4>3. SumOf(f, S) = SumOf(g, Of("scrub")) + call[c].count /\ SumOf(f, T) = SumOf(g, Of("scrub_actor"))
            BY <3>1, <2>3, <1>19
        <4> QED
            BY <4>1, <4>2, <4>3, <1>15, <1>20
      <3>2. CASE o.kind = "scrub_actor"
        <4>1. Erases(o) = "personal"
            BY <3>2 DEF Erases
        <4>2. V = Gone("values") /\ P = Gone("personal") \cup DOMAIN old
            BY <4>1, <2>1, <2>2, <1>12
        <4>3. SumOf(f, S) = SumOf(g, Of("scrub")) /\ SumOf(f, T) = SumOf(g, Of("scrub_actor")) + call[c].count
            BY <3>2, <2>3, <1>19
        <4> QED
            BY <4>1, <4>2, <4>3, <1>15, <1>20
      <3> QED
          BY <3>1, <3>2, <1>5, OperationsAssumption
    <2> QED
        BY <2>2, <2>3, <2>4, <1>16, CountedThen
  <1>22. \A d \in Calls : Counts(d)'
    <2> SUFFICES ASSUME NEW d \in Calls PROVE Counts(d)'
        OBVIOUS
    <2>1. CASE d = c
        BY <2>1, <1>3, <1>4, <1>10 DEF Counts
    <2>2. CASE d # c
      <3>1. call'[d] = call[d] /\ Counts(d)
          BY <2>2, <1>4 DEF CountInv
      <3>2. \A i \in DOMAIN call[d].writes : i \in DOMAIN log /\ i \notin DOMAIN old
          BY <2>2 DEF ScrubInv, CallInv, Writes, Apart, old
      <3>3. \A i \in DOMAIN call[d].writes : log'[i] = log[i]
          BY <3>2, <1>6, <1>9
      <3> QED
          BY <3>1, <3>3, CountsStand
    <2> QED
        BY <2>1, <2>2
  <1>23. IsFiniteSet(Finished')
      BY <1>11, FS_AddElement DEF CountInv
  <1> QED
      BY <1>21, <1>22, <1>23 DEF CountInv

LEMMA CountsStep ==
  ASSUME ScrubInv, CountInv, [Next]_vars
  PROVE  CountInv'
  <1>1. CASE Request
      BY <1>1, RequestCounts
  <1>2. ASSUME NEW c \in Calls,
               Start(c) \/ Scan(c) \/ Update(c) \/ StatementEnds(c) \/ Commit(c) \/ Fail(c)
        PROVE  CountInv'
      BY <1>2, BeginsCounts, GoesOnCounts, UpdateCounts, CommitCounts
  <1>3. CASE UNCHANGED vars
    <2>1. log' = log /\ call' = call
        BY <1>3 DEF vars
    <2>2. Finished' = Finished /\ (\A p \in Parts : Gone(p)' = Gone(p)) /\ \A c \in Calls : Counts(c)'
        BY <2>1 DEF CountInv, Finished, Gone, Counts
    <2>3. CountsAddUp'
        BY <2>1, <2>2, SumsStay
    <2> QED
        BY <2>2, <2>3 DEF CountInv
  <1> QED
      BY <1>1, <1>2, <1>3 DEF Next

-----------------------------------------------------------------------------
(* What holds of every behaviour.                                          *)

\* The inductive invariant: what open calls have changed is theirs, of rows
\* they were asked about, and later than the log; what is erased was asked
\* for; what was read is an earlier version of what is there.
THEOREM Inductive == ReadingSpec => []IInv
  <1>1. ReadingInit => IInv
      BY InitHolds
  <1>2. IInv /\ [ReadingNext]_allVars => IInv'
      BY StepHolds
  <1> QED
      BY <1>1, <1>2, PTL DEF ReadingSpec

LEMMA ReadingTypesHold ==
  ASSUME IInv
  PROVE  ReadingTypeOK
  <1>1. {r.tx : r \in ShownRows} = {shown.rows[i].tx : i \in DOMAIN shown.rows}
      BY DEF ShownRows
  <1>2. DOMAIN reader.rows \subseteq DOMAIN log /\ DOMAIN shown.rows \subseteq DOMAIN log
      BY DEF IInv, Reader, Shown, Were
  <1> QED
      BY <1>1, <1>2, TypesHold DEF IInv, Reader, Shown, ReadingTypeOK

LEMMA HiddenHolds ==
  ASSUME IInv
  PROVE  NothingHiddenIsShown
  <1>1. \A i \in DOMAIN shown.rows : MaySee(shown.v, shown.rows[i])
      BY DEF IInv, Shown, Were, Predicate, Allowed, MaySee
  <1>2. \A t \in DOMAIN shown.headers :
          shown.v.scopes # None => shown.headers[t].scope \in shown.v.scopes
      BY DEF IInv, Shown, Allowed
  <1>3. shown.label # 0 => MaySee(shown.v, log[shown.label])
      BY DEF IInv, Shown, UnshownLabel, Predicate, Allowed, MaySee
  <1> QED
      BY <1>1, <1>2, <1>3 DEF NothingHiddenIsShown, ShownRows

LEMMA UnshownHolds ==
  ASSUME IInv
  PROVE  ErasedIsNotShown
  <1>1. Unshown(shown.done, shown.rows) /\ UnshownHeaders /\ UnshownLabel
      BY DEF IInv, Shown
  <1> SUFFICES ASSUME NEW c \in shown.done
               PROVE  LET o == call[c].op IN
                      /\ \A i \in DOMAIN shown.rows :
                           (i <= call[c].start /\ AskedFor(o, shown.rows[i])) =>
                             IF o.kind = "scrub" THEN shown.rows[i].values # "kept"
                                                 ELSE shown.rows[i].personal # "kept"
                      /\ (o.kind = "scrub" /\ shown.label # 0 /\ AskedFor(o, log[shown.label])) =>
                           shown.label > call[c].start
                      /\ \A t \in DOMAIN shown.headers :
                           (t <= call[c].start /\ HeaderAskedFor(o, t, shown.headers[t])) =>
                             shown.headers[t].personal # "kept"
      BY DEF ErasedIsNotShown
  <1>2. \A i \in DOMAIN shown.rows : i <= call[c].start => Hides(call[c].op, shown.rows[i])
      BY <1>1 DEF Unshown
  <1>3. \A t \in DOMAIN shown.headers : UnshownHeader(c, t, shown.headers[t])
      BY <1>1 DEF UnshownHeaders
  <1> QED
      BY <1>1, <1>2, <1>3 DEF Hides, UnshownHeader, UnshownLabel

\* The types of Scrub and of Reading: rows point at their transaction's, no
\* two open calls have changed the same row, and what is shown has a header
\* for each transaction with an entry.
THEOREM Types == ReadingSpec => []ReadingTypeOK
  <1>1. IInv => ReadingTypeOK
      BY ReadingTypesHold
  <1> QED
      BY <1>1, Inductive, PTL

\* A committed scrub's rows hold nothing it was asked to erase, and never
\* will, whatever other scrubs and requests commit (privacy.py).
THEOREM ErasedStays == ReadingSpec => []ErasedForGood
  <1>1. IInv => ErasedForGood
      BY ErasedHolds DEF IInv
  <1> QED
      BY <1>1, Inductive, PTL

\* Nothing is erased that no committed call was asked to erase, in the scopes
\* it was restricted to.
THEOREM ErasedOnDemand == ReadingSpec => []OnlyAskedFor
  <1>1. IInv => OnlyAskedFor
      BY AskedHolds DEF IInv
  <1> QED
      BY <1>1, Inductive, PTL

\* The counts the audit.scrubbed entries hold add up to what was erased: the
\* invariant is that an open call has counted the rows it has changed, all of
\* which held what it erases, and that no two have changed the same row.
THEOREM CountsHold == ReadingSpec => []CountsAddUp
  <1>1. ReadingInit => CountInv
      BY CountsInit DEF ReadingInit
  <1>2. IInv /\ CountInv /\ [ReadingNext]_allVars => CountInv'
    <2> SUFFICES ASSUME IInv, CountInv, [ReadingNext]_allVars PROVE CountInv'
        OBVIOUS
    <2>1. [Next]_vars
        BY DEF ReadingNext, allVars, vars, StartRead, ReadEntries, ReadHeaders, Drop, Resolve
    <2> QED
        BY <2>1, CountsStep DEF IInv
  <1>3. CountInv => CountsAddUp
      BY DEF CountInv
  <1> QED
      BY <1>1, <1>2, <1>3, Inductive, PTL DEF ReadingSpec

\* Rows only lose what is erased: of two scrubs of the same row, neither
\* undoes the other.
THEOREM ErasedNeverReturns == ReadingSpec => NothingComesBack
  <1>1. ASSUME IInv, [ReadingNext]_allVars
        PROVE  [\A i \in DOMAIN log :
                  /\ i \in DOMAIN log'
                  /\ \A part \in {"values", "personal"} :
                       log'[i][part] # log[i][part] => log'[i][part] = "erased"
                  /\ [log'[i] EXCEPT !.values = "none", !.personal = "none"]
                       = [log[i] EXCEPT !.values = "none", !.personal = "none"]]_vars
    <2>1. CASE Next
      <3> SUFFICES ASSUME NEW i \in DOMAIN log
                   PROVE  /\ i \in DOMAIN log'
                          /\ \A part \in {"values", "personal"} :
                               log'[i][part] # log[i][part] => log'[i][part] = "erased"
                          /\ [log'[i] EXCEPT !.values = "none", !.personal = "none"]
                               = [log[i] EXCEPT !.values = "none", !.personal = "none"]
          OBVIOUS
      <3>1. i \in DOMAIN log' /\ Version(log[i], log'[i])
          BY <1>1, <2>1, ScrubStep DEF IInv, Onward, Extends
      <3> DEFINE a == [log[i] EXCEPT !.values = "none", !.personal = "none"]
                 b == [log'[i] EXCEPT !.values = "none", !.personal = "none"]
      <3>2. /\ DOMAIN log[i] = Fixed \cup Parts /\ DOMAIN log'[i] = Fixed \cup Parts
            /\ \A f \in Fixed : log'[i][f] = log[i][f]
          BY <3>1 DEF Version, IsRow
      <3>3. b = a
          BY <3>2 DEF Fixed, Parts
      <3> QED
          BY <3>1, <3>3 DEF Version, Parts
    <2>2. CASE UNCHANGED vars
        BY <2>2
    <2>3. [Next]_vars
        BY <1>1 DEF ReadingNext, allVars, vars, StartRead, ReadEntries, ReadHeaders, Drop, Resolve
    <2> QED
        BY <2>1, <2>2, <2>3
  <1> QED
      BY <1>1, Inductive, PTL DEF ReadingSpec, NothingComesBack

\* A reader is shown nothing outside what it may see, in an entry, a header or
\* a label (query.py, Visibility).
THEOREM HiddenStaysHidden == ReadingSpec => []NothingHiddenIsShown
  <1>1. IInv => NothingHiddenIsShown
      BY HiddenHolds
  <1> QED
      BY <1>1, Inductive, PTL

\* Nor anything that was erased before the read began.
THEOREM ErasedStaysUnshown == ReadingSpec => []ErasedIsNotShown
  <1>1. IInv => ErasedIsNotShown
      BY UnshownHolds
  <1> QED
      BY <1>1, Inductive, PTL

================================================================================
