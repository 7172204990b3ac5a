------------------------------ MODULE Partitions ------------------------------
(***************************************************************************)
(* Partition maintenance (maintenance.py) beside the sessions and durable  *)
(* log() calls whose rows need the partitions (writer.write_durable).      *)
(*                                                                         *)
(* ensure_partitions runs in one transaction, drop_expired on an           *)
(* AUTOCOMMIT connection; both hold one advisory lock.  What PostgreSQL    *)
(* does is modelled as maintenance.py describes it: CREATE ... PARTITION   *)
(* OF waits for every open transaction that used the parent and makes      *)
(* later inserts queue; DETACH ... CONCURRENTLY marks the partition, then  *)
(* waits for the transactions that used the parent, holding no table lock. *)
(* Time is counted in ticks; Ticks of them make a month.                   *)
(***************************************************************************)
EXTENDS Integers, FiniteSets, FiniteSetsExt

CONSTANTS
    Severities,     \* the values of the host's severity enum
    Layouts,        \* what maintenance may find: the severity partitions, each the set of
                    \* values it holds, and the monthly partitions the host made itself
    Plain,          \* those severity partitions that are plain tables
    Clients,        \* threads with a session; each may also call a durable log()
    Keepers,        \* maintenance processes
    Policies,       \* the arguments drop_expired is called with
    MonthsAhead, MinMonthsAhead,
    AutoCreate,     \* auto_create_partitions
    OnError,        \* "log" or "raise"
    None,           \* Python's None
    Unbounded,      \* the last month of a partition up to MAXVALUE
    MaxRetention,   \* timedelta.max
    Ticks, MaxTime, MaxOpens, MaxCalls, MaxFaults   \* bounds

ASSUME ActorsAssumption == Clients \cap Keepers = {} /\ None \notin Clients \cup Keepers
ASSUME OptionsAssumption == AutoCreate \in BOOLEAN /\ OnError \in {"log", "raise"}
ASSUME TimeAssumption ==
    /\ Ticks \in Nat \ {0}
    /\ {MonthsAhead, MinMonthsAhead, MaxTime, MaxRetention, Unbounded,
        MaxOpens, MaxCalls, MaxFaults} \subseteq Nat
    /\ MaxTime < Unbounded
ASSUME MarkersAssumption == None \notin Nat

VARIABLES
    clock,
    parts,          \* the severity partitions
    live, pending,  \* monthly partitions: attached, and with a detach pending
    loose,          \* tables that were monthly partitions and are no more
    dropped,        \* history: the monthly partitions dropped
    advisory,       \* who holds the advisory lock
    uses, began,    \* what a session's open transaction has locked, and since when
    job,            \* the maintenance call each process or log() call is in
    call, outcome,  \* the durable log() call of each client, and how the last one ended
    opens, calls, faults,   \* how often each bound was used
    ensured, assured        \* history: the month up to which ensure_partitions
                            \* committed, and up to which health found no gap

catalog == <<parts, live, pending, loose, dropped>>
client == <<uses, began, call, outcome, opens, calls>>
vars == <<clock, catalog, advisory, client, job, faults, ensured, assured>>

Actors == Clients \cup Keepers
Nobody == None
MonthOf(t) == t \div Ticks

-----------------------------------------------------------------------------
(* The partitioned tables and their monthly partitions.                    *)

Table(name, values) == [table |-> name, values |-> values]
Transaction == Table("transaction", {})
Activity == Table("activity", {})
Part(values) == Table("activity", values)

Child(parent, first, last, made) ==
    [parent |-> parent, first |-> first, last |-> last, made |-> made]
MonthPartition(parent, m) == Child(parent, m, m, "library")

Smallest == -32768
SmallInts == Smallest .. 32767
IsPart(values) == values # {} /\ values \subseteq SmallInts

ASSUME SeveritiesAssumption == Severities \subseteq SmallInts
ASSUME LayoutsAssumption ==
    \A layout \in Layouts :
      /\ \A values \in layout.parts : IsPart(values)
      /\ \A ch \in layout.byHand :
           /\ ch.parent \in {Transaction} \cup {Part(values) : values \in layout.parts}
           /\ {ch.first, ch.last} \subseteq Nat /\ ch.first <= ch.last /\ ch.made = "hand"

Covers(ch, m) == ch.first <= m /\ m <= ch.last
Upper(ch) == (ch.last + 1) * Ticks

ListValues(p) == p.values
Parts == {Part(values) : values \in parts}
PartsOf(v) == {p \in Parts : v \in ListValues(p)}
IsPlain(p) == p.values \in Plain
Children(p) == {ch \in live \cup pending : ch.parent = p}

(* Whether a row finds a partition: routing sees attached partitions only. *)
Fits(v, m) ==
    LET Open(p) == IsPlain(p) \/ \E ch \in live : ch.parent = p /\ Covers(ch, m)
    IN  Open(Transaction) /\ \E p \in PartsOf(v) : Open(p)

-----------------------------------------------------------------------------
(* ensure_partitions.                                                      *)

NoJob == [op |-> "none"]
\* mutant: one month too few
BugMonths(now) == MonthOf(now) .. MonthOf(now) + MonthsAhead - 1
Months(now) == MonthOf(now) .. MonthOf(now) + MonthsAhead

\* The parents an ensure_partitions call looks after: the transaction table
\* and the partition of each severity, which it creates when there is none.
Wanted ==
    {Transaction} \cup
    UNION {IF PartsOf(v) = {} THEN {Part({v})} ELSE {p \in PartsOf(v) : ~IsPlain(p)} :
             v \in Severities}

EnsureJob == [op |-> "ensure", step |-> "queued", now |-> clock, todo |-> {},
              made |-> {}, newParts |-> {}, locks |-> {}]

\* The transaction table comes first, then the severities in order.
Turn(todo) ==
    IF Transaction \in todo THEN Transaction
    ELSE CHOOSE p \in todo : \A q \in todo : Min(ListValues(p)) <= Min(ListValues(q))

Missing(j, p) ==
    {m \in Months(j.now) : \A ch \in Children(p) : ~Covers(ch, m)}

\* The table a call has to lock next: the activity table for a new severity
\* partition, else the parent that lacks a month.
Needs(j) ==
    LET p == Turn(j.todo)
    IN  CASE p # Transaction /\ p \notin Parts -> {Activity}
          [] Missing(j, p) # {} -> {p}
          [] OTHER -> {}

Exclusive(a) ==
    IF job[a].op # "ensure" \/ job[a].step # "locked" THEN {}
    ELSE job[a].locks \cup (IF job[a].todo = {} THEN {} ELSE Needs(job[a]))

\* An insert queues behind a CREATE that holds or awaits the table.
NotQueued(tables) == \A a \in Actors : Exclusive(a) \cap tables = {}

Become(a, j) == job' = [job EXCEPT ![a] = j]

StartEnsure(k) ==
    /\ job[k] = NoJob
    /\ Become(k, EnsureJob)
    /\ UNCHANGED <<clock, catalog, advisory, client, faults, ensured, assured>>

\* mutant: the advisory lock does not wait
BugEnsureLocks(a) ==
    /\ job[a].op = "ensure" /\ job[a].step = "queued"
    /\ advisory' = a
    /\ Become(a, [job[a] EXCEPT !.step = "locked", !.todo = Wanted])
    /\ UNCHANGED <<clock, catalog, client, faults, ensured, assured>>

EnsureLocks(a) ==
    /\ job[a].op = "ensure" /\ job[a].step = "queued" /\ advisory = Nobody
    /\ advisory' = a
    /\ Become(a, [job[a] EXCEPT !.step = "locked", !.todo = Wanted])
    /\ UNCHANGED <<clock, catalog, client, faults, ensured, assured>>

Created(j, p) ==
    [j EXCEPT
       !.todo = j.todo \ {p},
       !.locks = j.locks \cup Needs(j),
       !.newParts = j.newParts \cup (IF p # Transaction /\ p \notin Parts THEN {p.values} ELSE {}),
       !.made = j.made \cup {MonthPartition(p, m) : m \in Missing(j, p)}]

EnsureCreates(a) ==
    /\ job[a].op = "ensure" /\ job[a].step = "locked" /\ job[a].todo # {}
    /\ \A c \in Clients : uses[c] \cap Needs(job[a]) = {}
    /\ Become(a, Created(job[a], Turn(job[a].todo)))
    /\ UNCHANGED <<clock, catalog, advisory, client, faults, ensured, assured>>

\* Of a durable log(), the insert is tried once more.
EnsureCommits(a) ==
    /\ job[a].op = "ensure" /\ job[a].step = "locked" /\ job[a].todo = {}
    /\ live' = live \cup job[a].made
    /\ parts' = parts \cup job[a].newParts
    /\ ensured' = Max({ensured, MonthOf(job[a].now) + MonthsAhead})
    /\ advisory' = Nobody
    /\ Become(a, NoJob)
    /\ call' = IF a \in Clients THEN [call EXCEPT ![a].phase = "retry"] ELSE call
    /\ UNCHANGED <<clock, pending, loose, dropped, uses, began, outcome, opens, calls,
                   faults, assured>>

-----------------------------------------------------------------------------
(* A durable log(): one transaction of its own, one retry.                 *)

NoCall == [phase |-> "none"]

Return(c, result, copies) ==
    /\ call' = [call EXCEPT ![c] = NoCall]
    /\ outcome' = [outcome EXCEPT ![c] =
                     [result |-> result, failClosed |-> call[c].failClosed, copies |-> copies]]

\* handle_durable_failure.
Failure(c) == IF call[c].failClosed \/ OnError = "raise" THEN "raised" ELSE "logged"

Tables(v) == {Transaction, Activity} \cup PartsOf(v)

LogDurable(c, v, failClosed) ==
    /\ call[c] = NoCall /\ calls[c] < MaxCalls
    /\ call' = [call EXCEPT ![c] = [phase |-> "first", severity |-> v,
                                    failClosed |-> failClosed, copies |-> 0]]
    /\ calls' = [calls EXCEPT ![c] = @ + 1]
    /\ UNCHANGED <<clock, catalog, advisory, uses, began, outcome, opens, job, faults,
                   ensured, assured>>

Inserting(c) ==
    /\ call[c].phase \in {"first", "retry"}
    /\ NotQueued(Tables(call[c].severity))

InsertAll(c) ==
    /\ Inserting(c) /\ Fits(call[c].severity, MonthOf(clock))
    /\ Return(c, "ok", call[c].copies + 1)
    /\ UNCHANGED <<clock, catalog, advisory, uses, began, opens, calls, job, faults,
                   ensured, assured>>

\* mutant: every failure is retried
BugRetries(c, isMissing) == call[c].phase = "first" /\ AutoCreate

Retries(c, isMissing) == call[c].phase = "first" /\ AutoCreate /\ isMissing

Tried(x, copies) == [x EXCEPT !.phase = "ensure", !.copies = x.copies + copies]

\* A missing partition is created in a transaction of its own, and the insert
\* tried once more; any other failure ends the call.
InsertFails(c, isMissing, copies) ==
    /\ IF Retries(c, isMissing)
       THEN /\ call' = [call EXCEPT ![c] = Tried(call[c], copies)]
            /\ Become(c, EnsureJob)
            /\ UNCHANGED outcome
       ELSE /\ Return(c, Failure(c), call[c].copies + copies)
            /\ UNCHANGED job
    /\ UNCHANGED <<clock, catalog, advisory, uses, began, opens, calls, ensured, assured>>

InsertMissing(c) ==
    /\ Inserting(c) /\ ~Fits(call[c].severity, MonthOf(clock))
    /\ InsertFails(c, TRUE, 0)
    /\ UNCHANGED faults

\* The connection fails: before the commit, or when only its answer is lost.
InsertBreaks(c) ==
    /\ Inserting(c) /\ faults < MaxFaults
    /\ faults' = faults + 1
    /\ \/ InsertFails(c, FALSE, 0)
       \/ Fits(call[c].severity, MonthOf(clock)) /\ InsertFails(c, FALSE, 1)

\* ensure_partitions is rolled back whole, and a log() that called it fails.
EnsureEnds(a) ==
    /\ advisory' = IF advisory = a THEN Nobody ELSE advisory
    /\ Become(a, NoJob)
    /\ IF a \in Clients THEN Return(a, Failure(a), call[a].copies) ELSE UNCHANGED <<call, outcome>>
    /\ UNCHANGED <<clock, catalog, uses, began, opens, calls, ensured, assured>>

\* mutant: a call that timed out starts again by itself
BugEnsureTimesOut(a) ==
    /\ job[a].op = "ensure"
    /\ \/ job[a].step = "queued" /\ advisory # Nobody
       \/ /\ job[a].step = "locked" /\ job[a].todo # {}
          /\ \E c \in Clients : uses[c] \cap Needs(job[a]) # {}
    /\ advisory' = IF advisory = a THEN Nobody ELSE advisory
    /\ Become(a, EnsureJob)
    /\ UNCHANGED <<clock, catalog, client, faults, ensured, assured>>

\* lock_timeout ends a wait: for the advisory lock, or for a table in use.
EnsureTimesOut(a) ==
    /\ job[a].op = "ensure"
    /\ \/ job[a].step = "queued" /\ advisory # Nobody
       \/ /\ job[a].step = "locked" /\ job[a].todo # {}
          /\ \E c \in Clients : uses[c] \cap Needs(job[a]) # {}
    /\ EnsureEnds(a)
    /\ UNCHANGED faults

EnsureCrashes(a) ==
    /\ job[a].op = "ensure" /\ faults < MaxFaults
    /\ faults' = faults + 1
    /\ EnsureEnds(a)

-----------------------------------------------------------------------------
(* A session, whose audit rows lock tables until its transaction ends.     *)

InTransaction(c) == uses[c] # {}

\* issued_at is the start of the transaction.  A call of the same thread that
\* has not returned keeps the session where it is.
SessionWrites(c, v) ==
    LET since == IF InTransaction(c) THEN began[c] ELSE clock
    IN  /\ call[c] = NoCall
        /\ InTransaction(c) \/ opens[c] < MaxOpens
        /\ Fits(v, MonthOf(since))
        /\ ~(Tables(v) \subseteq uses[c])
        /\ NotQueued(Tables(v) \ uses[c])
        /\ uses' = [uses EXCEPT ![c] = @ \cup Tables(v)]
        /\ began' = [began EXCEPT ![c] = since]
        /\ opens' = [opens EXCEPT ![c] = IF InTransaction(c) THEN @ ELSE @ + 1]
        /\ UNCHANGED <<clock, catalog, advisory, call, outcome, calls, job, faults,
                       ensured, assured>>

Released(j, c) == IF j.op = "drop" THEN [j EXCEPT !.awaits = j.awaits \ {c}] ELSE j

SessionEnds(c) ==
    /\ call[c] = NoCall /\ InTransaction(c)
    /\ uses' = [uses EXCEPT ![c] = {}]
    /\ began' = [began EXCEPT ![c] = 0]
    /\ job' = [a \in Actors |-> Released(job[a], c)]
    /\ UNCHANGED <<clock, catalog, advisory, call, outcome, opens, calls, faults,
                   ensured, assured>>

-----------------------------------------------------------------------------
(* drop_expired.                                                           *)

Limits(policy) == {policy.limits[v] : v \in DOMAIN policy.limits} \ {None}

\* mutant: the shortest retention of a shared partition
BugLongest(policy, values) ==
    IF {policy.limits[v] : v \in values \cap DOMAIN policy.limits} \cap Nat = {} THEN None
    ELSE Min({policy.limits[v] : v \in values \cap DOMAIN policy.limits} \cap Nat)

\* A negative retention is refused.
Retentions == (0 .. MaxRetention) \cup {None}
ASSUME PoliciesAssumption ==
    \A policy \in Policies :
      policy.transaction \in Retentions /\ \A v \in DOMAIN policy.limits : policy.limits[v] \in Retentions

\* None keeps forever; a severity without a limit keeps its partition.
Longest(policy, values) ==
    IF values = {} \/ \E v \in values : v \notin DOMAIN policy.limits \/ policy.limits[v] = None
    THEN None
    ELSE Max({policy.limits[v] : v \in values})

TransactionLimit(policy) ==
    IF Limits(policy) = {} THEN policy.transaction
    ELSE IF policy.transaction = None THEN Min(Limits(policy))
    ELSE Min(Limits(policy) \cup {policy.transaction})

LimitOf(policy, p) ==
    IF p = Transaction THEN TransactionLimit(policy) ELSE Longest(policy, ListValues(p))

Expired(j, ch) ==
    /\ LimitOf(j.policy, ch.parent) # None
    /\ ch.last # Unbounded
    /\ Upper(ch) < j.now - LimitOf(j.policy, ch.parent)

NoChild == None

StartDrop(k, policy) ==
    /\ job[k] = NoJob
    /\ Become(k, [op |-> "drop", step |-> "queued", now |-> clock, policy |-> policy,
                  todo |-> {}, turn |-> None, finish |-> {}, expire |-> {},
                  child |-> NoChild, awaits |-> {}])
    /\ UNCHANGED <<clock, catalog, advisory, client, faults, ensured, assured>>

\* mutant: the advisory lock does not wait
BugDropLocks(k) ==
    /\ job[k].op = "drop" /\ job[k].step = "queued"
    /\ advisory' = k
    /\ Become(k, [job[k] EXCEPT !.step = "next", !.now = clock,
                    !.todo = {Transaction} \cup {p \in Parts : ~IsPlain(p)}])
    /\ UNCHANGED <<clock, catalog, client, faults, ensured, assured>>

DropLocks(k) ==
    /\ job[k].op = "drop" /\ job[k].step = "queued" /\ advisory = Nobody
    /\ advisory' = k
    /\ Become(k, [job[k] EXCEPT !.step = "next", !.now = clock,
                    !.todo = {Transaction} \cup {p \in Parts : ~IsPlain(p)}])
    /\ UNCHANGED <<clock, catalog, client, faults, ensured, assured>>

\* mutant: in any order
BugDropTurn(j, p) == p \in j.todo
DropTurn(j, p) == p \in j.todo /\ (Transaction \in j.todo => p = Transaction)
\* mutant: pending detaches are not finished first
BugPendingOf(p) == {ch \in pending : FALSE}
PendingOf(p) == {ch \in pending : ch.parent = p}
ExpiredOf(j, p) == {ch \in live : ch.parent = p /\ Expired(j, ch)}
UsersOf(p) == {c \in Clients : p \in uses[c]}

\* The partitions of a parent are read once, when its turn comes.
ReadChildren(k) ==
    /\ job[k].op = "drop" /\ job[k].step = "next"
    /\ \E p \in job[k].todo :
         /\ DropTurn(job[k], p)
         /\ Become(k, [job[k] EXCEPT !.step = "turn", !.turn = p,
                         !.finish = PendingOf(p), !.expire = ExpiredOf(job[k], p)])
    /\ UNCHANGED <<clock, catalog, advisory, client, faults, ensured, assured>>

Detaching(j, ch) ==
    [j EXCEPT !.step = "waits", !.child = ch, !.finish = j.finish \ {ch},
              !.expire = j.expire \ {ch}, !.awaits = UsersOf(j.turn)]

\* A detach that was left pending is finalized, or one begins, its first
\* transaction marking the partition; both wait for who used the parent.
DetachStarts(k) ==
    /\ job[k].op = "drop" /\ job[k].step = "turn"
    /\ \E ch \in job[k].finish \cup job[k].expire :
         /\ \/ ch \in job[k].finish /\ UNCHANGED <<live, pending>>
            \/ /\ job[k].finish = {}
               /\ \A other \in job[k].expire : Upper(ch) <= Upper(other)
               /\ live' = live \ {ch}
               /\ pending' = pending \cup {ch}
         /\ Become(k, Detaching(job[k], ch))
    /\ UNCHANGED <<clock, parts, loose, dropped, advisory, client, faults, ensured, assured>>

\* A finalized partition that has not expired stays a standalone table.
Detached(k) ==
    /\ job[k].op = "drop" /\ job[k].step = "waits" /\ job[k].awaits = {}
    /\ pending' = pending \ {job[k].child}
    /\ loose' = loose \cup {job[k].child}
    /\ Become(k, IF Expired(job[k], job[k].child) THEN [job[k] EXCEPT !.step = "detached"]
                 ELSE [job[k] EXCEPT !.step = "turn", !.child = NoChild])
    /\ UNCHANGED <<clock, parts, live, dropped, advisory, client, faults, ensured, assured>>

DropTable(k) ==
    /\ job[k].op = "drop" /\ job[k].step = "detached"
    /\ loose' = loose \ {job[k].child}
    /\ dropped' = dropped \cup {job[k].child}
    /\ Become(k, [job[k] EXCEPT !.step = "turn", !.child = NoChild])
    /\ UNCHANGED <<clock, parts, live, pending, advisory, client, faults, ensured, assured>>

DropTurnEnds(k) ==
    /\ job[k].op = "drop" /\ job[k].step = "turn"
    /\ job[k].finish \cup job[k].expire = {}
    /\ Become(k, [job[k] EXCEPT !.step = "next", !.turn = None,
                    !.todo = job[k].todo \ {job[k].turn}])
    /\ UNCHANGED <<clock, catalog, advisory, client, faults, ensured, assured>>

DropEnds(k) ==
    /\ advisory' = IF advisory = k THEN Nobody ELSE advisory
    /\ Become(k, NoJob)
    /\ UNCHANGED <<clock, catalog, client, ensured, assured>>

DropReturns(k) ==
    /\ job[k].op = "drop" /\ job[k].step = "next" /\ job[k].todo = {}
    /\ DropEnds(k) /\ UNCHANGED faults

DropTimesOut(k) ==
    /\ job[k].op = "drop"
    /\ \/ job[k].step = "queued" /\ advisory # Nobody
       \/ job[k].awaits # {}
    /\ DropEnds(k) /\ UNCHANGED faults

DropCrashes(k) ==
    /\ job[k].op = "drop" /\ faults < MaxFaults
    /\ faults' = faults + 1
    /\ DropEnds(k)

-----------------------------------------------------------------------------
(* health.                                                                 *)

Covered(p, m) == \E ch \in live : ch.parent = p /\ Covers(ch, m)

\* Whole months from this one on covered without a gap: one more than
\* months_ahead, as far as the threshold needs it.
Coverage(p) ==
    Cardinality({n \in 0 .. MinMonthsAhead : \A i \in 0 .. n : Covered(p, MonthOf(clock) + i)})

\* mutant: off by one
BugBelow(p) == Coverage(p) < MinMonthsAhead
Below(p) == Coverage(p) <= MinMonthsAhead

Report == [below   |-> Below(Transaction) \/ \E v \in Severities :
                         \A p \in PartsOf(v) : ~IsPlain(p) /\ Below(p),
           pending |-> pending,
           orphaned |-> {ch \in loose : ch.made = "library"}]

Health(k) ==
    /\ job[k] = NoJob /\ ~Report.below
    /\ assured' = MonthOf(clock) + MinMonthsAhead
    /\ UNCHANGED <<clock, catalog, advisory, client, job, faults, ensured>>

-----------------------------------------------------------------------------
\* lock_timeout keeps calls short: none lasts longer than a tick.
Tick ==
    /\ clock < MaxTime
    /\ \A a \in Actors : job[a] # NoJob => clock = job[a].now
    /\ \A c \in Clients : InTransaction(c) => clock < began[c] + Ticks
    /\ clock' = clock + 1
    /\ UNCHANGED <<catalog, advisory, client, job, faults, ensured, assured>>

Init ==
    /\ clock = 0
    /\ \E layout \in Layouts : parts = layout.parts /\ live = layout.byHand
    /\ pending = {} /\ loose = {} /\ dropped = {}
    /\ advisory = Nobody
    /\ uses = [c \in Clients |-> {}] /\ began = [c \in Clients |-> 0]
    /\ job = [a \in Actors |-> NoJob]
    /\ call = [c \in Clients |-> NoCall]
    /\ outcome = [c \in Clients |-> [result |-> "none"]]
    /\ opens = [c \in Clients |-> 0] /\ calls = [c \in Clients |-> 0]
    /\ faults = 0
    /\ ensured = -1 /\ assured = -1

EnsureStep(a) == EnsureLocks(a) \/ EnsureCreates(a) \/ EnsureCommits(a) \/ EnsureTimesOut(a)
DropStep(k) == DropLocks(k) \/ ReadChildren(k) \/ DetachStarts(k) \/ Detached(k) \/ DropTable(k)
               \/ DropTurnEnds(k) \/ DropReturns(k) \/ DropTimesOut(k)

ClientStep(c) == InsertAll(c) \/ InsertMissing(c) \/ SessionEnds(c)

Next ==
    \/ Tick
    \/ \E a \in Actors : EnsureStep(a) \/ EnsureCrashes(a)
    \/ \E k \in Keepers : StartEnsure(k) \/ Health(k) \/ DropStep(k) \/ DropCrashes(k)
    \/ \E k \in Keepers, policy \in Policies : StartDrop(k, policy)
    \/ \E c \in Clients : ClientStep(c) \/ InsertBreaks(c)
    \/ \E c \in Clients, v \in Severities :
         SessionWrites(c, v) \/ \E failClosed \in BOOLEAN : LogDurable(c, v, failClosed)

Spec == Init /\ [][Next]_vars

\* Calls run to their end, the scheduler starts drop_expired again and again,
\* sessions end, and PostgreSQL's lock queue passes no insert over for ever.
FairSpec ==
    /\ Spec
    /\ \A a \in Actors : WF_vars(EnsureStep(a))
    /\ \A k \in Keepers : WF_vars(DropStep(k))
                          /\ SF_vars(\E policy \in Policies : StartDrop(k, policy))
    /\ \A c \in Clients : WF_vars(SessionEnds(c)) /\ SF_vars(InsertAll(c) \/ InsertMissing(c))

-----------------------------------------------------------------------------
(* Properties.                                                             *)

\* Whatever severity a row of the partition has, its own retention is over.  A
\* transaction row may go with the first severity.
PastRetention(policy, ch) ==
    LET Past(limit) == limit # None /\ Upper(ch) < clock - limit
        OfSeverity(v) == v \in DOMAIN policy.limits /\ Past(policy.limits[v])
    IN  /\ ch.last # Unbounded
        /\ IF ch.parent = Transaction
           THEN Past(policy.transaction) \/ \E v \in DOMAIN policy.limits : OfSeverity(v)
           ELSE \A v \in ListValues(ch.parent) : OfSeverity(v)

\* drop_expired takes a partition from the readers, and drops the table, only
\* when every row in it is past its retention, under the retention of that
\* very call, whatever an earlier call left pending.
OnlyExpiredStep ==
    \A ch \in (live \ live') \cup (loose \ loose') :
      \E k \in Keepers : job[k].op = "drop" /\ PastRetention(job[k].policy, ch)
OnlyExpiredGo == [][OnlyExpiredStep]_vars

\* No transaction row outlives the activity it describes: once the activity of
\* a month is dropped, no partition that the library made holds its transactions.
TransactionGoesFirst ==
    \A ch \in dropped, tr \in live :
      ch.parent # Transaction /\ tr.parent = Transaction /\ tr.made = "library" =>
        tr.last < ch.first \/ ch.last < tr.first

\* From a committed ensure_partitions on, every row up to the last month it was
\* asked for finds a partition, whatever runs meanwhile.
CoveredAhead ==
    \A m \in MonthOf(clock) .. ensured : \A v \in Severities : Fits(v, m)

\* Once health finds nothing below its threshold, no row fails for want of a
\* partition for that many months.
AssuranceHolds ==
    MonthOf(clock) <= assured => \A v \in Severities : Fits(v, MonthOf(clock))

\* PostgreSQL refuses a second pending detach of one parent, and one of a
\* partition that is gone: what a call has read of a parent stays true until it
\* acts on it, whatever other calls do and whichever was interrupted before.
DetachesApply ==
    /\ \A one, other \in pending : one.parent = other.parent => one = other
    /\ \A k \in DOMAIN job : job[k].op = "drop" =>
         job[k].finish \subseteq pending /\ job[k].expire \subseteq live

\* Concurrent calls never create what is there already: no overlapping bounds,
\* no name that a detached table still has.
CreatedOnce ==
    \A a \in DOMAIN job :
      job[a].op = "ensure" =>
        /\ \A new \in job[a].made :
             /\ new \notin loose
             /\ \A ch \in live \cup pending :
                  ch.parent = new.parent => ch.last < new.first \/ new.last < ch.first
        /\ \A b \in DOMAIN job \ {a} : job[b].op = "ensure" => job[a].made \cap job[b].made = {}

\* A durable entry is committed once if log() returns, at most once if not, and
\* a fail_closed entry that is not committed is never lost in silence.
DurableOnce ==
    \A c \in DOMAIN outcome :
      outcome[c].result # "none" =>
        /\ outcome[c].copies <= 1
        /\ outcome[c].result = "ok" => outcome[c].copies = 1
        /\ outcome[c].failClosed /\ outcome[c].copies = 0 => outcome[c].result = "raised"

\* Every durable log() and every maintenance call returns, though it may wait
\* for a transaction that only its own thread can end: lock_timeout breaks the
\* cycle.
CallsReturn ==
    /\ \A c \in Clients : call[c] # NoCall ~> call[c] = NoCall
    /\ \A k \in Keepers : job[k] # NoJob ~> job[k] = NoJob

\* Once sessions are short and nothing crashes any more, repeated calls leave no
\* expired partition attached or pending, however many were interrupted.
ExpiredGoes ==
    <>[](\A ch \in live \cup pending, policy \in Policies :
           ~Expired([now |-> clock, policy |-> policy], ch))
===============================================================================
