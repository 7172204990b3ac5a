---------------------------- MODULE PartitionsProofs ----------------------------
(***************************************************************************)
(* Proofs about Partitions, for any number of processes, clients, months   *)
(* and severities, every retention and every layout the host may have:     *)
(* maintenance drops only what has expired and transactions first, creates *)
(* nothing twice, keeps the months it promised covered, and a durable      *)
(* entry is written at most once.                                          *)
(*                                                                         *)
(* The invariant is proved in two halves: LockInv, who holds the advisory  *)
(* lock and what that call has read, and, with its help, PlansOk, what the *)
(* partitions are and what each call is about to do with them.             *)
(***************************************************************************)
EXTENDS Partitions, TLAPS, FiniteSetTheorems, NaturalsInduction, WellFoundedInduction

-----------------------------------------------------------------------------
(* Who holds the advisory lock, and what a call has read.                  *)

IsEnsure(j) ==
  /\ j.op = "ensure"
  /\ DOMAIN j = {"op", "step", "now", "todo", "made", "newParts", "locks"}

IsDrop(j) ==
  /\ j.op = "drop"
  /\ DOMAIN j = {"op", "step", "now", "policy", "todo", "turn", "finish", "expire",
                 "child", "awaits"}

IsCall(x) ==
  /\ x.phase \in {"first", "retry", "ensure"}
  /\ DOMAIN x = {"phase", "severity", "failClosed", "copies"}

\* Functions are over actors and clients, and calls are calls.
Shape ==
  /\ DOMAIN job = Actors /\ DOMAIN call = Clients /\ DOMAIN outcome = Clients
  /\ \A a \in Actors : job[a] = NoJob \/ IsEnsure(job[a]) \/ IsDrop(job[a])
  /\ \A c \in Clients : call[c] = NoCall \/ IsCall(call[c])

\* A call past the advisory lock holds it.
HoldsLock ==
  \A a \in Actors :
    job[a].op # "none" /\ job[a].step # "queued" => advisory = a

\* Nothing of a durable entry has been committed while its call goes on, and
\* only a call in its "ensure" phase creates partitions.
NothingYet ==
  \A c \in Clients :
    /\ call[c] # NoCall => call[c].copies = 0
    /\ job[c].op = "ensure" => call[c].phase = "ensure"

\* What a drop_expired call has read of the parent whose turn it is: all its
\* pending detaches, but for the one under way, and what is still attached.
ReadIsTrue(j) ==
  /\ j.step \in {"queued", "next"} => j.finish = {} /\ j.expire = {}
  /\ j.finish \subseteq pending /\ j.expire \subseteq live
  /\ \A ch \in j.expire : ch.parent = j.turn
  /\ j.step \notin {"queued", "next"} =>
       \A ch \in pending : ch.parent = j.turn =>
         ch \in j.finish \/ (j.step = "waits" /\ ch = j.child)
  /\ j.step = "waits" => j.child \notin j.finish
  /\ j.step \in {"queued", "next", "turn", "waits", "detached"}

ReadsAreTrue == \A a \in Actors : job[a].op = "drop" => ReadIsTrue(job[a])

OnePerParent == \A one, other \in pending : one.parent = other.parent => one = other

LockInv == Shape /\ HoldsLock /\ NothingYet /\ ReadsAreTrue /\ OnePerParent /\ DurableOnce

-----------------------------------------------------------------------------
LEMMA InitLocks == Init => LockInv
  <1> SUFFICES ASSUME Init PROVE LockInv
      OBVIOUS
  <1> QED
      BY DEF Init, LockInv, Actors, Shape, HoldsLock, NothingYet, ReadsAreTrue, OnePerParent,
             DurableOnce, NoJob, NoCall

-----------------------------------------------------------------------------
(* Steps that leave the calls, the advisory lock and the catalog alone.    *)

LEMMA QuietKeeps ==
  ASSUME LockInv, UNCHANGED <<job, call, outcome, advisory, live, pending>>
  PROVE  LockInv'
  BY DEF LockInv, Shape, HoldsLock, NothingYet, ReadsAreTrue, ReadIsTrue, OnePerParent, DurableOnce

-----------------------------------------------------------------------------
(* ensure_partitions.                                                      *)

LEMMA StartEnsureKeeps ==
  ASSUME LockInv, NEW k \in Keepers, StartEnsure(k)
  PROVE  LockInv'
  <1>1. Shape' /\ HoldsLock'
      BY DEF LockInv, Shape, HoldsLock, StartEnsure, EnsureJob, Become, Actors,
         NoJob, IsEnsure, IsDrop, client
  <1>2. NothingYet' /\ DurableOnce'
      BY ActorsAssumption DEF LockInv, Shape, NothingYet, DurableOnce,
         StartEnsure, EnsureJob, Become, Actors, client
  <1>3. ReadsAreTrue' /\ OnePerParent'
      BY DEF LockInv, Shape, ReadsAreTrue, ReadIsTrue, OnePerParent, StartEnsure,
         EnsureJob, Become, Actors, catalog
  <1> QED
      BY <1>1, <1>2, <1>3 DEF LockInv

LEMMA EnsureLocksKeeps ==
  ASSUME LockInv, NEW a \in Actors, EnsureLocks(a)
  PROVE  LockInv'
  <1>1. Shape' /\ HoldsLock'
      BY ActorsAssumption DEF LockInv, Shape, HoldsLock, EnsureLocks, Become,
         Nobody, NoJob, IsEnsure, IsDrop, client, Actors
  <1>2. NothingYet' /\ DurableOnce'
      BY DEF LockInv, Shape, NothingYet, DurableOnce, EnsureLocks, Become, NoJob,
         Actors, IsEnsure, IsDrop, client
  <1>3. ReadsAreTrue' /\ OnePerParent'
      BY DEF LockInv, Shape, ReadsAreTrue, ReadIsTrue, OnePerParent, EnsureLocks,
         Become, NoJob, IsEnsure, IsDrop, catalog
  <1> QED
      BY <1>1, <1>2, <1>3 DEF LockInv

LEMMA EnsureCreatesKeeps ==
  ASSUME LockInv, NEW a \in Actors, EnsureCreates(a)
  PROVE  LockInv'
  <1>1. Shape' /\ HoldsLock'
      BY DEF LockInv, Shape, HoldsLock, EnsureCreates, Created, Become, NoJob, IsEnsure,
         IsDrop, client
  <1>2. NothingYet' /\ DurableOnce'
      BY DEF LockInv, Shape, NothingYet, DurableOnce, EnsureCreates, Become,
         NoJob, Actors, IsEnsure, IsDrop, client
  <1>3. ReadsAreTrue' /\ OnePerParent'
      BY DEF LockInv, Shape, ReadsAreTrue, ReadIsTrue, OnePerParent,
         EnsureCreates, Created, Become, NoJob, IsEnsure, IsDrop, catalog
  <1> QED
      BY <1>1, <1>2, <1>3 DEF LockInv

LEMMA EnsureCommitsKeeps ==
  ASSUME LockInv, NEW a \in Actors, EnsureCommits(a)
  PROVE  LockInv'
  <1>1. Shape' /\ HoldsLock'
      BY DEF LockInv, Shape, HoldsLock, EnsureCommits, Become, NoJob, NoCall,
         IsCall, NothingYet, IsEnsure, IsDrop
  <1>2. NothingYet' /\ DurableOnce'
      BY DEF LockInv, Shape, NothingYet, DurableOnce, EnsureCommits, Become,
         NoJob, NoCall, Actors, IsCall
  <1>3. ReadsAreTrue' /\ OnePerParent'
      BY DEF LockInv, Shape, ReadsAreTrue, ReadIsTrue, OnePerParent,
         EnsureCommits, Become, NoJob
  <1> QED
      BY <1>1, <1>2, <1>3 DEF LockInv

LEMMA EnsureEndsKeeps ==
  ASSUME LockInv, NEW a \in Actors, job[a].op = "ensure", EnsureEnds(a)
  PROVE  LockInv'
  <1>1. Shape' /\ HoldsLock'
      BY DEF LockInv, Shape, HoldsLock, EnsureEnds, Become, NoJob, NoCall,
         Return, IsEnsure, IsDrop
  <1>2. NothingYet' /\ DurableOnce'
      BY DEF LockInv, Shape, NothingYet, DurableOnce, EnsureEnds, Become, NoJob,
         NoCall, Actors, Return, Failure
  <1>3. ReadsAreTrue' /\ OnePerParent'
      BY DEF LockInv, Shape, ReadsAreTrue, ReadIsTrue, OnePerParent, EnsureEnds,
         Become, NoJob, catalog
  <1> QED
      BY <1>1, <1>2, <1>3 DEF LockInv

-----------------------------------------------------------------------------
(* A durable log() and the session.                                        *)

LEMMA LogDurableKeeps ==
  ASSUME LockInv, NEW c \in Clients, NEW v \in Severities, NEW failClosed \in BOOLEAN,
         LogDurable(c, v, failClosed)
  PROVE  LockInv'
  <1>1. Shape' /\ HoldsLock'
      BY DEF LockInv, Shape, HoldsLock, LogDurable, NoCall, IsCall
  <1>2. NothingYet' /\ DurableOnce'
      BY DEF LockInv, Shape, NothingYet, DurableOnce, LogDurable, NoCall
  <1>3. ReadsAreTrue' /\ OnePerParent'
      BY DEF LockInv, Shape, ReadsAreTrue, ReadIsTrue, OnePerParent, LogDurable,
         catalog
  <1> QED
      BY <1>1, <1>2, <1>3 DEF LockInv

LEMMA InsertAllKeeps ==
  ASSUME LockInv, NEW c \in Clients, InsertAll(c)
  PROVE  LockInv'
  <1>1. Shape' /\ HoldsLock'
      BY DEF LockInv, Shape, HoldsLock, InsertAll, Inserting, Return, NoCall
  <1>2. NothingYet' /\ DurableOnce'
      BY DEF LockInv, Shape, NothingYet, DurableOnce, InsertAll, Inserting,
         Return, NoCall
  <1>3. ReadsAreTrue' /\ OnePerParent'
      BY DEF LockInv, Shape, ReadsAreTrue, ReadIsTrue, OnePerParent, InsertAll,
         catalog
  <1> QED
      BY <1>1, <1>2, <1>3 DEF LockInv

\* Only a missing partition is worth a second try, and it commits nothing.
LEMMA InsertFailsKeeps ==
  ASSUME LockInv, NEW c \in Clients, NEW isMissing \in BOOLEAN, NEW copies \in {0, 1},
         Inserting(c), isMissing => copies = 0, InsertFails(c, isMissing, copies)
  PROVE  LockInv'
  <1>0. IsCall(call[c]) /\ c \in Actors /\ c \in DOMAIN call
      BY DEF LockInv, Shape, Inserting, NoCall, Actors
  <1>1. ASSUME Retries(c, isMissing)
        PROVE  Shape' /\ HoldsLock' /\ NothingYet' /\ DurableOnce'
    <2>1. copies = 0
        BY <1>1, Zenon DEF Retries
    <2>2. call[c].copies = 0
        BY DEF LockInv, NothingYet, Inserting, NoCall
    <2>3. Tried(call[c], copies) = [call[c] EXCEPT !.phase = "ensure", !.copies = 0]
        BY <2>1, <2>2 DEF Tried
    <2>4. IsCall(Tried(call[c], copies)) /\ Tried(call[c], copies).phase = "ensure"
        BY <1>0, <2>3 DEF IsCall
    <2>5. Tried(call[c], copies).copies = 0
        BY <1>0, <2>3 DEF IsCall
    <2>6. call' = [call EXCEPT ![c] = Tried(call[c], copies)] /\ job' = [job EXCEPT ![c] = EnsureJob]
        BY <1>1, Zenon DEF InsertFails, Become
    <2>7. outcome' = outcome /\ advisory' = advisory
        BY <1>1, Zenon DEF InsertFails
    <2>8. Shape' /\ HoldsLock'
        BY <1>0, <2>4, <2>5, <2>6, <2>7
        DEF LockInv, Shape, HoldsLock, EnsureJob, NoJob, NoCall, IsEnsure, IsDrop
    <2>9. NothingYet' /\ DurableOnce'
        BY <1>0, <2>4, <2>5, <2>6, <2>7 DEF LockInv, Shape, NothingYet, DurableOnce, EnsureJob, Actors
    <2> QED
        BY <2>8, <2>9
  <1>2. ASSUME ~Retries(c, isMissing)
        PROVE  Shape' /\ HoldsLock' /\ NothingYet' /\ DurableOnce'
    <2>1. Shape' /\ HoldsLock'
        BY <1>0, <1>2 DEF LockInv, Shape, HoldsLock, InsertFails, Return, NoCall
    <2>2. NothingYet' /\ DurableOnce'
        BY <1>0, <1>2 DEF LockInv, Shape, NothingYet, DurableOnce, InsertFails, Return, Actors,
           IsCall, NoCall, Failure, Inserting
    <2> QED
        BY <2>1, <2>2
  <1>3. ReadsAreTrue' /\ OnePerParent'
      BY DEF LockInv, Shape, ReadsAreTrue, ReadIsTrue, OnePerParent, InsertFails,
         EnsureJob, Become, Actors, catalog
  <1> QED
      BY <1>1, <1>2, <1>3 DEF LockInv

LEMMA SessionEndsKeeps ==
  ASSUME LockInv, NEW c \in Clients, SessionEnds(c)
  PROVE  LockInv'
  <1>1. Shape' /\ HoldsLock'
      BY DEF LockInv, Shape, HoldsLock, SessionEnds, Released, NoJob, IsEnsure, IsDrop
  <1>2. NothingYet' /\ DurableOnce'
      BY DEF LockInv, Shape, NothingYet, DurableOnce, SessionEnds, Released, Actors, NoJob,
         IsEnsure, IsDrop
  <1>3. ReadsAreTrue' /\ OnePerParent'
      BY DEF LockInv, Shape, ReadsAreTrue, ReadIsTrue, OnePerParent, SessionEnds, Released,
         catalog, NoJob, IsEnsure, IsDrop
  <1> QED
      BY <1>1, <1>2, <1>3 DEF LockInv

-----------------------------------------------------------------------------
(* drop_expired.                                                           *)

LEMMA StartDropKeeps ==
  ASSUME LockInv, NEW k \in Keepers, NEW policy \in Policies, StartDrop(k, policy)
  PROVE  LockInv'
  <1>1. Shape' /\ HoldsLock'
      BY DEF LockInv, Shape, HoldsLock, StartDrop, Become, Actors, NoJob,
         IsEnsure, IsDrop, client
  <1>2. NothingYet' /\ DurableOnce'
      BY DEF LockInv, Shape, NothingYet, DurableOnce, StartDrop, Become, Actors,
         client
  <1>3. ReadsAreTrue' /\ OnePerParent'
      BY DEF LockInv, Shape, ReadsAreTrue, ReadIsTrue, OnePerParent, StartDrop,
         Become, Actors, catalog
  <1> QED
      BY <1>1, <1>2, <1>3 DEF LockInv

LEMMA DropLocksKeeps ==
  ASSUME LockInv, NEW k \in Keepers, DropLocks(k)
  PROVE  LockInv'
  <1>1. Shape' /\ HoldsLock'
      BY ActorsAssumption DEF LockInv, Shape, HoldsLock, DropLocks, Become,
         Actors, Nobody, client, NoJob, IsEnsure, IsDrop
  <1>2. NothingYet' /\ DurableOnce'
      BY DEF LockInv, Shape, NothingYet, DurableOnce, DropLocks, Become, Actors,
         client, NoJob, IsEnsure, IsDrop
  <1>3. ReadsAreTrue' /\ OnePerParent'
      BY DEF LockInv, Shape, ReadsAreTrue, ReadIsTrue, OnePerParent, DropLocks,
         Become, Actors, catalog, NoJob, IsEnsure, IsDrop
  <1> QED
      BY <1>1, <1>2, <1>3 DEF LockInv

LEMMA ReadChildrenKeeps ==
  ASSUME LockInv, NEW k \in Keepers, ReadChildren(k)
  PROVE  LockInv'
  <1>1. Shape' /\ HoldsLock'
      BY DEF LockInv, Shape, HoldsLock, ReadChildren, Become, Actors, client,
         NoJob, IsEnsure, IsDrop
  <1>2. NothingYet' /\ DurableOnce'
      BY DEF LockInv, Shape, NothingYet, DurableOnce, ReadChildren, Become,
         Actors, client, NoJob, IsEnsure, IsDrop
  <1>3. ReadsAreTrue' /\ OnePerParent'
      BY DEF LockInv, Shape, ReadsAreTrue, ReadIsTrue, OnePerParent,
         ReadChildren, Become, Actors, catalog, PendingOf, ExpiredOf, NoJob,
         IsEnsure, IsDrop
  <1> QED
      BY <1>1, <1>2, <1>3 DEF LockInv

\* Of the parent whose turn it is nothing else is pending, and no other call
\* has read anything: it would hold the advisory lock.
LEMMA DetachStartsKeeps ==
  ASSUME LockInv, NEW k \in Keepers, DetachStarts(k)
  PROVE  LockInv'
  <1>1. Shape' /\ HoldsLock'
      BY DEF LockInv, Shape, HoldsLock, DetachStarts, Detaching, Become, Actors, client,
         NoJob, IsEnsure, IsDrop
  <1>2. NothingYet' /\ DurableOnce'
      BY DEF LockInv, Shape, NothingYet, DurableOnce, DetachStarts, Detaching, Become,
         Actors, client, NoJob, IsEnsure, IsDrop
  <1>3. ReadsAreTrue' /\ OnePerParent'
      BY DEF LockInv, Shape, ReadsAreTrue, ReadIsTrue, OnePerParent,
         DetachStarts, Detaching, Become, Actors, HoldsLock, NoJob, IsEnsure, IsDrop
  <1> QED
      BY <1>1, <1>2, <1>3 DEF LockInv

LEMMA DetachedKeeps ==
  ASSUME LockInv, NEW k \in Keepers, Detached(k)
  PROVE  LockInv'
  <1>1. Shape' /\ HoldsLock'
      BY DEF LockInv, Shape, HoldsLock, Detached, Become, Actors, client, NoJob,
         IsEnsure, IsDrop
  <1>2. NothingYet' /\ DurableOnce'
      BY DEF LockInv, Shape, NothingYet, DurableOnce, Detached, Become, Actors,
         client, NoJob, IsEnsure, IsDrop
  <1>3. ReadsAreTrue' /\ OnePerParent'
      BY DEF LockInv, Shape, ReadsAreTrue, ReadIsTrue, OnePerParent, Detached,
         Become, Actors, HoldsLock, NoJob, IsEnsure, IsDrop
  <1> QED
      BY <1>1, <1>2, <1>3 DEF LockInv

LEMMA DropTableKeeps ==
  ASSUME LockInv, NEW k \in Keepers, DropTable(k)
  PROVE  LockInv'
  <1>1. Shape' /\ HoldsLock'
      BY DEF LockInv, Shape, HoldsLock, DropTable, Become, Actors, client, NoJob,
         IsEnsure, IsDrop
  <1>2. NothingYet' /\ DurableOnce'
      BY DEF LockInv, Shape, NothingYet, DurableOnce, DropTable, Become, Actors,
         client, NoJob, IsEnsure, IsDrop
  <1>3. ReadsAreTrue' /\ OnePerParent'
      BY DEF LockInv, Shape, ReadsAreTrue, ReadIsTrue, OnePerParent, DropTable,
         Become, Actors, NoJob, IsEnsure, IsDrop
  <1> QED
      BY <1>1, <1>2, <1>3 DEF LockInv

LEMMA DropTurnEndsKeeps ==
  ASSUME LockInv, NEW k \in Keepers, DropTurnEnds(k)
  PROVE  LockInv'
  <1>1. Shape' /\ HoldsLock'
      BY DEF LockInv, Shape, HoldsLock, DropTurnEnds, Become, Actors, client,
         NoJob, IsEnsure, IsDrop
  <1>2. NothingYet' /\ DurableOnce'
      BY DEF LockInv, Shape, NothingYet, DurableOnce, DropTurnEnds, Become,
         Actors, client, NoJob, IsEnsure, IsDrop
  <1>3. ReadsAreTrue' /\ OnePerParent'
      BY DEF LockInv, Shape, ReadsAreTrue, ReadIsTrue, OnePerParent,
         DropTurnEnds, Become, Actors, catalog, NoJob, IsEnsure, IsDrop
  <1> QED
      BY <1>1, <1>2, <1>3 DEF LockInv

LEMMA DropEndsKeeps ==
  ASSUME LockInv, NEW k \in Keepers, job[k].op = "drop", DropEnds(k)
  PROVE  LockInv'
  <1>1. Shape' /\ HoldsLock'
      BY DEF LockInv, Shape, HoldsLock, DropEnds, Become, Actors, NoJob, client,
         IsEnsure, IsDrop
  <1>2. NothingYet' /\ DurableOnce'
      BY DEF LockInv, Shape, NothingYet, DurableOnce, DropEnds, Become, Actors,
         NoJob, client
  <1>3. ReadsAreTrue' /\ OnePerParent'
      BY DEF LockInv, Shape, ReadsAreTrue, ReadIsTrue, OnePerParent, DropEnds,
         Become, Actors, NoJob, catalog
  <1> QED
      BY <1>1, <1>2, <1>3 DEF LockInv

-----------------------------------------------------------------------------
LEMMA NextLocks == LockInv /\ [Next]_vars => LockInv'
  <1> SUFFICES ASSUME LockInv, [Next]_vars PROVE LockInv'
      OBVIOUS
  <1>1. CASE UNCHANGED vars
      BY <1>1, QuietKeeps DEF vars, catalog, client
  <1>2. CASE Tick
      BY <1>2, QuietKeeps DEF Tick, catalog, client
  <1>3. ASSUME NEW a \in Actors, EnsureStep(a) \/ EnsureCrashes(a) PROVE LockInv'
    <2>1. CASE EnsureTimesOut(a) \/ EnsureCrashes(a)
        BY <2>1, EnsureEndsKeeps DEF EnsureTimesOut, EnsureCrashes
    <2> QED
        BY <1>3, <2>1, EnsureLocksKeeps, EnsureCreatesKeeps, EnsureCommitsKeeps DEF EnsureStep
  <1>4. ASSUME NEW k \in Keepers, StartEnsure(k) \/ Health(k) PROVE LockInv'
    <2>1. CASE Health(k)
        BY <2>1, QuietKeeps DEF Health, catalog, client
    <2> QED
        BY <1>4, <2>1, StartEnsureKeeps
  <1>5. ASSUME NEW k \in Keepers, DropStep(k) \/ DropCrashes(k) PROVE LockInv'
    <2>1. CASE DropReturns(k) \/ DropTimesOut(k) \/ DropCrashes(k)
        BY <2>1, DropEndsKeeps DEF DropReturns, DropTimesOut, DropCrashes
    <2> QED
        BY <1>5, <2>1, DropLocksKeeps, ReadChildrenKeeps, DetachStartsKeeps, DetachedKeeps,
           DropTableKeeps, DropTurnEndsKeeps DEF DropStep
  <1>6. ASSUME NEW k \in Keepers, NEW policy \in Policies, StartDrop(k, policy) PROVE LockInv'
      BY <1>6, StartDropKeeps
  <1>7. ASSUME NEW c \in Clients, ClientStep(c) \/ InsertBreaks(c) PROVE LockInv'
    <2>1. CASE InsertMissing(c)
        BY <2>1, InsertFailsKeeps DEF InsertMissing
    <2>2. CASE InsertBreaks(c)
        BY <2>2, InsertFailsKeeps DEF InsertBreaks
    <2> QED
        BY <1>7, <2>1, <2>2, InsertAllKeeps, SessionEndsKeeps DEF ClientStep
  <1>8. ASSUME NEW c \in Clients, NEW v \in Severities, SessionWrites(c, v) PROVE LockInv'
      BY <1>8, QuietKeeps DEF SessionWrites, catalog
  <1>9. ASSUME NEW c \in Clients, NEW v \in Severities, NEW failClosed \in BOOLEAN,
               LogDurable(c, v, failClosed)
        PROVE  LockInv'
      BY <1>9, LogDurableKeeps
  <1> QED
      BY <1>1, <1>2, <1>3, <1>4, <1>5, <1>6, <1>7, <1>8, <1>9 DEF Next

-----------------------------------------------------------------------------
(* What the partitions are, and what became of those taken away.           *)

IsParent(p) == p = Transaction \/ (p = Part(p.values) /\ IsPart(p.values))

\* A monthly partition; of those the library makes, each is one month.
IsMonthly(ch) ==
  /\ IsParent(ch.parent)
  /\ ch.first \in Nat /\ ch.last \in Nat /\ ch.first <= ch.last
  /\ ch.made = "library" => ch.first = ch.last

Gone == pending \cup loose \cup dropped

\* No partition that the library made holds the transactions of ch's rows.
TransactionsGone(ch) ==
  \A tr \in live :
    tr.parent = Transaction /\ tr.made = "library" => tr.last < ch.first \/ ch.last < tr.first

CatalogOk ==
  /\ live \cap pending = {}
  /\ \A values \in parts : IsPart(values)
  /\ \A ch \in live \cup Gone : IsMonthly(ch)
  /\ \A ch \in Gone :
       /\ Upper(ch) < clock
       /\ ch.parent # Transaction => TransactionsGone(ch)

ClockOk == clock \in 0 .. MaxTime /\ ensured \in Int /\ assured \in Int

\* Every row of the months that ensure_partitions or health spoke of fits.
Ahead ==
  \A m \in Int : MonthOf(clock) <= m /\ (m <= ensured \/ m <= assured) =>
    \A v \in Severities : Fits(v, m)

-----------------------------------------------------------------------------
(* What the calls have read and are about to do.                           *)

Recent(j) == j.now \in Nat /\ j.now <= clock /\ clock <= j.now + 1

\* The months that ensure_partitions looks at, of a parent it has dealt with.
Full(j, p) ==
  \A m \in Months(j.now) : \E ch \in live \cup j.made : ch.parent = p /\ Covers(ch, m)

Known(j) == Parts \cup {Part(values) : values \in j.newParts}

\* Of the transaction table and of each severity: its turn is still to come, or
\* its months are there, or it has none.
Progress(j) ==
  /\ Transaction \in j.todo \/ Full(j, Transaction)
  /\ \A v \in Severities : \E p \in j.todo \cup Known(j) :
       v \in ListValues(p) /\ (p \in j.todo \/ IsPlain(p) \/ Full(j, p))

\* Nothing is attached, or still pending, where a new partition goes.
Free(new) ==
  \A ch \in live \cup pending :
    ch.parent = new.parent => ch.last < new.first \/ new.last < ch.first

EnsureOk(j) ==
  /\ Recent(j)
  /\ \A ch \in Gone : ch.last < MonthOf(j.now)
  /\ j.step \in {"queued", "locked"}
  /\ j.step = "queued" => j.made = {}
  /\ \A p \in j.todo : IsParent(p)
  /\ \A values \in j.newParts : IsPart(values)
  /\ \A new \in j.made : IsMonthly(new) /\ MonthOf(j.now) <= new.first /\ Free(new)
  /\ j.step = "locked" => Progress(j)

\* No expired partition of the transaction table is attached any more.
NoTransactionLeft(j) == \A tr \in live : tr.parent = Transaction => ~Expired(j, tr)

DropOk(j) ==
  /\ Recent(j) /\ j.policy \in Policies
  /\ \A ch \in j.expire : Expired(j, ch)
  /\ j.step = "waits" => j.child \in pending
  /\ j.step = "detached" => j.child \in loose /\ Expired(j, j.child)
  /\ j.step = "next" => Transaction \in j.todo \/ NoTransactionLeft(j)
  /\ j.step \in {"turn", "waits", "detached"} =>
       IF j.turn = Transaction
       THEN \A tr \in live : tr.parent = Transaction /\ Expired(j, tr) => tr \in j.expire
       ELSE Transaction \notin j.todo /\ NoTransactionLeft(j)

JobOk(j) == (j.op = "ensure" => EnsureOk(j)) /\ (j.op = "drop" => DropOk(j))

PlansOk == CatalogOk /\ ClockOk /\ Ahead /\ \A a \in Actors : JobOk(job[a])

-----------------------------------------------------------------------------
(* Months, and the least and the greatest of a set.                        *)

LEMMA Product ==
  ASSUME NEW n \in Nat, NEW m \in Nat, NEW t \in Nat, n <= m
  PROVE  n * t <= m * t
  OBVIOUS

LEMMA MonthOfTime ==
  ASSUME NEW t \in Nat
  PROVE  MonthOf(t) \in Nat /\ MonthOf(t) * Ticks <= t /\ t < (MonthOf(t) + 1) * Ticks
  BY TimeAssumption DEF MonthOf

LEMMA MonthMonotone ==
  ASSUME NEW t \in Nat, NEW u \in Nat, t <= u
  PROVE  MonthOf(t) <= MonthOf(u)
  BY TimeAssumption DEF MonthOf

\* A month that has ended is before the present one.
LEMMA MonthPast ==
  ASSUME NEW n \in Nat, NEW t \in Nat, (n + 1) * Ticks <= t
  PROVE  n < MonthOf(t)
  <1> DEFINE q == MonthOf(t)
  <1>1. q \in Nat /\ t < (q + 1) * Ticks /\ Ticks \in Nat
      BY MonthOfTime, TimeAssumption
  <1> HIDE DEF q
  <1>2. CASE q <= n
    <2>1. (q + 1) * Ticks <= (n + 1) * Ticks
        BY <1>1, <1>2, Product
    <2>2. (q + 1) * Ticks \in Nat /\ (n + 1) * Ticks \in Nat
        BY <1>1
    <2> QED
        BY <1>1, <2>1, <2>2
  <1> QED
      BY <1>1, <1>2 DEF q

LEMMA LeastNat ==
  ASSUME NEW S, S \subseteq Nat, S # {}
  PROVE  \E m \in S : \A y \in S : m <= y
  <1>1. IsWellFoundedOn(OpToRel(<, Nat), Nat)
      BY NatLessThanWellFounded
  <1>2. PICK m \in S : \A y \in S : ~(<<y, m>> \in OpToRel(<, Nat))
      BY <1>1, WFMin
  <1>3. \A y \in S : m <= y
    <2> SUFFICES ASSUME NEW y \in S PROVE m <= y
        OBVIOUS
    <2>1. ~(y < m) /\ y \in Nat /\ m \in Nat
        BY <1>2 DEF OpToRel
    <2> QED
        BY <2>1
  <1> QED
      BY <1>3

LEMMA SmallInt ==
  ASSUME NEW i, i \in SmallInts
  PROVE  i \in Int /\ i - Smallest \in Nat
  <1>1. Smallest \in Int /\ 32767 \in Int
      BY DEF Smallest
  <1> QED
      BY <1>1 DEF SmallInts

LEMMA MinOfSeverities ==
  ASSUME NEW S, S \subseteq SmallInts, S # {}
  PROVE  \E m \in S : \A y \in S : m <= y
  <1> DEFINE T == {i - Smallest : i \in S}
  <1>1. ASSUME NEW i \in S PROVE i \in Int /\ i - Smallest \in Nat
    <2>1. i \in SmallInts
        OBVIOUS
    <2> QED
        BY <2>1, SmallInt
  <1>2. T \subseteq Nat /\ T # {}
      BY <1>1
  <1>3. \E t \in T : \A y \in T : t <= y
    <2> HIDE DEF T
    <2> QED
        BY <1>2, LeastNat
  <1>3a. PICK t \in T : \A y \in T : t <= y
      BY <1>3
  <1>4. PICK m \in S : t = m - Smallest
      OBVIOUS
  <1>5. \A y \in S : m <= y
    <2> SUFFICES ASSUME NEW y \in S PROVE m <= y
        OBVIOUS
    <2>1. y - Smallest \in T
        OBVIOUS
    <2>2. m - Smallest <= y - Smallest
        BY <2>1, <1>3a, <1>4
    <2> QED
        BY <2>2, <1>1 DEF Smallest
  <1> QED
      BY <1>5

LEMMA MinIn ==
  ASSUME NEW S, S # {}, S \subseteq Nat \/ S \subseteq SmallInts
  PROVE  Min(S) \in S /\ \A y \in S : Min(S) <= y
  <1>1. \E m \in S : \A y \in S : m <= y
      BY LeastNat, MinOfSeverities
  <1> QED
      BY <1>1 DEF Min

LEMMA MaxIn ==
  ASSUME NEW n \in Nat, NEW S, S \subseteq 0 .. n, S # {}
  PROVE  Max(S) \in S /\ \A y \in S : y <= Max(S)
  <1> DEFINE T == {n - i : i \in S}
  <1>0. \A i \in S : i \in Nat /\ n - i \in Nat
      OBVIOUS
  <1>1. T \subseteq Nat /\ T # {}
      BY <1>0
  <1>2. PICK t \in T : \A y \in T : t <= y
      BY <1>1, LeastNat
  <1>3. PICK m \in S : t = n - m
      OBVIOUS
  <1>4. \A y \in S : m >= y
    <2> SUFFICES ASSUME NEW y \in S PROVE m >= y
        OBVIOUS
    <2>1. n - y \in T
        OBVIOUS
    <2>2. n - m <= n - y
        BY <2>1, <1>2, <1>3
    <2> QED
        BY <2>2, <1>0
  <1>5. Max(S) \in S /\ \A y \in S : Max(S) >= y
      BY <1>4 DEF Max
  <1> QED
      BY <1>5, <1>0

-----------------------------------------------------------------------------
(* Retentions.                                                             *)

LEMMA LimitsTyped ==
  ASSUME NEW policy \in Policies
  PROVE  /\ Limits(policy) \subseteq 0 .. MaxRetention
         /\ policy.transaction = None \/ policy.transaction \in 0 .. MaxRetention
  BY PoliciesAssumption DEF Retentions, Limits

LEMMA LongestIs ==
  ASSUME NEW policy \in Policies, NEW values, Longest(policy, values) # None
  PROVE  /\ values # {} /\ Longest(policy, values) \in Nat
         /\ Longest(policy, values) \in Limits(policy)
         /\ \A v \in values : /\ v \in DOMAIN policy.limits /\ policy.limits[v] # None
                              /\ policy.limits[v] \in Nat
                              /\ policy.limits[v] <= Longest(policy, values)
  <1> DEFINE S == {policy.limits[v] : v \in values}
  <1>1. /\ values # {}
        /\ \A v \in values : v \in DOMAIN policy.limits /\ policy.limits[v] # None
        /\ Longest(policy, values) = Max(S)
      BY DEF Longest
  <1>2. S # {} /\ S \subseteq 0 .. MaxRetention
      BY <1>1, PoliciesAssumption DEF Retentions
  <1>3. MaxRetention \in Nat
      BY TimeAssumption
  <1>4. Max(S) \in S /\ \A y \in S : y <= Max(S)
      BY <1>2, <1>3, MaxIn
  <1>5. S \subseteq Nat
      BY <1>2, <1>3
  <1>6. S \subseteq Limits(policy)
      BY <1>1 DEF Limits
  <1> HIDE DEF S
  <1>7. /\ Longest(policy, values) \in Nat /\ Longest(policy, values) \in Limits(policy)
        /\ \A y \in S : y \in Nat /\ y <= Longest(policy, values)
      BY <1>1, <1>4, <1>5, <1>6
  <1> QED
      BY <1>1, <1>7 DEF S

\* The shortest of all retentions, that of the transaction rows included.
LEMMA TransactionLimitIs ==
  ASSUME NEW policy \in Policies
  PROVE  /\ TransactionLimit(policy) # None =>
              /\ TransactionLimit(policy) \in Nat
              /\ TransactionLimit(policy) \in Limits(policy) \cup {policy.transaction}
         /\ \A limit \in Limits(policy) :
              TransactionLimit(policy) # None /\ TransactionLimit(policy) <= limit
  <1> DEFINE L == Limits(policy)
             t == policy.transaction
  <1>1. L \subseteq Nat /\ (t = None \/ t \in Nat)
      BY LimitsTyped, TimeAssumption
  <1>2. CASE L = {}
      BY <1>1, <1>2 DEF TransactionLimit
  <1>3. CASE L # {} /\ t = None
    <2>1. TransactionLimit(policy) = Min(L)
        BY <1>3 DEF TransactionLimit
    <2>2. Min(L) \in L /\ \A y \in L : Min(L) <= y
        BY <1>1, <1>3, MinIn
    <2> QED
        BY <1>1, <2>1, <2>2, MarkersAssumption
  <1>4. CASE L # {} /\ t # None
    <2> DEFINE S == L \cup {t}
    <2>1. TransactionLimit(policy) = Min(S)
        BY <1>4 DEF TransactionLimit
    <2>2. S # {} /\ S \subseteq Nat
        BY <1>1, <1>4
    <2>3. Min(S) \in S /\ \A y \in S : Min(S) <= y
        BY <2>2, MinIn
    <2> QED
        BY <1>1, <2>1, <2>2, <2>3, MarkersAssumption
  <1> QED
      BY <1>2, <1>3, <1>4


-----------------------------------------------------------------------------
(* Parents, and whether a row fits.                                        *)

LEMMA TransactionIsNoPart ==
  ASSUME NEW values
  PROVE  /\ Transaction # Part(values)
         /\ Part(values).values = values /\ ListValues(Part(values)) = values
         /\ Transaction.values = {} /\ ListValues(Transaction) = {}
  BY DEF Transaction, Part, Table, ListValues

\* The next parent is one that is left to do.
LEMMA TurnIn ==
  ASSUME NEW todo, todo # {}, \A p \in todo : IsParent(p)
  PROVE  Turn(todo) \in todo
  <1>1. CASE Transaction \in todo
      BY <1>1 DEF Turn
  <1>2. CASE Transaction \notin todo
    <2> DEFINE least(p) == Min(ListValues(p))
               S == {least(p) : p \in todo}
    <2>1. ASSUME NEW p \in todo PROVE least(p) \in SmallInts
      <3>1. ListValues(p) # {} /\ ListValues(p) \subseteq SmallInts
          BY <1>2 DEF IsParent, IsPart, ListValues
      <3>2. Min(ListValues(p)) \in ListValues(p)
          BY <3>1, MinIn
      <3> QED
          BY <3>1, <3>2
    <2>2. S # {} /\ S \subseteq SmallInts
        BY <2>1
    <2> HIDE DEF least
    <2>3. \E m \in S : \A y \in S : m <= y
      <3> HIDE DEF S
      <3> QED
          BY <2>2, MinOfSeverities
    <2>4. PICK m \in S : \A y \in S : m <= y
        BY <2>3
    <2>5. PICK p \in todo : m = least(p)
        OBVIOUS
    <2>6. \A q \in todo : least(p) <= least(q)
        BY <2>4, <2>5
    <2>7. \E q \in todo : \A r \in todo : Min(ListValues(q)) <= Min(ListValues(r))
        BY <2>6 DEF least
    <2> QED
        BY <1>2, <2>7 DEF Turn
  <1> QED
      BY <1>1, <1>2

\* A row that fits still does when no partition of its month is taken away.
LEMMA FitsKept ==
  ASSUME NEW v, NEW m, Fits(v, m), parts \subseteq parts',
         \A ch \in live : Covers(ch, m) => ch \in live'
  PROVE  Fits(v, m)'
  BY DEF Fits, PartsOf, Parts, IsPlain, ListValues, Part, Transaction, Table, Covers

LEMMA ParentSevers ==
  ASSUME CatalogOk, NEW p \in Parts
  PROVE  IsParent(p) /\ p # Transaction /\ p = Part(p.values) /\ p.values \in parts
  BY TransactionIsNoPart DEF CatalogOk, Parts, IsParent

LEMMA MonthsOf ==
  ASSUME NEW t \in Nat
  PROVE  /\ Months(t) \subseteq Nat
         /\ \A m \in Int : m \in Months(t) <=> MonthOf(t) <= m /\ m <= MonthOf(t) + MonthsAhead
  <1>1. MonthOf(t) \in Nat /\ MonthsAhead \in Nat
      BY MonthOfTime, TimeAssumption
  <1> QED
      BY <1>1 DEF Months

LEMMA UpperIs ==
  ASSUME NEW ch, IsMonthly(ch)
  PROVE  Upper(ch) \in Nat /\ Upper(ch) = (ch.last + 1) * Ticks /\ ch.last \in Nat
  BY TimeAssumption DEF Upper, IsMonthly

\* Whatever maintenance took away had ended a while ago.
LEMMA GoneIsPast ==
  ASSUME NEW ch, IsMonthly(ch), NEW t \in Nat, Upper(ch) <= t
  PROVE  ch.last < MonthOf(t)
  BY UpperIs, MonthPast

\* An expired partition had ended, by as much as the retention.
LEMMA ExpiredIsPast ==
  ASSUME NEW j, j.policy \in Policies, j.now \in Nat, NEW ch, IsMonthly(ch), Expired(j, ch)
  PROVE  /\ LimitOf(j.policy, ch.parent) \in Nat
         /\ Upper(ch) \in Nat /\ Upper(ch) < j.now
         /\ Upper(ch) < j.now - LimitOf(j.policy, ch.parent)
  <1>1. LimitOf(j.policy, ch.parent) \in Nat
    <2>1. LimitOf(j.policy, ch.parent) # None
        BY DEF Expired
    <2> QED
        BY <2>1, LongestIs, TransactionLimitIs DEF LimitOf
  <1>2. Upper(ch) \in Nat
      BY UpperIs
  <1>3. Upper(ch) < j.now - LimitOf(j.policy, ch.parent)
      BY DEF Expired
  <1> QED
      BY <1>1, <1>2, <1>3

\* When the activity of some month has expired, the transactions of that month
\* have: their retention is not longer.
LEMMA TransactionExpiresFirst ==
  ASSUME NEW j, j.policy \in Policies, j.now \in 0 .. MaxTime,
         NEW ch, IsMonthly(ch), ch.parent # Transaction, Expired(j, ch),
         NEW tr, IsMonthly(tr), tr.parent = Transaction, tr.last <= ch.last
  PROVE  Expired(j, tr)
  <1>1. j.now \in Nat /\ MaxTime \in Nat /\ Unbounded \in Nat /\ Ticks \in Nat /\ Ticks # 0
      BY TimeAssumption
  <1>2. LimitOf(j.policy, ch.parent) = Longest(j.policy, ListValues(ch.parent))
      BY DEF LimitOf
  <1>3. LimitOf(j.policy, ch.parent) # None
      BY DEF Expired
  <1>4. LimitOf(j.policy, ch.parent) \in Limits(j.policy) /\ LimitOf(j.policy, ch.parent) \in Nat
      BY <1>2, <1>3, LongestIs
  <1>5. /\ LimitOf(j.policy, Transaction) # None /\ LimitOf(j.policy, Transaction) \in Nat
        /\ LimitOf(j.policy, Transaction) <= LimitOf(j.policy, ch.parent)
      BY <1>4, TransactionLimitIs DEF LimitOf
  <1>6. Upper(ch) \in Nat /\ Upper(ch) < j.now - LimitOf(j.policy, ch.parent) /\ Upper(ch) < j.now
      BY <1>1, ExpiredIsPast
  <1>7. Upper(tr) \in Nat /\ Upper(tr) <= Upper(ch)
    <2>1. ch.last + 1 \in Nat /\ tr.last + 1 \in Nat /\ tr.last + 1 <= ch.last + 1
        BY DEF IsMonthly
    <2>2. (tr.last + 1) * Ticks <= (ch.last + 1) * Ticks
        BY <2>1, <1>1, Product
    <2> QED
        BY <2>2, UpperIs
  <1>8. tr.last # Unbounded
    <2>1. tr.last < MonthOf(j.now)
        BY <1>1, <1>6, <1>7, GoneIsPast
    <2>2. MonthOf(j.now) \in Nat /\ MonthOf(j.now) * Ticks <= j.now
        BY <1>1, MonthOfTime
    <2>3. MonthOf(j.now) <= MonthOf(j.now) * Ticks
      <3>1. 1 * MonthOf(j.now) <= Ticks * MonthOf(j.now)
          BY <1>1, <2>2, Product
      <3> QED
          BY <3>1, <2>2, <1>1
    <2>4. tr.last \in Nat /\ MonthOf(j.now) * Ticks \in Nat
        BY <2>2, <1>1 DEF IsMonthly
    <2> QED
        BY <2>1, <2>2, <2>3, <2>4, <1>1, TimeAssumption
  <1>9. Upper(tr) < j.now - LimitOf(j.policy, Transaction)
      BY <1>1, <1>4, <1>5, <1>6, <1>7
  <1> QED
      BY <1>5, <1>8, <1>9 DEF Expired


-----------------------------------------------------------------------------
(* A step that only moves one call on.                                     *)

Times == <<clock, ensured, assured>>

LEMMA CatalogSame ==
  ASSUME CatalogOk, ClockOk, Ahead, UNCHANGED <<catalog, Times>>
  PROVE  CatalogOk' /\ ClockOk' /\ Ahead'
  <1>1. UNCHANGED <<parts, live, pending, loose, dropped, clock, ensured, assured>>
      BY DEF catalog, Times
  <1>2. CatalogOk' /\ ClockOk'
      BY <1>1 DEF CatalogOk, ClockOk, Gone, TransactionsGone
  <1>3. Ahead'
    <2>1. \A v, m : Fits(v, m) => Fits(v, m)'
        BY <1>1, FitsKept
    <2> QED
        BY <1>1, <2>1 DEF Ahead
  <1> QED
      BY <1>2, <1>3

LEMMA JobSame ==
  ASSUME NEW j, JobOk(j), UNCHANGED <<catalog, Times>>
  PROVE  JobOk(j)'
  <1>1. UNCHANGED <<parts, live, pending, loose, dropped, clock>>
      BY DEF catalog, Times
  <1>2. EnsureOk(j) => EnsureOk(j)'
      BY <1>1 DEF EnsureOk, Gone, Recent, Free, Progress, Full, Known, Parts
  <1>3. DropOk(j) => DropOk(j)'
      BY <1>1 DEF DropOk, Recent, NoTransactionLeft
  <1> QED
      BY <1>2, <1>3 DEF JobOk

LEMMA JobStep ==
  ASSUME PlansOk, DOMAIN job = Actors, UNCHANGED <<catalog, Times>>,
         NEW a \in Actors, NEW j, JobOk(j), job' = [job EXCEPT ![a] = j]
  PROVE  PlansOk'
  <1>1. CatalogOk' /\ ClockOk' /\ Ahead'
      BY CatalogSame DEF PlansOk
  <1>2. ASSUME NEW b \in Actors PROVE JobOk(job[b])'
    <2>1. JobOk(job'[b])
        BY DEF PlansOk
    <2>2. PICK x : x = job'[b]
        OBVIOUS
    <2>3. JobOk(x)'
        BY <2>1, <2>2, JobSame
    <2>4. JobOk(x)' => JobOk(job[b])'
        BY <2>2 DEF JobOk, EnsureOk, DropOk, Recent, Free, Progress, Full, Known, NoTransactionLeft,
           Gone, Parts
    <2> QED
        BY <2>3, <2>4
  <1> QED
      BY <1>1, <1>2 DEF PlansOk

LEMMA NoJobOk ==
  JobOk(NoJob)
  BY DEF JobOk, NoJob

LEMMA QuietPlans ==
  ASSUME PlansOk, UNCHANGED <<catalog, Times, job>>
  PROVE  PlansOk'
  <1>1. CatalogOk' /\ ClockOk' /\ Ahead'
      BY CatalogSame DEF PlansOk
  <1>2. \A b \in Actors : JobOk(job[b])'
      BY DEF PlansOk, catalog, Times, JobOk, EnsureOk, DropOk, Recent, Free, Progress, Full, Known,
         NoTransactionLeft, Gone, Parts
  <1> QED
      BY <1>1, <1>2 DEF PlansOk


-----------------------------------------------------------------------------
(* What an ensure_partitions call plans.                                   *)

LEMMA GoneBy ==
  ASSUME CatalogOk, ClockOk, NEW t \in Nat, clock <= t + 1
  PROVE  \A ch \in Gone : ch.last < MonthOf(t)
  <1> SUFFICES ASSUME NEW ch \in Gone PROVE ch.last < MonthOf(t)
      OBVIOUS
  <1>1. IsMonthly(ch) /\ Upper(ch) < clock
      BY DEF CatalogOk
  <1>2. Upper(ch) \in Nat /\ clock \in Nat
      BY <1>1, UpperIs, TimeAssumption DEF ClockOk
  <1>3. Upper(ch) <= t
      BY <1>1, <1>2
  <1> QED
      BY <1>1, <1>3, GoneIsPast

LEMMA ClockNat ==
  ASSUME ClockOk
  PROVE  clock \in Nat
  BY TimeAssumption DEF ClockOk

LEMMA EnsureJobOk ==
  ASSUME CatalogOk, ClockOk
  PROVE  JobOk(EnsureJob) /\ EnsureJob # NoJob
  <1>1. clock \in Nat /\ clock <= clock + 1
      BY ClockNat
  <1>2. \A ch \in Gone : ch.last < MonthOf(clock)
      BY <1>1, GoneBy
  <1>3. EnsureOk(EnsureJob)
      BY <1>1, <1>2 DEF EnsureOk, EnsureJob, Recent
  <1> QED
      BY <1>3 DEF JobOk, EnsureJob, NoJob

LEMMA WantedParents ==
  ASSUME CatalogOk, NEW p \in Wanted
  PROVE  IsParent(p)
  <1>1. CASE p = Transaction
      BY <1>1 DEF IsParent
  <1>2. ASSUME NEW v \in Severities, p = Part({v}) PROVE IsParent(p)
    <2>1. v \in SmallInts
        BY SeveritiesAssumption
    <2> QED
        BY <1>2, <2>1, TransactionIsNoPart DEF IsParent, IsPart
  <1>3. ASSUME NEW v \in Severities, p \in PartsOf(v) PROVE IsParent(p)
      BY <1>3, ParentSevers DEF PartsOf
  <1>4. p = Transaction \/ \E v \in Severities : p = Part({v}) \/ p \in PartsOf(v)
      BY DEF Wanted
  <1> QED
      BY <1>1, <1>2, <1>3, <1>4

\* With the advisory lock all is still to do.
LEMMA LockedOk ==
  ASSUME CatalogOk, NEW j, IsEnsure(j), EnsureOk(j), j.step = "queued"
  PROVE  EnsureOk([j EXCEPT !.step = "locked", !.todo = Wanted])
  <1> DEFINE n == [j EXCEPT !.step = "locked", !.todo = Wanted]
  <1>1. /\ n.now = j.now /\ n.step = "locked" /\ n.todo = Wanted
        /\ n.made = j.made /\ n.newParts = j.newParts
      BY DEF IsEnsure
  <1> HIDE DEF n
  <1>2. Progress(n)
    <2>1. Transaction \in n.todo
        BY <1>1 DEF Wanted
    <2>2. ASSUME NEW v \in Severities
          PROVE  \E p \in n.todo \cup Known(n) :
                   v \in ListValues(p) /\ (p \in n.todo \/ IsPlain(p))
      <3>1. CASE PartsOf(v) = {}
        <4>1. Part({v}) \in n.todo
            BY <1>1, <3>1 DEF Wanted
        <4>2. v \in ListValues(Part({v}))
            BY TransactionIsNoPart
        <4> QED
            BY <4>1, <4>2
      <3>2. CASE PartsOf(v) # {}
        <4>1. PICK p \in PartsOf(v) : TRUE
            BY <3>2
        <4>2. p \in Parts /\ v \in ListValues(p)
            BY DEF PartsOf
        <4>3. IsPlain(p) \/ p \in Wanted
            BY <3>2 DEF Wanted
        <4> QED
            BY <4>2, <4>3, <1>1 DEF Known
      <3> QED
          BY <3>1, <3>2
    <2> QED
        BY <2>1, <2>2 DEF Progress
  <1>3. \A p \in n.todo : IsParent(p)
      BY <1>1, WantedParents
  <1>4. n.made = {}
      BY <1>1 DEF EnsureOk
  <1>5. EnsureOk(n)
      BY <1>1, <1>2, <1>3, <1>4 DEF EnsureOk, Recent
  <1> QED
      BY <1>5 DEF n

\* The months created for a parent are whole, ahead, and overlap nothing.
LEMMA MissingAreFree ==
  ASSUME CatalogOk, NEW j, j.now \in Nat, NEW p, IsParent(p), NEW m \in Missing(j, p)
  PROVE  /\ m \in Nat /\ MonthOf(j.now) <= m
         /\ MonthPartition(p, m).parent = p /\ Covers(MonthPartition(p, m), m)
         /\ MonthPartition(p, m).first = m /\ MonthPartition(p, m).last = m
         /\ MonthPartition(p, m).made = "library"
         /\ IsMonthly(MonthPartition(p, m)) /\ Free(MonthPartition(p, m))
  <1>1. m \in Months(j.now) /\ \A ch \in Children(p) : ~Covers(ch, m)
      BY DEF Missing
  <1>2. m \in Nat /\ MonthOf(j.now) <= m
      BY <1>1, MonthsOf
  <1>3. /\ MonthPartition(p, m).parent = p
        /\ MonthPartition(p, m).first = m /\ MonthPartition(p, m).last = m
        /\ MonthPartition(p, m).made = "library"
      BY DEF MonthPartition, Child
  <1>4. IsMonthly(MonthPartition(p, m)) /\ Covers(MonthPartition(p, m), m)
      BY <1>2, <1>3 DEF IsMonthly, Covers
  <1>5. ASSUME NEW ch \in live \cup pending, ch.parent = p
        PROVE  ch.last < m \/ m < ch.first
    <2>1. ~Covers(ch, m)
        BY <1>1, <1>5 DEF Children
    <2>2. ch.first \in Nat /\ ch.last \in Nat
        BY DEF CatalogOk, Gone, IsMonthly
    <2> QED
        BY <2>1, <2>2, <1>2 DEF Covers
  <1>6. Free(MonthPartition(p, m))
      BY <1>3, <1>5 DEF Free
  <1> QED
      BY <1>2, <1>3, <1>4, <1>6

\* A parent's turn leaves it with all its months, or without need of them.
LEMMA CreatedOk ==
  ASSUME CatalogOk, NEW j, IsEnsure(j), EnsureOk(j), j.step = "locked", j.todo # {}
  PROVE  EnsureOk(Created(j, Turn(j.todo)))
  <1> DEFINE p == Turn(j.todo)
             n == Created(j, p)
             new == {MonthPartition(p, m) : m \in Missing(j, p)}
  <1>1. p \in j.todo /\ IsParent(p)
      BY TurnIn DEF EnsureOk
  <1>2. /\ n.now = j.now /\ n.step = j.step /\ n.todo = j.todo \ {p}
        /\ n.made = j.made \cup new
        /\ n.newParts = j.newParts \cup (IF p # Transaction /\ p \notin Parts THEN {p.values} ELSE {})
      BY DEF IsEnsure, Created
  <1>3. j.now \in Nat
      BY DEF EnsureOk, Recent
  <1> HIDE DEF n, p
  <1>4. ASSUME NEW x \in n.made
        PROVE  IsMonthly(x) /\ MonthOf(j.now) <= x.first /\ Free(x)
    <2>1. CASE x \in j.made
        BY <2>1 DEF EnsureOk
    <2>2. CASE x \in new
        BY <2>2, <1>1, <1>3, MissingAreFree
    <2> QED
        BY <2>1, <2>2, <1>2
  <1>5. \A values \in n.newParts : IsPart(values)
      BY <1>1, <1>2 DEF EnsureOk, IsParent
  <1>6. ASSUME NEW q, Full(j, q) PROVE Full(n, q)
      BY <1>2, <1>6 DEF Full
  <1>7. Full(n, p)
    <2> SUFFICES ASSUME NEW m \in Months(j.now)
                 PROVE  \E ch \in live \cup n.made : ch.parent = p /\ Covers(ch, m)
        BY <1>2 DEF Full
    <2>1. CASE m \in Missing(j, p)
      <3>1. MonthPartition(p, m) \in n.made
          BY <2>1, <1>2
      <3>2. MonthPartition(p, m).parent = p /\ Covers(MonthPartition(p, m), m)
          BY <2>1, <1>1, <1>3, MissingAreFree
      <3> QED
          BY <3>1, <3>2
    <2>2. CASE m \notin Missing(j, p)
      <3>1. PICK ch \in Children(p) : Covers(ch, m)
          BY <2>2 DEF Missing
      <3>2. ch.parent = p /\ ch \in live \cup pending
          BY DEF Children
      <3>3. ch \notin pending
        <4> SUFFICES ASSUME ch \in pending PROVE FALSE
            OBVIOUS
        <4>1. ch.last < MonthOf(j.now) /\ ch.last \in Nat
            BY DEF EnsureOk, Gone, CatalogOk, IsMonthly
        <4>2. MonthOf(j.now) <= m /\ m \in Nat /\ MonthOf(j.now) \in Nat
            BY <1>3, MonthsOf, MonthOfTime
        <4> QED
            BY <3>1, <4>1, <4>2 DEF Covers
      <3> QED
          BY <3>1, <3>2, <3>3
    <2> QED
        BY <2>1, <2>2
  <1>8. Progress(n)
    <2>1. Transaction \in n.todo \/ Full(n, Transaction)
      <3>1. Transaction \in j.todo \/ Full(j, Transaction)
          BY DEF EnsureOk, Progress
      <3> QED
          BY <3>1, <1>2, <1>6, <1>7
    <2>2. ASSUME NEW v \in Severities
          PROVE  \E q \in n.todo \cup Known(n) :
                   v \in ListValues(q) /\ (q \in n.todo \/ IsPlain(q) \/ Full(n, q))
      <3>1. PICK q \in j.todo \cup Known(j) :
                   v \in ListValues(q) /\ (q \in j.todo \/ IsPlain(q) \/ Full(j, q))
          BY DEF EnsureOk, Progress
      <3>2. CASE q = p
        <4>1. p # Transaction
            BY <3>1, <3>2, TransactionIsNoPart
        <4>2. p = Part(p.values)
            BY <1>1, <4>1 DEF IsParent
        <4>3. p \in Parts \/ p.values \in n.newParts
            BY <1>2, <4>1
        <4>4. p \in Known(n)
            BY <4>2, <4>3 DEF Known
        <4> QED
            BY <3>1, <3>2, <4>4, <1>7
      <3>3. CASE q # p
        <4>1. q \in n.todo \cup Known(n)
            BY <3>1, <3>3, <1>2 DEF Known
        <4>2. q \in n.todo \/ IsPlain(q) \/ Full(n, q)
            BY <3>1, <3>3, <1>2, <1>6
        <4> QED
            BY <3>1, <4>1, <4>2
      <3> QED
          BY <3>2, <3>3
    <2> QED
        BY <2>1, <2>2 DEF Progress
  <1>9. EnsureOk(n)
      BY <1>2, <1>4, <1>5, <1>8 DEF EnsureOk, Recent
  <1> QED
      BY <1>9 DEF n, p


-----------------------------------------------------------------------------
(* The steps of ensure_partitions and of the durable log().                *)

LEMMA EnsureStarts ==
  ASSUME PlansOk, DOMAIN job = Actors, NEW a \in Actors, UNCHANGED <<catalog, Times>>,
         Become(a, EnsureJob)
  PROVE  PlansOk'
  <1>1. JobOk(EnsureJob)
      BY EnsureJobOk DEF PlansOk
  <1>2. job' = [job EXCEPT ![a] = EnsureJob]
      BY DEF Become
  <1> HIDE DEF EnsureJob
  <1> QED
      BY <1>1, <1>2, JobStep

LEMMA CallEnds ==
  ASSUME PlansOk, DOMAIN job = Actors, NEW a \in Actors, UNCHANGED <<catalog, Times>>,
         Become(a, NoJob)
  PROVE  PlansOk'
  BY NoJobOk, JobStep DEF Become

LEMMA EnsureLocksPlans ==
  ASSUME LockInv, PlansOk, NEW a \in Actors, EnsureLocks(a)
  PROVE  PlansOk'
  <1> DEFINE n == [job[a] EXCEPT !.step = "locked", !.todo = Wanted]
  <1>1. /\ IsEnsure(job[a]) /\ job[a].step = "queued"
        /\ job' = [job EXCEPT ![a] = n] /\ DOMAIN job = Actors
        /\ UNCHANGED <<catalog, Times>>
      BY DEF EnsureLocks, Become, LockInv, Shape, NoJob, IsDrop, Times
  <1>2. EnsureOk(job[a])
      BY <1>1 DEF PlansOk, JobOk, IsEnsure
  <1>3. EnsureOk(n)
      BY <1>1, <1>2, LockedOk DEF PlansOk
  <1>4. n.op = "ensure"
      BY <1>1 DEF IsEnsure
  <1> HIDE DEF n
  <1>5. JobOk(n)
      BY <1>3, <1>4 DEF JobOk
  <1> QED
      BY <1>1, <1>5, JobStep

LEMMA EnsureCreatesPlans ==
  ASSUME LockInv, PlansOk, NEW a \in Actors, EnsureCreates(a)
  PROVE  PlansOk'
  <1> DEFINE n == Created(job[a], Turn(job[a].todo))
  <1>1. /\ IsEnsure(job[a]) /\ job[a].step = "locked" /\ job[a].todo # {}
        /\ job' = [job EXCEPT ![a] = n] /\ DOMAIN job = Actors
        /\ UNCHANGED <<catalog, Times>>
      BY DEF EnsureCreates, Become, LockInv, Shape, NoJob, IsDrop, Times
  <1>2. EnsureOk(job[a])
      BY <1>1 DEF PlansOk, JobOk, IsEnsure
  <1>3. EnsureOk(n)
      BY <1>1, <1>2, CreatedOk DEF PlansOk
  <1>4. n.op = "ensure"
      BY <1>1 DEF IsEnsure, Created
  <1> HIDE DEF n
  <1>5. JobOk(n)
      BY <1>3, <1>4 DEF JobOk
  <1> QED
      BY <1>1, <1>5, JobStep

\* A call that waits for the advisory lock has read and planned nothing yet.
Waits(j) ==
  /\ j = NoJob \/ j.step = "queued"
  /\ j.op = "drop" => j.expire = {}
  /\ j = NoJob \/ IsEnsure(j) \/ IsDrop(j)

LEMMA OthersWait ==
  ASSUME LockInv, NEW a \in Actors, job[a].op # "none", job[a].step # "queued",
         NEW b \in Actors, b # a
  PROVE  Waits(job[b])
  BY DEF LockInv, HoldsLock, Shape, ReadsAreTrue, ReadIsTrue, Waits, IsEnsure, IsDrop, NoJob

LEMMA WaitsOk ==
  ASSUME NEW j, Waits(j), JobOk(j), clock' = clock,
         j.op = "ensure" => \A ch \in Gone' : ch.last < MonthOf(j.now)
  PROVE  JobOk(j)'
  <1>1. CASE j = NoJob
      BY <1>1 DEF JobOk, NoJob
  <1>2. CASE IsEnsure(j) /\ j.step = "queued"
    <2>1. EnsureOk(j)
        BY <1>2 DEF JobOk, IsEnsure
    <2>2. EnsureOk(j)'
        BY <1>2, <2>1 DEF EnsureOk, Recent, IsEnsure
    <2> QED
        BY <1>2, <2>2 DEF JobOk, IsEnsure
  <1>3. CASE IsDrop(j) /\ j.step = "queued"
    <2>1. DropOk(j) /\ j.expire = {}
        BY <1>3 DEF JobOk, IsDrop, Waits
    <2>2. DropOk(j)'
        BY <1>3, <2>1 DEF DropOk, Recent
    <2> QED
        BY <1>3, <2>2 DEF JobOk, IsDrop
  <1> QED
      BY <1>1, <1>2, <1>3 DEF Waits

LEMMA GoneByNext ==
  ASSUME NEW t \in Nat
  PROVE  (CatalogOk /\ ClockOk /\ clock <= t + 1)' => (\A ch \in Gone : ch.last < MonthOf(t))'
  <1>1. CatalogOk /\ ClockOk /\ clock <= t + 1 => \A ch \in Gone : ch.last < MonthOf(t)
      BY GoneBy
  <1> QED
      BY <1>1, PTL

\* A step of the call that holds the advisory lock: the others wait for it.
LEMMA HolderStep ==
  ASSUME LockInv, PlansOk, NEW a \in Actors, job[a].op # "none", job[a].step # "queued",
         NEW j, job' = [job EXCEPT ![a] = j], JobOk(j)', clock' = clock,
         CatalogOk', ClockOk', Ahead'
  PROVE  PlansOk'
  <1>1. DOMAIN job = Actors
      BY DEF LockInv, Shape
  <1>2. ASSUME NEW b \in Actors, b # a PROVE JobOk(job[b])'
    <2>1. PICK x : x = job[b]
        OBVIOUS
    <2>2. job'[b] = x
        BY <1>1, <1>2, <2>1
    <2>3. Waits(x)
        BY <1>2, <2>1, OthersWait
    <2>4. JobOk(x)
        BY <2>1 DEF PlansOk
    <2>5. x.op = "ensure" => \A ch \in Gone' : ch.last < MonthOf(x.now)
      <3> SUFFICES ASSUME x.op = "ensure" PROVE \A ch \in Gone' : ch.last < MonthOf(x.now)
          OBVIOUS
      <3>1. x.now \in Nat /\ clock' <= x.now + 1
          BY <2>4 DEF JobOk, EnsureOk, Recent
      <3>2. (\A ch \in Gone : ch.last < MonthOf(x.now))'
          BY <3>1, GoneByNext
      <3> QED
          BY <3>1, <3>2
    <2>6. JobOk(x)'
        BY <2>3, <2>4, <2>5, WaitsOk
    <2>7. JobOk(x)' => JobOk(job[b])'
        BY <2>2 DEF JobOk, EnsureOk, DropOk, Recent, Free, Progress, Full, Known, NoTransactionLeft,
           Gone, Parts
    <2> QED
        BY <2>6, <2>7
  <1>3. JobOk(job[a])'
    <2>1. job'[a] = j
        BY <1>1
    <2> QED
        BY <2>1 DEF JobOk, EnsureOk, DropOk, Recent, Free, Progress, Full, Known, NoTransactionLeft,
           Gone, Parts
  <1> QED
      BY <1>2, <1>3 DEF PlansOk


LEMMA MaxOfTwo ==
  ASSUME NEW x \in Int, NEW y \in Int
  PROVE  Max({x, y}) \in {x, y}
  <1>1. \E m \in {x, y} : \A z \in {x, y} : m >= z
    <2>1. CASE x >= y
        BY <2>1
    <2>2. CASE y >= x
        BY <2>2
    <2> QED
        BY <2>1, <2>2
  <1> QED
      BY <1>1 DEF Max

\* With the commit every month asked for is covered, and nothing overlaps.
LEMMA EnsureCommitsPlans ==
  ASSUME LockInv, PlansOk, NEW a \in Actors, EnsureCommits(a)
  PROVE  PlansOk'
  <1> DEFINE j == job[a]
  <1>1. /\ IsEnsure(j) /\ j.step = "locked" /\ j.todo = {}
        /\ live' = live \cup j.made /\ parts' = parts \cup j.newParts
        /\ ensured' = Max({ensured, MonthOf(j.now) + MonthsAhead})
        /\ job' = [job EXCEPT ![a] = NoJob]
        /\ UNCHANGED <<pending, loose, dropped, clock, assured>>
      BY DEF EnsureCommits, Become, LockInv, Shape, NoJob, IsDrop
  <1>2. EnsureOk(j) /\ j.now \in Nat
      BY <1>1 DEF PlansOk, JobOk, IsEnsure, EnsureOk, Recent
  <1> HIDE DEF j
  <1>3. MonthOf(j.now) \in Nat /\ MonthOf(clock) \in Nat /\ MonthOf(j.now) <= MonthOf(clock)
        /\ MonthsAhead \in Nat /\ ensured \in Int /\ assured \in Int
    <2>1. clock \in Nat /\ j.now <= clock
        BY <1>2, ClockNat DEF PlansOk, EnsureOk, Recent
    <2> QED
        BY <2>1, <1>2, MonthOfTime, MonthMonotone, TimeAssumption DEF PlansOk, ClockOk
  <1>4. \A ch \in j.made : IsMonthly(ch) /\ MonthOf(j.now) <= ch.first
      BY <1>2 DEF EnsureOk
  <1>5. \A ch \in Gone : IsMonthly(ch) /\ ch.last < MonthOf(j.now)
      BY <1>2 DEF EnsureOk, PlansOk, CatalogOk
  <1>6. CatalogOk'
    <2>1. \A values \in parts' : IsPart(values)
        BY <1>1, <1>2 DEF PlansOk, CatalogOk, EnsureOk
    <2>2. \A ch \in live' \cup Gone' : IsMonthly(ch)
        BY <1>1, <1>4 DEF PlansOk, CatalogOk, Gone
    <2>3. ASSUME NEW ch \in Gone', ch.parent # Transaction,
                 NEW tr \in live', tr.parent = Transaction, tr.made = "library"
          PROVE  tr.last < ch.first \/ ch.last < tr.first
      <3>1. ch \in Gone
          BY <1>1 DEF Gone
      <3>2. CASE tr \in live
          BY <2>3, <3>1, <3>2 DEF PlansOk, CatalogOk, TransactionsGone
      <3>3. CASE tr \in j.made
        <4>1. ch.last \in Nat /\ tr.first \in Nat /\ ch.last < MonthOf(j.now)
              /\ MonthOf(j.now) <= tr.first
            BY <3>1, <3>3, <1>4, <1>5 DEF IsMonthly
        <4> QED
            BY <4>1, <1>3
      <3> QED
          BY <1>1, <3>2, <3>3
    <2>4. \A ch \in Gone' : Upper(ch) < clock'
        BY <1>1 DEF PlansOk, CatalogOk, Gone
    <2>5. live' \cap pending' = {}
      <3> SUFFICES ASSUME NEW ch \in j.made, ch \in pending PROVE FALSE
          BY <1>1 DEF PlansOk, CatalogOk
      <3>1. ch.last \in Nat /\ ch.first \in Nat /\ ch.first <= ch.last /\ ch.last < MonthOf(j.now)
            /\ MonthOf(j.now) <= ch.first
          BY <1>4, <1>5 DEF IsMonthly, Gone
      <3> QED
          BY <3>1, <1>3
    <2> QED
        BY <2>1, <2>2, <2>3, <2>4, <2>5 DEF CatalogOk, TransactionsGone
  <1>7. ClockOk'
      BY <1>1, <1>3, MaxOfTwo DEF PlansOk, ClockOk
  <1>8. Ahead'
    <2> SUFFICES ASSUME NEW m \in Int, MonthOf(clock) <= m, m <= ensured' \/ m <= assured,
                        NEW v \in Severities
                 PROVE  Fits(v, m)'
        BY <1>1 DEF Ahead
    <2>1. CASE m <= ensured \/ m <= assured
      <3>1. Fits(v, m)
          BY <2>1 DEF PlansOk, Ahead
      <3> QED
          BY <3>1, <1>1, FitsKept
    <2>2. CASE m <= MonthOf(j.now) + MonthsAhead
      <3>1. m \in Months(j.now)
          BY <2>2, <1>2, <1>3, MonthsOf
      <3>2. Progress(j)
          BY <1>1, <1>2 DEF EnsureOk
      <3>3. \E ch \in live' : ch.parent = Transaction /\ Covers(ch, m)
          BY <3>1, <3>2, <1>1 DEF Progress, Full
      <3>4. PICK p \in Known(j) : v \in ListValues(p) /\ (IsPlain(p) \/ Full(j, p))
          BY <3>2, <1>1 DEF Progress
      <3>5. p \in Parts'
          BY <1>1 DEF Known, Parts
      <3>6. IsPlain(p) \/ \E ch \in live' : ch.parent = p /\ Covers(ch, m)
          BY <3>1, <3>4, <1>1 DEF Full
      <3>7. p \in PartsOf(v)'
          BY <3>4, <3>5 DEF PartsOf, ListValues
      <3> QED
          BY <3>3, <3>6, <3>7 DEF Fits, IsPlain, Transaction, Table, Covers
    <2> QED
        BY <2>1, <2>2, <1>1, <1>3, MaxOfTwo
  <1>9. JobOk(NoJob)'
      BY DEF JobOk, NoJob
  <1> QED
    <2>1. job[a].op # "none" /\ job[a].step # "queued"
        BY <1>1 DEF j, IsEnsure
    <2> QED
        BY <2>1, <1>1, <1>6, <1>7, <1>8, <1>9, HolderStep

LEMMA SessionEndsPlans ==
  ASSUME LockInv, PlansOk, NEW c \in Clients, SessionEnds(c)
  PROVE  PlansOk'
  <1>1. /\ job' = [a \in Actors |-> Released(job[a], c)] /\ DOMAIN job = Actors
        /\ UNCHANGED <<catalog, Times>>
      BY DEF SessionEnds, Times, LockInv, Shape
  <1>2. CatalogOk' /\ ClockOk' /\ Ahead'
      BY <1>1, CatalogSame DEF PlansOk
  <1>3. ASSUME NEW b \in Actors PROVE JobOk(job[b])'
    <2>1. JobOk(job[b]) /\ (job[b] = NoJob \/ IsEnsure(job[b]) \/ IsDrop(job[b]))
        BY DEF PlansOk, LockInv, Shape
    <2>2. JobOk(Released(job[b], c))
      <3>1. CASE IsDrop(job[b])
        <4> DEFINE n == [job[b] EXCEPT !.awaits = job[b].awaits \ {c}]
        <4>1. /\ n.op = "drop" /\ n.now = job[b].now /\ n.policy = job[b].policy
              /\ n.expire = job[b].expire /\ n.step = job[b].step /\ n.child = job[b].child
              /\ n.turn = job[b].turn /\ n.todo = job[b].todo
            BY <3>1 DEF IsDrop
        <4>2. Released(job[b], c) = n /\ DropOk(job[b])
            BY <2>1, <3>1 DEF Released, IsDrop, JobOk
        <4> HIDE DEF n
        <4>3. DropOk(n)
            BY <4>1, <4>2 DEF DropOk, Recent, Expired, NoTransactionLeft
        <4> QED
            BY <4>1, <4>2, <4>3 DEF JobOk
      <3> QED
          BY <2>1, <3>1 DEF Released, IsEnsure, NoJob
    <2>3. PICK x : x = Released(job[b], c)
        OBVIOUS
    <2>4. JobOk(x)'
        BY <2>2, <2>3, <1>1, JobSame
    <2>5. job'[b] = x
        BY <1>1, <2>3
    <2>6. JobOk(x)' => JobOk(job[b])'
        BY <2>5 DEF JobOk, EnsureOk, DropOk, Recent, Free, Progress, Full, Known, NoTransactionLeft,
           Gone, Parts
    <2> QED
        BY <2>4, <2>6
  <1> QED
      BY <1>2, <1>3 DEF PlansOk


-----------------------------------------------------------------------------
(* The steps of drop_expired.                                              *)

LEMMA DropIs ==
  ASSUME LockInv, PlansOk, NEW k \in Keepers, job[k].op = "drop"
  PROVE  IsDrop(job[k]) /\ DropOk(job[k]) /\ ReadIsTrue(job[k]) /\ k \in Actors /\ DOMAIN job = Actors
  BY DEF LockInv, PlansOk, Shape, ReadsAreTrue, IsDrop, IsEnsure, NoJob, JobOk, Actors

LEMMA StartDropPlans ==
  ASSUME LockInv, PlansOk, NEW k \in Keepers, NEW policy \in Policies, StartDrop(k, policy)
  PROVE  PlansOk'
  <1> DEFINE n == [op |-> "drop", step |-> "queued", now |-> clock, policy |-> policy,
                   todo |-> {}, turn |-> None, finish |-> {}, expire |-> {},
                   child |-> NoChild, awaits |-> {}]
  <1>1. /\ job' = [job EXCEPT ![k] = n] /\ DOMAIN job = Actors /\ k \in Actors
        /\ UNCHANGED <<catalog, Times>>
      BY DEF StartDrop, Become, LockInv, Shape, Times, Actors
  <1>2. clock \in Nat
      BY ClockNat DEF PlansOk
  <1>3. JobOk(n)
      BY <1>2 DEF JobOk, DropOk, Recent
  <1> HIDE DEF n
  <1> QED
      BY <1>1, <1>3, JobStep

LEMMA DropLocksPlans ==
  ASSUME LockInv, PlansOk, NEW k \in Keepers, DropLocks(k)
  PROVE  PlansOk'
  <1> DEFINE n == [job[k] EXCEPT !.step = "next", !.now = clock,
                                 !.todo = {Transaction} \cup {p \in Parts : ~IsPlain(p)}]
  <1>1. /\ job' = [job EXCEPT ![k] = n] /\ DOMAIN job = Actors /\ k \in Actors
        /\ UNCHANGED <<catalog, Times>> /\ job[k].step = "queued"
        /\ IsDrop(job[k]) /\ DropOk(job[k]) /\ ReadIsTrue(job[k])
      BY DropIs DEF DropLocks, Become, Times
  <1>2. /\ n.op = "drop" /\ n.step = "next" /\ n.now = clock /\ Transaction \in n.todo
        /\ n.policy = job[k].policy /\ n.expire = job[k].expire
      BY <1>1 DEF IsDrop
  <1> HIDE DEF n
  <1>3. clock \in Nat
      BY ClockNat DEF PlansOk
  <1>4. JobOk(n)
      BY <1>1, <1>2, <1>3 DEF JobOk, DropOk, Recent, ReadIsTrue
  <1> QED
      BY <1>1, <1>4, JobStep

LEMMA ReadChildrenPlans ==
  ASSUME LockInv, PlansOk, NEW k \in Keepers, ReadChildren(k)
  PROVE  PlansOk'
  <1>0. job[k].op = "drop" /\ job[k].step = "next"
      BY DEF ReadChildren
  <1>1. /\ DOMAIN job = Actors /\ k \in Actors
        /\ IsDrop(job[k]) /\ DropOk(job[k]) /\ ReadIsTrue(job[k])
      BY <1>0, DropIs
  <1>2. PICK p \in job[k].todo :
          /\ DropTurn(job[k], p)
          /\ job' = [job EXCEPT ![k] =
               [job[k] EXCEPT !.step = "turn", !.turn = p,
                              !.finish = PendingOf(p), !.expire = ExpiredOf(job[k], p)]]
      BY DEF ReadChildren, Become
  <1> DEFINE n == [job[k] EXCEPT !.step = "turn", !.turn = p,
                                 !.finish = PendingOf(p), !.expire = ExpiredOf(job[k], p)]
  <1>3. /\ n.op = "drop" /\ n.step = "turn" /\ n.now = job[k].now /\ n.turn = p
        /\ n.policy = job[k].policy /\ n.expire = ExpiredOf(job[k], p)
        /\ n.todo = job[k].todo
      BY <1>1 DEF IsDrop
  <1>4. UNCHANGED <<catalog, Times>> /\ job' = [job EXCEPT ![k] = n]
      BY <1>2 DEF ReadChildren, Times
  <1> HIDE DEF n
  <1>5. \A ch : Expired(n, ch) <=> Expired(job[k], ch)
      BY <1>3 DEF Expired
  <1>6. CASE p = Transaction
    <2>1. DropOk(n)
        BY <1>1, <1>3, <1>5, <1>6 DEF DropOk, Recent, ExpiredOf
    <2> QED
        BY <2>1, <1>1, <1>3, <1>4, JobStep DEF JobOk
  <1>7. CASE p # Transaction
    <2>1. Transaction \notin job[k].todo
        BY <1>2, <1>7 DEF DropTurn
    <2>2. NoTransactionLeft(n)
        BY <2>1, <1>0, <1>1, <1>5 DEF DropOk, NoTransactionLeft
    <2>3. DropOk(n)
        BY <1>1, <1>3, <1>5, <1>7, <2>1, <2>2 DEF DropOk, Recent, ExpiredOf
    <2> QED
        BY <2>3, <1>1, <1>3, <1>4, JobStep DEF JobOk
  <1> QED
      BY <1>6, <1>7

LEMMA DropTurnEndsPlans ==
  ASSUME LockInv, PlansOk, NEW k \in Keepers, DropTurnEnds(k)
  PROVE  PlansOk'
  <1> DEFINE n == [job[k] EXCEPT !.step = "next", !.turn = None,
                                 !.todo = job[k].todo \ {job[k].turn}]
  <1>0. job[k].op = "drop" /\ job[k].step = "turn" /\ job[k].expire = {}
      BY DEF DropTurnEnds
  <1>1. /\ DOMAIN job = Actors /\ k \in Actors
        /\ IsDrop(job[k]) /\ DropOk(job[k])
      BY <1>0, DropIs
  <1>2. UNCHANGED <<catalog, Times>> /\ job' = [job EXCEPT ![k] = n]
      BY DEF DropTurnEnds, Become, Times
  <1>3. /\ n.op = "drop" /\ n.step = "next" /\ n.now = job[k].now
        /\ n.policy = job[k].policy /\ n.expire = {}
      BY <1>0, <1>1 DEF IsDrop
  <1> HIDE DEF n
  <1>4. NoTransactionLeft(n)
      BY <1>0, <1>1, <1>3 DEF DropOk, NoTransactionLeft, Expired
  <1>5. DropOk(n)
      BY <1>1, <1>3, <1>4 DEF DropOk, Recent
  <1> QED
      BY <1>1, <1>2, <1>3, <1>5, JobStep DEF JobOk

\* A detach begins of an expired partition; the transactions of its months are
\* gone by then, and it covers no month to come.
LEMMA DetachStartsPlans ==
  ASSUME LockInv, PlansOk, NEW k \in Keepers, DetachStarts(k)
  PROVE  PlansOk'
  <1> DEFINE j == job[k]
  <1>0. j.op = "drop" /\ j.step = "turn"
      BY DEF DetachStarts
  <1>1. /\ DOMAIN job = Actors /\ k \in Actors
        /\ IsDrop(j) /\ DropOk(j) /\ ReadIsTrue(j)
      BY <1>0, DropIs
  <1>2. PICK ch \in j.finish \cup j.expire :
          /\ \/ ch \in j.finish /\ UNCHANGED <<live, pending>>
             \/ ch \in j.expire /\ live' = live \ {ch} /\ pending' = pending \cup {ch}
          /\ job' = [job EXCEPT ![k] = Detaching(j, ch)]
    <2>1. PICK ch \in j.finish \cup j.expire :
            /\ \/ ch \in j.finish /\ UNCHANGED <<live, pending>>
               \/ j.finish = {} /\ live' = live \ {ch} /\ pending' = pending \cup {ch}
            /\ job' = [job EXCEPT ![k] = Detaching(j, ch)]
        BY DEF DetachStarts, Become
    <2> QED
        BY <2>1
  <1>3. UNCHANGED <<parts, loose, dropped, clock, ensured, assured>>
      BY DEF DetachStarts
  <1>5. PICK n : n = Detaching(j, ch)
      OBVIOUS
  <1>4. /\ n.op = "drop" /\ n.step = "waits" /\ n.now = j.now /\ n.policy = j.policy
        /\ n.expire = j.expire \ {ch} /\ n.child = ch /\ n.turn = j.turn /\ n.todo = j.todo
      BY <1>1, <1>5 DEF IsDrop, Detaching
  <1>6. j.op # "none" /\ j.step # "queued"
      BY <1>0
  <1> HIDE DEF j
  <1>7. \A x : Expired(n, x) <=> Expired(j, x)
      BY <1>4 DEF Expired
  <1>8. CASE ch \in j.finish /\ UNCHANGED <<live, pending>>
    <2>1. ch \in pending /\ ch \notin live
        BY <1>1, <1>8 DEF ReadIsTrue, PlansOk, CatalogOk
    <2>2. \A x \in n.expire : Expired(n, x)
        BY <1>1, <1>4, <1>7 DEF DropOk
    <2>3. IF n.turn = Transaction
          THEN \A tr \in live : tr.parent = Transaction /\ Expired(n, tr) => tr \in n.expire
          ELSE Transaction \notin n.todo /\ NoTransactionLeft(n)
        BY <1>0, <1>1, <1>4, <1>7, <2>1 DEF DropOk, NoTransactionLeft
    <2>4. DropOk(n)
        BY <1>1, <1>4, <2>1, <2>2, <2>3 DEF DropOk, Recent
    <2>5. UNCHANGED <<catalog, Times>>
        BY <1>3, <1>8 DEF catalog, Times
    <2>6. job' = [job EXCEPT ![k] = n]
        BY <1>2, <1>5
    <2> QED
        BY <2>4, <2>5, <2>6, <1>1, <1>4, JobStep DEF JobOk
  <1>9. CASE ch \in j.expire /\ live' = live \ {ch} /\ pending' = pending \cup {ch}
    <2>1. ch \in live /\ Expired(j, ch) /\ IsMonthly(ch) /\ ch.parent = j.turn
        BY <1>1, <1>9 DEF ReadIsTrue, DropOk, PlansOk, CatalogOk
    <2>2. /\ j.policy \in Policies /\ j.now \in 0 .. MaxTime /\ j.now <= clock
          /\ clock \in Nat /\ j.now \in Nat
        BY <1>1, TimeAssumption DEF DropOk, Recent, PlansOk, ClockOk
    <2>3. Upper(ch) \in Nat /\ Upper(ch) < j.now /\ Upper(ch) < clock
        BY <2>1, <2>2, ExpiredIsPast
    <2>4. ch.last < MonthOf(clock) /\ ch.last \in Nat /\ MonthOf(clock) \in Nat
        BY <2>1, <2>2, <2>3, GoneIsPast, UpperIs, MonthOfTime
    <2>5. IF j.turn = Transaction
          THEN \A tr \in live : tr.parent = Transaction /\ Expired(j, tr) => tr \in j.expire
          ELSE Transaction \notin j.todo /\ NoTransactionLeft(j)
        BY <1>0, <1>1 DEF DropOk
    <2>6. Gone' = Gone \cup {ch} /\ live' \subseteq live
        BY <1>3, <1>9 DEF Gone
    <2>7. CatalogOk'
      <3>1. ASSUME ch.parent # Transaction,
                   NEW tr \in live', tr.parent = Transaction, tr.made = "library"
            PROVE  tr.last < ch.first \/ ch.last < tr.first
        <4>1. tr \in live /\ IsMonthly(tr) /\ tr.first = tr.last /\ tr.last \in Nat
            BY <2>6, <3>1 DEF PlansOk, CatalogOk, IsMonthly
        <4>2. ~Expired(j, tr)
            BY <2>1, <2>5, <3>1, <4>1 DEF NoTransactionLeft
        <4>3. ~(tr.last <= ch.last)
            BY <2>1, <2>2, <3>1, <4>1, <4>2, TransactionExpiresFirst
        <4> QED
            BY <4>1, <4>3, <2>4
      <3>2. ASSUME NEW x \in Gone'
            PROVE  Upper(x) < clock' /\ (x.parent # Transaction => TransactionsGone(x)')
          BY <1>3, <2>3, <2>6, <3>1 DEF PlansOk, CatalogOk, TransactionsGone
      <3>3. \A x \in live' \cup Gone' : IsMonthly(x)
          BY <2>1, <2>6 DEF PlansOk, CatalogOk
      <3>4. live' \cap pending' = {}
          BY <1>9 DEF PlansOk, CatalogOk
      <3>5. \A values \in parts' : IsPart(values)
          BY <1>3 DEF PlansOk, CatalogOk
      <3> QED
          BY <3>2, <3>3, <3>4, <3>5 DEF CatalogOk
    <2>8. ClockOk'
        BY <1>3 DEF PlansOk, ClockOk
    <2>9. Ahead'
      <3> SUFFICES ASSUME NEW m \in Int, MonthOf(clock) <= m, m <= ensured \/ m <= assured,
                          NEW v \in Severities
                   PROVE  Fits(v, m)'
          BY <1>3 DEF Ahead
      <3>1. Fits(v, m)
          BY DEF PlansOk, Ahead
      <3>2. ~Covers(ch, m)
          BY <2>4 DEF Covers
      <3>3. \A x \in live : Covers(x, m) => x \in live'
          BY <3>2, <1>9
      <3> QED
          BY <3>1, <3>3, <1>3, FitsKept
    <2>10. DropOk(n)'
      <3>1. Recent(n)'
          BY <1>1, <1>3, <1>4 DEF DropOk, Recent
      <3>2. n.policy \in Policies /\ \A x \in n.expire : Expired(n, x)
          BY <1>1, <1>4, <1>7 DEF DropOk
      <3>3. n.child \in pending'
          BY <1>4, <1>9
      <3>4. IF n.turn = Transaction
            THEN \A tr \in live' : tr.parent = Transaction /\ Expired(n, tr) => tr \in n.expire
            ELSE Transaction \notin n.todo /\ NoTransactionLeft(n)'
          BY <2>5, <1>4, <1>7, <1>9 DEF NoTransactionLeft
      <3> QED
          BY <3>1, <3>2, <3>3, <3>4, <1>4 DEF DropOk
    <2>11. JobOk(n)'
        BY <2>10, <1>4 DEF JobOk
    <2>12. job[k].op # "none" /\ job[k].step # "queued" /\ job' = [job EXCEPT ![k] = n]
        BY <1>2, <1>5, <1>6 DEF j
    <2> QED
        BY <2>7, <2>8, <2>9, <2>11, <2>12, <1>1, <1>3, HolderStep
  <1> QED
      BY <1>2, <1>8, <1>9


\* What becomes of a detached partition changes neither what is attached nor
\* what was taken away.
LEMMA SameAttached ==
  ASSUME PlansOk, live' = live, pending' \subseteq pending, Gone' = Gone,
         UNCHANGED <<parts, clock, ensured, assured>>
  PROVE  CatalogOk' /\ ClockOk' /\ Ahead'
  <1>1. CatalogOk' /\ ClockOk'
      BY DEF PlansOk, CatalogOk, ClockOk, TransactionsGone
  <1>2. \A v, m : Fits(v, m) => Fits(v, m)'
      BY FitsKept
  <1>3. Ahead'
      BY <1>2 DEF PlansOk, Ahead
  <1> QED
      BY <1>1, <1>3

LEMMA DetachedPlans ==
  ASSUME LockInv, PlansOk, NEW k \in Keepers, Detached(k)
  PROVE  PlansOk'
  <1> DEFINE j == job[k]
  <1>0. j.op = "drop" /\ j.step = "waits"
      BY DEF Detached
  <1>1. /\ DOMAIN job = Actors /\ k \in Actors /\ IsDrop(j) /\ DropOk(j)
      BY <1>0, DropIs
  <1>2. /\ pending' = pending \ {j.child} /\ loose' = loose \cup {j.child}
        /\ UNCHANGED <<parts, live, dropped, clock, ensured, assured>>
      BY DEF Detached
  <1>3. PICK n : n = IF Expired(j, j.child) THEN [j EXCEPT !.step = "detached"]
                     ELSE [j EXCEPT !.step = "turn", !.child = NoChild]
      OBVIOUS
  <1>4. job' = [job EXCEPT ![k] = n]
      BY <1>3 DEF Detached, Become
  <1>5. /\ n.op = "drop" /\ n.now = j.now /\ n.policy = j.policy
        /\ n.expire = j.expire /\ n.turn = j.turn /\ n.todo = j.todo
        /\ \/ n.step = "detached" /\ n.child = j.child /\ Expired(j, j.child)
           \/ n.step = "turn"
      BY <1>1, <1>3 DEF IsDrop
  <1>6. job[k].op # "none" /\ job[k].step # "queued"
      BY <1>0
  <1> HIDE DEF j
  <1>7. CatalogOk' /\ ClockOk' /\ Ahead'
    <2>1. Gone' = Gone /\ pending' \subseteq pending
        BY <1>0, <1>1, <1>2 DEF Gone, DropOk
    <2> QED
        BY <2>1, <1>2, SameAttached
  <1>8. \A x : Expired(n, x) <=> Expired(j, x)
      BY <1>5 DEF Expired
  <1>9. DropOk(n)'
      BY <1>0, <1>1, <1>2, <1>5, <1>8 DEF DropOk, Recent, NoTransactionLeft
  <1>10. JobOk(n)'
      BY <1>5, <1>9 DEF JobOk
  <1> QED
      BY <1>1, <1>2, <1>4, <1>6, <1>7, <1>10, HolderStep

LEMMA DropTablePlans ==
  ASSUME LockInv, PlansOk, NEW k \in Keepers, DropTable(k)
  PROVE  PlansOk'
  <1> DEFINE j == job[k]
  <1>0. j.op = "drop" /\ j.step = "detached"
      BY DEF DropTable
  <1>1. /\ DOMAIN job = Actors /\ k \in Actors /\ IsDrop(j) /\ DropOk(j)
      BY <1>0, DropIs
  <1>2. /\ loose' = loose \ {j.child} /\ dropped' = dropped \cup {j.child}
        /\ UNCHANGED <<parts, live, pending, clock, ensured, assured>>
      BY DEF DropTable
  <1>3. PICK n : n = [j EXCEPT !.step = "turn", !.child = NoChild]
      OBVIOUS
  <1>4. job' = [job EXCEPT ![k] = n]
      BY <1>3 DEF DropTable, Become
  <1>5. /\ n.op = "drop" /\ n.now = j.now /\ n.policy = j.policy /\ n.step = "turn"
        /\ n.expire = j.expire /\ n.turn = j.turn /\ n.todo = j.todo
      BY <1>1, <1>3 DEF IsDrop
  <1>6. job[k].op # "none" /\ job[k].step # "queued"
      BY <1>0
  <1> HIDE DEF j
  <1>7. CatalogOk' /\ ClockOk' /\ Ahead'
    <2>1. Gone' = Gone /\ pending' \subseteq pending
        BY <1>0, <1>1, <1>2 DEF Gone, DropOk
    <2> QED
        BY <2>1, <1>2, SameAttached
  <1>8. \A x : Expired(n, x) <=> Expired(j, x)
      BY <1>5 DEF Expired
  <1>9. DropOk(n)'
      BY <1>0, <1>1, <1>2, <1>5, <1>8 DEF DropOk, Recent, NoTransactionLeft
  <1>10. JobOk(n)'
      BY <1>5, <1>9 DEF JobOk
  <1> QED
      BY <1>1, <1>2, <1>4, <1>6, <1>7, <1>10, HolderStep

-----------------------------------------------------------------------------
(* Time, and health.                                                       *)

LEMMA TickPlans ==
  ASSUME LockInv, PlansOk, Tick
  PROVE  PlansOk'
  <1>1. /\ clock < MaxTime /\ clock' = clock + 1
        /\ \A a \in Actors : job[a] # NoJob => clock = job[a].now
        /\ UNCHANGED <<parts, live, pending, loose, dropped, job, ensured, assured>>
      BY DEF Tick, catalog
  <1>2. clock \in Nat /\ clock' \in Nat /\ MaxTime \in Nat
      BY <1>1, ClockNat, TimeAssumption DEF PlansOk
  <1>3. ClockOk'
      BY <1>1, <1>2 DEF PlansOk, ClockOk
  <1>4. CatalogOk'
    <2>1. \A ch \in Gone : Upper(ch) < clock'
      <3> SUFFICES ASSUME NEW ch \in Gone PROVE Upper(ch) < clock'
          OBVIOUS
      <3>1. Upper(ch) \in Nat /\ Upper(ch) < clock
          BY UpperIs DEF PlansOk, CatalogOk
      <3> QED
          BY <3>1, <1>1, <1>2
    <2> QED
        BY <1>1, <2>1 DEF PlansOk, CatalogOk, Gone, TransactionsGone
  <1>5. Ahead'
    <2>1. MonthOf(clock) <= MonthOf(clock') /\ MonthOf(clock) \in Nat /\ MonthOf(clock') \in Nat
        BY <1>1, <1>2, MonthOfTime, MonthMonotone
    <2>2. \A v, m : Fits(v, m) => Fits(v, m)'
        BY <1>1, FitsKept
    <2>3. ASSUME NEW m \in Int, MonthOf(clock') <= m, m <= ensured \/ m <= assured,
                 NEW v \in Severities
          PROVE  Fits(v, m)'
      <3>1. MonthOf(clock) <= m
          BY <2>1, <2>3
      <3>2. Fits(v, m)
          BY <2>3, <3>1 DEF PlansOk, Ahead
      <3> QED
          BY <3>2, <2>2
    <2> QED
        BY <1>1, <2>3 DEF Ahead
  <1>6. ASSUME NEW a \in Actors PROVE JobOk(job[a])'
    <2>1. PICK j : j = job[a]
        OBVIOUS
    <2>2. JobOk(j) /\ job'[a] = j /\ (j = NoJob \/ IsEnsure(j) \/ IsDrop(j))
        BY <1>1, <2>1 DEF PlansOk, LockInv, Shape
    <2>3. j # NoJob => Recent(j)'
        BY <1>1, <1>2, <2>1 DEF Recent
    <2>4. EnsureOk(j) /\ Recent(j)' => EnsureOk(j)'
        BY <1>1 DEF EnsureOk, Gone, Free, Progress, Full, Known, Parts
    <2>5. DropOk(j) /\ Recent(j)' => DropOk(j)'
        BY <1>1 DEF DropOk, NoTransactionLeft
    <2>6. JobOk(j)'
        BY <2>2, <2>3, <2>4, <2>5 DEF JobOk, NoJob
    <2>7. JobOk(j)' => JobOk(job[a])'
        BY <2>2 DEF JobOk, EnsureOk, DropOk, Recent, Free, Progress, Full, Known, NoTransactionLeft,
           Gone, Parts
    <2> QED
        BY <2>6, <2>7
  <1> QED
      BY <1>3, <1>4, <1>5, <1>6 DEF PlansOk

\* A full count of months without a gap.
LEMMA CoverageIsFull ==
  ASSUME NEW p, ~Below(p), NEW i \in 0 .. MinMonthsAhead
  PROVE  Covered(p, MonthOf(clock) + i)
  <1> DEFINE all == 0 .. MinMonthsAhead
             S == {n \in all : \A x \in 0 .. n : Covered(p, MonthOf(clock) + x)}
  <1>1. MinMonthsAhead \in Nat
      BY TimeAssumption
  <1>2. IsFiniteSet(all) /\ Cardinality(all) = MinMonthsAhead + 1
      BY <1>1, FS_Interval
  <1>3. S \subseteq all
      OBVIOUS
  <1>4. Cardinality(S) \in Nat /\ Cardinality(S) <= MinMonthsAhead + 1
        /\ (Cardinality(S) = MinMonthsAhead + 1 => S = all)
    <2> HIDE DEF S, all
    <2> QED
        BY <1>2, <1>3, FS_Subset, FS_CardinalityType
  <1>5. ~(Cardinality(S) <= MinMonthsAhead)
      BY DEF Below, Coverage
  <1>6. S = all
      BY <1>1, <1>4, <1>5
  <1>7. i \in S
      BY <1>6
  <1>8. i \in 0 .. i
      BY <1>1
  <1> QED
      BY <1>7, <1>8

LEMMA HealthPlans ==
  ASSUME LockInv, PlansOk, NEW k \in Keepers, Health(k)
  PROVE  PlansOk'
  <1>1. /\ ~Report.below /\ assured' = MonthOf(clock) + MinMonthsAhead
        /\ UNCHANGED <<parts, live, pending, loose, dropped, job, clock, ensured>>
      BY DEF Health, catalog
  <1>2. clock \in Nat /\ MonthOf(clock) \in Nat /\ MinMonthsAhead \in Nat
      BY ClockNat, MonthOfTime, TimeAssumption DEF PlansOk
  <1>3. CatalogOk' /\ ClockOk'
      BY <1>1, <1>2 DEF PlansOk, CatalogOk, ClockOk, Gone, TransactionsGone
  <1>4. /\ ~Below(Transaction)
        /\ \A v \in Severities : \E p \in PartsOf(v) : IsPlain(p) \/ ~Below(p)
      BY <1>1 DEF Report
  <1>5. ASSUME NEW m \in Int, MonthOf(clock) <= m, m <= assured', NEW v \in Severities
        PROVE  Fits(v, m)
    <2> DEFINE i == m - MonthOf(clock)
    <2>1. i \in 0 .. MinMonthsAhead /\ m = MonthOf(clock) + i
        BY <1>1, <1>2, <1>5
    <2> HIDE DEF i
    <2>2. Covered(Transaction, m)
        BY <1>4, <2>1, CoverageIsFull
    <2>3. PICK p \in PartsOf(v) : IsPlain(p) \/ ~Below(p)
        BY <1>4
    <2>4. IsPlain(p) \/ Covered(p, m)
        BY <2>1, <2>3, CoverageIsFull
    <2> QED
        BY <2>2, <2>3, <2>4 DEF Fits, Covered
  <1>6. \A v, m : Fits(v, m) => Fits(v, m)'
      BY <1>1, FitsKept
  <1>7. Ahead'
    <2> SUFFICES ASSUME NEW m \in Int, MonthOf(clock) <= m, m <= ensured \/ m <= assured',
                        NEW v \in Severities
                 PROVE  Fits(v, m)'
        BY <1>1 DEF Ahead
    <2>1. Fits(v, m)
        BY <1>5 DEF PlansOk, Ahead
    <2> QED
        BY <2>1, <1>6
  <1>8. \A a \in Actors : JobOk(job[a])'
      BY <1>1 DEF PlansOk, JobOk, EnsureOk, DropOk, Recent, Free, Progress, Full, Known,
         NoTransactionLeft, Gone, Parts
  <1> QED
      BY <1>3, <1>7, <1>8 DEF PlansOk


-----------------------------------------------------------------------------
(* The inductive invariant.                                                *)

IInv == LockInv /\ PlansOk

LEMMA InitPlans == Init => PlansOk
  <1> SUFFICES ASSUME Init PROVE PlansOk
      OBVIOUS
  <1>1. PICK layout \in Layouts : parts = layout.parts /\ live = layout.byHand
      BY DEF Init
  <1>2. /\ clock = 0 /\ pending = {} /\ loose = {} /\ dropped = {} /\ ensured = -1 /\ assured = -1
        /\ job = [a \in Actors |-> NoJob]
      BY DEF Init
  <1>3. Gone = {}
      BY <1>2 DEF Gone
  <1>4. ASSUME NEW ch \in live PROVE IsMonthly(ch)
    <2>1. /\ ch.parent \in {Transaction} \cup {Part(values) : values \in layout.parts}
          /\ ch.first \in Nat /\ ch.last \in Nat /\ ch.first <= ch.last /\ ch.made = "hand"
        BY <1>1, <1>4, LayoutsAssumption
    <2>2. ASSUME NEW values \in layout.parts, ch.parent = Part(values) PROVE IsParent(ch.parent)
      <3>1. IsPart(values)
          BY LayoutsAssumption
      <3> QED
          BY <3>1, <2>2, TransactionIsNoPart DEF IsParent
    <2>3. IsParent(ch.parent)
        BY <2>1, <2>2 DEF IsParent
    <2> QED
        BY <2>1, <2>3 DEF IsMonthly
  <1>5. CatalogOk
      BY <1>1, <1>2, <1>3, <1>4, LayoutsAssumption DEF CatalogOk
  <1>6. ClockOk
      BY <1>2, TimeAssumption DEF ClockOk
  <1>7. Ahead
    <2>1. 0 \in Nat /\ MonthOf(0) \in Nat
        BY MonthOfTime
    <2> QED
        BY <1>2, <2>1 DEF Ahead
  <1>8. \A a \in Actors : JobOk(job[a])
      BY <1>2, NoJobOk
  <1> QED
      BY <1>5, <1>6, <1>7, <1>8 DEF PlansOk

LEMMA NextPlans == LockInv /\ PlansOk /\ [Next]_vars => PlansOk'
  <1> SUFFICES ASSUME LockInv, PlansOk, [Next]_vars PROVE PlansOk'
      OBVIOUS
  <1>0. DOMAIN job = Actors /\ Clients \subseteq Actors /\ Keepers \subseteq Actors
      BY DEF LockInv, Shape, Actors
  <1>1. CASE UNCHANGED vars
      BY <1>1, QuietPlans DEF vars, Times
  <1>2. CASE Tick
      BY <1>2, TickPlans
  <1>3. ASSUME NEW a \in Actors, EnsureStep(a) \/ EnsureCrashes(a) PROVE PlansOk'
    <2>1. CASE EnsureTimesOut(a) \/ EnsureCrashes(a)
        BY <2>1, <1>0, CallEnds DEF EnsureTimesOut, EnsureCrashes, EnsureEnds, Times
    <2> QED
        BY <1>3, <2>1, EnsureLocksPlans, EnsureCreatesPlans, EnsureCommitsPlans DEF EnsureStep
  <1>4. ASSUME NEW k \in Keepers, StartEnsure(k) \/ Health(k) PROVE PlansOk'
    <2>1. CASE StartEnsure(k)
        BY <2>1, <1>0, EnsureStarts DEF StartEnsure, Times
    <2> QED
        BY <1>4, <2>1, HealthPlans
  <1>5. ASSUME NEW k \in Keepers, DropStep(k) \/ DropCrashes(k) PROVE PlansOk'
    <2>1. CASE DropReturns(k) \/ DropTimesOut(k) \/ DropCrashes(k)
        BY <2>1, <1>0, CallEnds DEF DropReturns, DropTimesOut, DropCrashes, DropEnds, Times
    <2> QED
        BY <1>5, <2>1, DropLocksPlans, ReadChildrenPlans, DetachStartsPlans, DetachedPlans,
           DropTablePlans, DropTurnEndsPlans DEF DropStep
  <1>6. ASSUME NEW k \in Keepers, NEW policy \in Policies, StartDrop(k, policy) PROVE PlansOk'
      BY <1>6, StartDropPlans
  <1>7. ASSUME NEW c \in Clients, ClientStep(c) \/ InsertBreaks(c) PROVE PlansOk'
    <2>1. ASSUME NEW isMissing, NEW copies, InsertFails(c, isMissing, copies) PROVE PlansOk'
      <3>1. UNCHANGED <<catalog, Times>> /\ (Become(c, EnsureJob) \/ UNCHANGED job)
          BY <2>1 DEF InsertFails, Times
      <3>2. c \in Actors
          BY <1>0
      <3> QED
          BY <3>1, <3>2, <1>0, EnsureStarts, QuietPlans
    <2>2. CASE InsertMissing(c) \/ InsertBreaks(c)
        BY <2>1, <2>2 DEF InsertMissing, InsertBreaks
    <2>3. CASE InsertAll(c)
        BY <2>3, QuietPlans DEF InsertAll, Times
    <2> QED
        BY <1>7, <2>2, <2>3, SessionEndsPlans DEF ClientStep
  <1>8. ASSUME NEW c \in Clients, NEW v \in Severities, SessionWrites(c, v) PROVE PlansOk'
      BY <1>8, QuietPlans DEF SessionWrites, Times
  <1>9. ASSUME NEW c \in Clients, NEW v \in Severities, NEW failClosed \in BOOLEAN,
               LogDurable(c, v, failClosed)
        PROVE  PlansOk'
      BY <1>9, QuietPlans DEF LogDurable, Times
  <1> QED
      BY <1>1, <1>2, <1>3, <1>4, <1>5, <1>6, <1>7, <1>8, <1>9 DEF Next

\* Who is past the advisory lock holds it, what such a call has read is still
\* so, and what calls have planned or done keeps to the retentions and months.
THEOREM Inductive == Spec => []IInv
  <1>1. Init => IInv
      BY InitLocks, InitPlans DEF IInv
  <1>2. IInv /\ [Next]_vars => IInv'
      BY NextLocks, NextPlans DEF IInv
  <1> QED
      BY <1>1, <1>2, PTL DEF Spec

\* Maintenance never asks PostgreSQL for a second pending detach of a parent or
\* for one of a partition that is gone, whatever calls were interrupted before.
THEOREM DetachesAlwaysApply == Spec => []DetachesApply
  <1>1. IInv => DetachesApply
      BY DEF IInv, LockInv, Shape, OnePerParent, ReadsAreTrue, ReadIsTrue, DetachesApply
  <1> QED
      BY <1>1, Inductive, PTL

\* A durable entry is committed once when log() returns, at most once when it
\* does not, and one marked fail_closed is never lost in silence.
THEOREM LoggedAtMostOnce == Spec => []DurableOnce
  <1>1. IInv => DurableOnce
      BY DEF IInv, LockInv
  <1> QED
      BY <1>1, Inductive, PTL

\* Whatever an earlier, interrupted or differently configured call left behind,
\* drop_expired detaches and drops only what the retention of that very call
\* lets go.
THEOREM NothingGoesEarly == Spec => OnlyExpiredGo
  <1>1. ASSUME NEW j, j.policy \in Policies, j.now \in Nat, j.now <= clock, clock \in Nat,
               NEW ch, IsMonthly(ch), Expired(j, ch)
        PROVE  PastRetention(j.policy, ch)
    <2> DEFINE limit == LimitOf(j.policy, ch.parent)
    <2>1. /\ limit \in Nat /\ limit # None /\ ch.last # Unbounded /\ Upper(ch) \in Nat
          /\ Upper(ch) < clock - limit
      <3>1. limit # None /\ ch.last # Unbounded
          BY <1>1 DEF Expired
      <3>2. limit \in Nat /\ Upper(ch) \in Nat /\ Upper(ch) < j.now - limit
          BY <1>1, ExpiredIsPast
      <3> HIDE DEF limit
      <3> QED
          BY <3>1, <3>2, <1>1
    <2>2. CASE ch.parent = Transaction
      <3>1. limit = TransactionLimit(j.policy)
          BY <2>2 DEF LimitOf
      <3>2. limit \in Limits(j.policy) \cup {j.policy.transaction}
          BY <2>1, <3>1, <1>1, TransactionLimitIs
      <3> HIDE DEF limit
      <3> QED
          BY <2>1, <2>2, <3>2 DEF PastRetention, Limits
    <2>3. CASE ch.parent # Transaction
      <3>1. limit = Longest(j.policy, ListValues(ch.parent))
          BY <2>3 DEF LimitOf
      <3>2. \A v \in ListValues(ch.parent) :
              /\ v \in DOMAIN j.policy.limits /\ j.policy.limits[v] # None
              /\ j.policy.limits[v] \in Nat /\ j.policy.limits[v] <= limit
          BY <2>1, <3>1, <1>1, LongestIs
      <3> HIDE DEF limit
      <3>3. \A v \in ListValues(ch.parent) : Upper(ch) < clock - j.policy.limits[v]
          BY <2>1, <3>2, <1>1
      <3> QED
          BY <2>1, <2>3, <3>2, <3>3 DEF PastRetention
    <2> QED
        BY <2>2, <2>3
  <1>2. ASSUME IInv, NEW k \in Keepers, job[k].op = "drop", NEW ch \in live \cup Gone,
               Expired(job[k], ch)
        PROVE  PastRetention(job[k].policy, ch)
    <2>1. LockInv /\ PlansOk
        BY <1>2 DEF IInv
    <2>2. DropOk(job[k]) /\ IsMonthly(ch) /\ clock \in Nat
        BY <2>1, <1>2, DropIs, ClockNat DEF PlansOk, CatalogOk
    <2> QED
        BY <2>2, <1>1, <1>2 DEF DropOk, Recent
  <1>3. ASSUME IInv, [Next]_vars PROVE [OnlyExpiredStep]_vars
    <2>0. LockInv /\ PlansOk
        BY <1>3 DEF IInv
    <2>1. ASSUME NEW k \in Keepers, DetachStarts(k) PROVE OnlyExpiredStep
      <3>1. job[k].op = "drop" /\ loose' = loose
          BY <2>1 DEF DetachStarts
      <3>2. ReadIsTrue(job[k]) /\ DropOk(job[k])
          BY <2>0, <3>1, DropIs
      <3>3. ASSUME NEW ch \in live \ live' PROVE ch \in job[k].expire
        <4>1. ch \in job[k].finish \cup job[k].expire /\ job[k].finish = {}
            BY <2>1, <3>3 DEF DetachStarts
        <4> QED
            BY <4>1
      <3>4. \A ch \in live \ live' : Expired(job[k], ch)
          BY <3>2, <3>3 DEF DropOk
      <3>5. \A ch \in live \ live' : PastRetention(job[k].policy, ch)
          BY <3>1, <3>4, <1>2, <1>3
      <3> QED
          BY <3>1, <3>5 DEF OnlyExpiredStep
    <2>2. ASSUME NEW k \in Keepers, DropTable(k) PROVE OnlyExpiredStep
      <3>1. /\ job[k].op = "drop" /\ job[k].step = "detached"
            /\ live' = live /\ loose' = loose \ {job[k].child}
          BY <2>2 DEF DropTable
      <3>2. job[k].child \in Gone /\ Expired(job[k], job[k].child)
          BY <2>0, <3>1, DropIs DEF DropOk, Gone
      <3>3. PastRetention(job[k].policy, job[k].child)
          BY <3>1, <3>2, <1>2, <1>3
      <3> QED
          BY <3>1, <3>3 DEF OnlyExpiredStep
    <2>3. ASSUME live \subseteq live', loose \subseteq loose' PROVE OnlyExpiredStep
        BY <2>3 DEF OnlyExpiredStep
    <2>4. CASE UNCHANGED vars
        BY <2>4
    <2>5. ASSUME NEW k \in Keepers, DropStep(k) \/ DropCrashes(k) PROVE OnlyExpiredStep
        BY <2>5, <2>1, <2>2, <2>3 DEF DropStep, DropCrashes, DropLocks, ReadChildren, Detached,
           DropTurnEnds, DropReturns, DropTimesOut, DropEnds, catalog
    <2>6. ASSUME NEW a \in Actors, EnsureStep(a) \/ EnsureCrashes(a) PROVE OnlyExpiredStep
        BY <2>6, <2>3 DEF EnsureStep, EnsureCrashes, EnsureLocks, EnsureCreates, EnsureCommits,
           EnsureTimesOut, EnsureEnds, catalog
    <2>7. CASE Tick \/ \E k \in Keepers : StartEnsure(k) \/ Health(k)
        BY <2>7, <2>3 DEF Tick, StartEnsure, Health, catalog
    <2>8. CASE \E k \in Keepers, policy \in Policies : StartDrop(k, policy)
        BY <2>8, <2>3 DEF StartDrop, catalog
    <2>9. CASE \E c \in Clients : ClientStep(c) \/ InsertBreaks(c)
        BY <2>9, <2>3 DEF ClientStep, InsertAll, InsertMissing, InsertBreaks, InsertFails,
           SessionEnds, catalog
    <2>10. CASE \E c \in Clients, v \in Severities :
                  SessionWrites(c, v) \/ \E failClosed \in BOOLEAN : LogDurable(c, v, failClosed)
        BY <2>10, <2>3 DEF SessionWrites, LogDurable, catalog
    <2> QED
        BY <1>3, <2>4, <2>5, <2>6, <2>7, <2>8, <2>9, <2>10 DEF Next
  <1> QED
      BY <1>3, Inductive, PTL DEF Spec, OnlyExpiredGo

\* Once the activity of a month has been dropped, no partition that the library
\* made holds its transactions, however retentions changed in between.
THEOREM TransactionsNeverOutlive == Spec => []TransactionGoesFirst
  <1>1. IInv => TransactionGoesFirst
      BY DEF IInv, PlansOk, CatalogOk, Gone, TransactionsGone, TransactionGoesFirst
  <1> QED
      BY <1>1, Inductive, PTL

\* After ensure_partitions every row up to the last month it was asked for finds
\* a partition, whatever other calls drop or create.
THEOREM RowsFitAhead == Spec => []CoveredAhead
  <1>1. IInv => CoveredAhead
    <2> SUFFICES ASSUME IInv, NEW m \in MonthOf(clock) .. ensured, NEW v \in Severities
                 PROVE  Fits(v, m)
        BY DEF CoveredAhead
    <2>1. clock \in Nat /\ MonthOf(clock) \in Nat /\ ensured \in Int
        BY ClockNat, MonthOfTime DEF IInv, PlansOk, ClockOk
    <2> QED
        BY <2>1 DEF IInv, PlansOk, Ahead
  <1> QED
      BY <1>1, Inductive, PTL

\* What health found covered stays covered.
THEOREM HealthMeansCovered == Spec => []AssuranceHolds
  <1>1. IInv => AssuranceHolds
    <2> SUFFICES ASSUME IInv, MonthOf(clock) <= assured, NEW v \in Severities
                 PROVE  Fits(v, MonthOf(clock))
        BY DEF AssuranceHolds
    <2>1. clock \in Nat /\ MonthOf(clock) \in Nat
        BY ClockNat, MonthOfTime DEF IInv, PlansOk
    <2> QED
        BY <2>1 DEF IInv, PlansOk, Ahead
  <1> QED
      BY <1>1, Inductive, PTL

\* Of calls that run at once none creates what another has created or detached.
THEOREM NothingCreatedTwice == Spec => []CreatedOnce
  <1>1. IInv => CreatedOnce
    <2> SUFFICES ASSUME IInv, NEW a \in DOMAIN job, job[a].op = "ensure"
                 PROVE  /\ \A new \in job[a].made :
                             /\ new \notin loose
                             /\ \A ch \in live \cup pending :
                                  ch.parent = new.parent => ch.last < new.first \/ new.last < ch.first
                        /\ \A b \in DOMAIN job \ {a} :
                             job[b].op = "ensure" => job[a].made \cap job[b].made = {}
        BY DEF CreatedOnce
    <2>1. a \in Actors /\ DOMAIN job = Actors /\ EnsureOk(job[a]) /\ CatalogOk
        BY DEF IInv, LockInv, Shape, PlansOk, JobOk
    <2>2. ASSUME NEW new \in job[a].made PROVE new \notin loose /\ Free(new)
      <3>1. IsMonthly(new) /\ MonthOf(job[a].now) <= new.first /\ Free(new)
          BY <2>1 DEF EnsureOk
      <3>2. \A ch \in loose : ch.last < MonthOf(job[a].now)
          BY <2>1 DEF EnsureOk, Gone
      <3>3. MonthOf(job[a].now) \in Nat
          BY <2>1, MonthOfTime DEF EnsureOk, Recent
      <3>4. new.first \in Nat /\ new.last \in Nat /\ new.first <= new.last
          BY <3>1 DEF IsMonthly
      <3> QED
          BY <3>1, <3>2, <3>3, <3>4
    <2>3. ASSUME NEW b \in Actors, b # a, job[b].op = "ensure"
          PROVE  job[a].made = {} \/ job[b].made = {}
      <3>1. EnsureOk(job[b])
          BY <2>3 DEF IInv, PlansOk, JobOk
      <3>2. CASE job[a].step # "queued"
        <4>1. job[b].step = "queued"
            BY <2>1, <2>3, <3>2 DEF IInv, LockInv, HoldsLock
        <4> QED
            BY <3>1, <4>1 DEF EnsureOk
      <3>3. CASE job[a].step = "queued"
          BY <2>1, <3>3 DEF EnsureOk
      <3> QED
          BY <3>2, <3>3
    <2> QED
        BY <2>1, <2>2, <2>3 DEF Free
  <1> QED
      BY <1>1, Inductive, PTL

================================================================================
