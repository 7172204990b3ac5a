------------------------------- MODULE Instances -------------------------------
(***************************************************************************)
(* What the entries of one instance say of its row (diff.py), over the     *)
(* instance's life in a session: new, changed, expired, given another      *)
(* primary key, deleted, added again, flushed many times, committed and    *)
(* rolled back.  Entries are made from memory alone, without SQL.          *)
(*                                                                         *)
(* The model has a primary key, a column the scope option reads, and one   *)
(* with a server default.  What the ORM does with memory and row is        *)
(* modelled as the comments of diff.py and mixin.py rely on it.            *)
(***************************************************************************)
EXTENDS Naturals

CONSTANTS
  Ids,            \* primary keys
  Owners, Notes,  \* what the two columns may hold
  Null,
  Default,        \* the server default of note
  Unloaded,       \* not in the instance's __dict__
  Unset,          \* no old value is kept
  Unknown,        \* diff.UNKNOWN
  NoRow, NoKey, NoEntry,
  ContextScope,   \* the scope the audit context names
  EagerDefaults   \* whether INSERT fetches server defaults

ASSUME ValuesAssumption == Null \in Owners \cap Notes /\ Default \in Notes
ASSUME EagerAssumption == EagerDefaults \in BOOLEAN

Columns == {"id", "owner", "note"}
Values == Ids \cup Owners \cup Notes
ServerDefaults == {"note"}

\* The markers are no values, and a table without a row differs from any row.
ASSUME MarkersAssumption ==
  /\ {Unloaded, Unset, Unknown} \cap Values = {}
  /\ Unloaded # Unset
  /\ NoKey \notin Ids
  /\ NoRow \notin [Columns -> Values \cup {Unknown}]

Nothing == [c \in Columns |-> Unloaded]
NoOld == [c \in Columns |-> Unset]

VARIABLES
  rows, start,      \* the table now, and when the transaction began
  status, key,      \* the instance: where it is, and its identity
  startKey,         \* its identity when the transaction began
  mem, old,         \* its __dict__, and the committed values of what changed
  entry,            \* the entry of a flush that has just ended
  told              \* the table as a reader of the entries so far works it out

session == <<status, key, mem, old>>
vars == <<rows, start, session, startKey, entry, told>>

------------------------------------------------------------------------------
(* Values as an entry shows them.                                          *)

Render(v) == IF v = Unloaded THEN Unknown ELSE v

\* The ids an entry can be found under: inside after_flush the identity is
\* still the one from before, and a new instance has none.
ObjectId(k) == IF k # NoKey THEN k ELSE mem["id"]

\* A column never set is NULL in a row that has just been inserted.
BugUnsetIsNull(k, c) == FALSE
UnsetIsNull(k, c) == k = NoKey /\ c \notin ServerDefaults

\* resolve_scope: of a value not in memory, the scope of the context.
ScopeOf(m, k) ==
  IF m["owner"] # Unloaded THEN m["owner"]
  ELSE IF UnsetIsNull(k, "owner") THEN Null
  ELSE ContextScope

\* An entry, with the row it is about, what was told of that row before, and
\* the columns assigned since the last flush.
EntryOf(verb, changes, m, row) ==
  [verb |-> verb, id |-> ObjectId(key), changes |-> changes, scope |-> ScopeOf(m, key),
   row |-> row, was |-> NoRow, read |-> m["owner"] # Unloaded,
   assigned |-> {c \in Columns : old[c] # Unset}]

------------------------------------------------------------------------------
Init ==
  /\ rows \in [Ids -> {NoRow}]
  /\ start = rows
  /\ status = "none" /\ key = NoKey /\ startKey = NoKey
  /\ mem = Nothing /\ old = NoOld
  /\ entry = NoEntry /\ told = rows

Attached == status \in {"persistent", "deleting"}

\* A load of what has expired: all of it at once.
LoadedMem == [c \in Columns |-> IF mem[c] = Unloaded THEN rows[key][c] ELSE mem[c]]

\* session.add(Model(...)); what the constructor is not given stays unset.
New ==
  /\ status \in {"none", "gone"}
  /\ \E id \in Ids, owner \in Owners \cup {Unloaded}, note \in Notes \cup {Unloaded} :
       mem' = [c \in Columns |-> CASE c = "id" -> id
                                   [] c = "owner" -> owner
                                   [] c = "note" -> note]
  /\ status' = "pending" /\ key' = NoKey /\ old' = NoOld
  /\ UNCHANGED <<rows, start, startKey, told>> /\ entry' = NoEntry

\* With active_history, assigning to what has expired loads the old value.
BugBeforeAssign(c) == mem
BeforeAssign(c) == IF Attached /\ mem[c] = Unloaded THEN LoadedMem ELSE mem
Assign(c, v) ==
  /\ status \in {"pending", "persistent", "deleting"}
  /\ v # mem[c]
  /\ mem' = [BeforeAssign(c) EXCEPT ![c] = v]
  /\ old' = IF Attached /\ old[c] = Unset THEN [old EXCEPT ![c] = BeforeAssign(c)[c]] ELSE old
  /\ UNCHANGED <<rows, start, status, key, startKey, told>> /\ entry' = NoEntry

Read ==
  /\ Attached /\ mem # LoadedMem
  /\ mem' = LoadedMem
  /\ UNCHANGED <<rows, start, status, key, startKey, old, told>> /\ entry' = NoEntry

\* session.expire(instance) or some attributes of it: changes are discarded.
Expire(columns) ==
  /\ Attached
  /\ mem' = [c \in Columns |-> IF c \in columns THEN Unloaded ELSE mem[c]]
  /\ old' = [c \in Columns |-> IF c \in columns THEN Unset ELSE old[c]]
  /\ UNCHANGED <<rows, start, status, key, startKey, told>> /\ entry' = NoEntry

Delete ==
  /\ status = "persistent" /\ status' = "deleting"
  /\ UNCHANGED <<rows, start, key, startKey, mem, old, told>> /\ entry' = NoEntry

AddAgain ==
  /\ status = "deleting" /\ status' = "persistent"
  /\ UNCHANGED <<rows, start, key, startKey, mem, old, told>> /\ entry' = NoEntry

------------------------------------------------------------------------------
(* The flush, and after_flush with the entry of the instance.              *)

\* A table after an entry, as a reader works it out.
Replay(table, e) ==
  CASE e.verb = "created" -> [table EXCEPT ![e.id] = [c \in Columns |-> e.changes[c][2]]]
    [] e.verb = "deleted" -> [table EXCEPT ![e.id] = NoRow]
    [] e.verb = "updated" ->
         IF table[e.id] = NoRow THEN table
         ELSE LET row == [c \in Columns |-> IF c \in DOMAIN e.changes THEN e.changes[c][2]
                                            ELSE table[e.id][c]]
              IN  [k \in Ids |-> IF k = row["id"] THEN row
                                 ELSE IF k = e.id THEN NoRow ELSE table[k]]

Record(e) ==
  /\ entry' = [e EXCEPT !.was = told[e.id]]
  /\ told' = Replay(told, e)
  /\ old' = NoOld
  /\ UNCHANGED <<start, startKey>>

\* Kind "created": every column, what was never set as the row has it.
CreatedChanges(m) ==
  [c \in Columns |-> <<Null, IF m[c] = Unloaded /\ c \notin ServerDefaults THEN Null
                             ELSE Render(m[c])>>]
FlushNew ==
  /\ status = "pending"
  /\ rows[mem["id"]] = NoRow
  /\ LET row == [c \in Columns |-> IF mem[c] # Unloaded THEN mem[c]
                                   ELSE IF c \in ServerDefaults THEN Default ELSE Null]
         fetched == IF EagerDefaults THEN [mem EXCEPT !["note"] = row["note"]] ELSE mem
     IN  /\ rows' = [rows EXCEPT ![mem["id"]] = row]
         /\ Record(EntryOf("created", CreatedChanges(fetched), fetched, row))
         /\ mem' = fetched
  /\ status' = "persistent" /\ key' = mem["id"]

\* Kind "updated": the columns with a net change.
Changed == {c \in Columns : old[c] # Unset /\ old[c] # mem[c]}
FlushChanged ==
  /\ status = "persistent" /\ Changed # {}
  /\ "id" \in Changed => rows[mem["id"]] = NoRow
  /\ LET row == [c \in Columns |-> IF c \in Changed THEN mem[c] ELSE rows[key][c]]
     IN  /\ rows' = [k \in Ids |-> IF k = row["id"] THEN row
                                   ELSE IF k = key THEN NoRow ELSE rows[k]]
         /\ Record(EntryOf("updated", [c \in Changed |-> <<Render(old[c]), mem[c]>>], mem, row))
         /\ key' = row["id"]
  /\ UNCHANGED <<status, mem>>

\* Kind "deleted": every column as memory has it.  DELETE needs the primary
\* key, and loads the instance when that has expired.
FlushDeleted ==
  /\ status = "deleting"
  /\ LET m == IF mem["id"] = Unloaded THEN LoadedMem ELSE mem
     IN  /\ Record(EntryOf("deleted", [c \in Columns |-> <<Render(m[c]), Null>>], m, rows[key]))
         /\ mem' = m
  /\ rows' = [rows EXCEPT ![key] = NoRow]
  /\ status' = "gone" /\ UNCHANGED key

\* commit(), with nothing left to flush and expire_on_commit.
Commit ==
  /\ status \in {"persistent", "gone", "none"}
  /\ status = "persistent" => Changed = {}
  /\ start' = rows /\ told' = rows /\ entry' = NoEntry
  /\ IF status = "persistent" THEN UNCHANGED <<status, key>>
     ELSE status' = "none" /\ key' = NoKey
  /\ startKey' = key'
  /\ mem' = Nothing /\ old' = NoOld
  /\ UNCHANGED rows

\* rollback(): a new instance is no more, a deleted one and a former identity
\* are back, and all of it is expired.
Rollback ==
  /\ rows' = start /\ told' = start /\ entry' = NoEntry
  /\ status' = IF startKey = NoKey THEN "none" ELSE "persistent"
  /\ key' = startKey
  /\ mem' = Nothing /\ old' = NoOld
  /\ UNCHANGED <<start, startKey>>

Next ==
  \/ New \/ Read \/ Delete \/ AddAgain
  \/ \E id \in Ids : Assign("id", id)
  \/ \E v \in Owners : Assign("owner", v)
  \/ \E v \in Notes : Assign("note", v)
  \/ \E columns \in {Columns, {"owner"}, {"note"}} : Expire(columns)
  \/ FlushNew \/ FlushChanged \/ FlushDeleted \/ Commit \/ Rollback

Spec == Init /\ [][Next]_vars

------------------------------------------------------------------------------
(* Properties.                                                             *)

Agrees(said, row) ==
  \/ said = row
  \/ said # NoRow /\ row # NoRow /\ \A c \in Columns : said[c] \in {Unknown, row[c]}

\* The entries of a transaction, applied in order to the table it began with,
\* give the table it leaves: no change is left out, whatever was expired
\* meanwhile, and the entry of a changed primary key is found under the old one.
\* The old value of every column is what the entries before left there, and of
\* an updated one it is never "<unknown>".  A deletion may name a value that was
\* assigned and not flushed; the database never held it.
EntriesReplay ==
  /\ \A k \in Ids : Agrees(told[k], rows[k])
  /\ entry # NoEntry =>
       LET was == entry.was
       IN  /\ (was = NoRow) = (entry.verb = "created")
           /\ entry.verb # "created" => \A c \in DOMAIN entry.changes :
                \/ entry.changes[c][1] = was[c]
                \/ was[c] = Unknown /\ entry.changes[c][1] # Unknown
                \/ entry.verb = "deleted" /\ (entry.changes[c][1] = Unknown \/ c \in entry.assigned)

\* An entry belongs to the tenant of its row, NULL included; the scope of the
\* context stands in only when the tenant's column was expired by the flush, and
\* a deletion may name a tenant that was assigned and not flushed.
ScopeOfTheRow ==
  entry # NoEntry =>
    \/ entry.scope = entry.row["owner"]
    \/ entry.scope = ContextScope /\ ~entry.read /\ entry.verb # "created"
    \/ entry.verb = "deleted" /\ "owner" \in entry.assigned

------------------------------------------------------------------------------
(* The inductive strengthening of the properties.                          *)

\* A row, and what was told of one, stand under their primary key.
Row == [Columns -> Values]
ToldRow == [Columns -> Values \cup {Unknown}]
KeyOf(table, k) == table[k] # NoRow => table[k]["id"] = k

TypeOK ==
  /\ {rows, start} \subseteq [Ids -> Row \cup {NoRow}]
  /\ told \in [Ids -> ToldRow \cup {NoRow}]
  /\ \A table \in {rows, start, told}, k \in Ids : KeyOf(table, k)
  /\ status \in {"none", "pending", "persistent", "deleting", "gone"}
  /\ {key, startKey} \subseteq Ids \cup {NoKey}
  /\ mem \in [Columns -> Values \cup {Unloaded}] /\ mem["id"] \in Ids \cup {Unloaded}
  /\ old \in [Columns -> Values \cup {Unset}]

\* The table holds the row of the instance's identity and no other, while the
\* instance has one; and so it did when the transaction began.
OneRow ==
  /\ status \in {"none", "pending"} => key = NoKey
  /\ status = "pending" => mem["id"] # Unloaded
  /\ Attached => key # NoKey
  /\ \A k \in Ids : rows[k] # NoRow <=> Attached /\ k = key
  /\ \A k \in Ids : start[k] # NoRow <=> k = startKey

\* What was changed in memory has the stored value kept aside; the rest is the
\* stored value, or expired.
MemoryOfRow ==
  \A c \in Columns :
    IF old[c] # Unset THEN Attached /\ mem[c] # Unloaded /\ old[c] = rows[key][c]
    ELSE Attached => mem[c] \in {Unloaded, rows[key][c]}

IInv == TypeOK /\ OneRow /\ MemoryOfRow /\ EntriesReplay /\ ScopeOfTheRow
================================================================================
