----------------------------- MODULE InstancesProofs -----------------------------
(***************************************************************************)
(* What the entries of an instance say of its row, for every set of keys   *)
(* and values, and over a life of any length: proofs.                      *)
(***************************************************************************)
EXTENDS Instances, TLAPS

USE MarkersAssumption, ValuesAssumption

-----------------------------------------------------------------------------
(* Memory and row.                                                          *)

\* A load gives the stored value of what had expired.
LEMMA Loaded ==
  ASSUME TypeOK, OneRow, MemoryOfRow, Attached
  PROVE  /\ key \in Ids /\ rows[key] \in Row /\ rows[key]["id"] = key
         /\ LoadedMem \in Row
         /\ \A c \in Columns : old[c] = Unset => LoadedMem[c] = rows[key][c]
         /\ \A c \in Columns : mem[c] # Unloaded => LoadedMem[c] = mem[c]
<1>1. key \in Ids /\ rows[key] \in Row /\ rows[key]["id"] = key
  BY DEF TypeOK, OneRow, KeyOf
<1>2. \A c \in Columns :
        LoadedMem[c] = IF mem[c] = Unloaded THEN rows[key][c] ELSE mem[c]
  BY DEF LoadedMem
<1>3. \A c \in Columns : rows[key][c] \in Values /\ mem[c] \in Values \cup {Unloaded}
  BY <1>1 DEF Row, TypeOK
<1>4. LoadedMem \in Row
  BY <1>3 DEF LoadedMem, Row
<1>5. \A c \in Columns : old[c] = Unset => mem[c] \in {Unloaded, rows[key][c]}
  BY DEF MemoryOfRow
<1> QED BY <1>1, <1>2, <1>4, <1>5

\* The two halves of EntriesReplay: the table as told, and the last entry.
Replayed == \A k \in Ids : Agrees(told[k], rows[k])
Fits(e, was) ==
  /\ (was = NoRow) = (e.verb = "created")
  /\ e.verb # "created" => \A c \in DOMAIN e.changes :
       \/ e.changes[c][1] = was[c]
       \/ was[c] = Unknown /\ e.changes[c][1] # Unknown
       \/ e.verb = "deleted" /\ (e.changes[c][1] = Unknown \/ c \in e.assigned)
Scoped(e) ==
  \/ e.scope = e.row["owner"]
  \/ e.scope = ContextScope /\ ~e.read /\ e.verb # "created"
  \/ e.verb = "deleted" /\ "owner" \in e.assigned

\* A step without an entry keeps what was told and what there is.
LEMMA Silent ==
  ASSUME EntriesReplay, entry' = NoEntry, rows' = rows, told' = told
  PROVE  EntriesReplay' /\ ScopeOfTheRow'
  BY DEF EntriesReplay, ScopeOfTheRow, Agrees

\* Memory is loaded, and the new value is put into it.
LEMMA AssignStep ==
  ASSUME IInv, NEW c \in Columns, NEW v, Assign(c, v),
         v \in Values, c = "id" => v \in Ids
  PROVE  IInv'
<1> USE DEF IInv
<1>1. /\ UNCHANGED <<rows, start, status, key, startKey, told>> /\ entry' = NoEntry
      /\ mem' = [BeforeAssign(c) EXCEPT ![c] = v]
      /\ Attached' = Attached
  BY DEF Assign, Attached
<1>2. EntriesReplay' /\ ScopeOfTheRow'
  BY <1>1, Silent
<1>3. /\ BeforeAssign(c) \in [Columns -> Values \cup {Unloaded}]
      /\ BeforeAssign(c)["id"] \in Ids \cup {Unloaded}
      /\ Attached => BeforeAssign(c)[c] \in Values
      /\ \A d \in Columns : mem[d] # Unloaded => BeforeAssign(c)[d] = mem[d]
      /\ \A d \in Columns : Attached /\ old[d] = Unset =>
           BeforeAssign(c)[d] \in {Unloaded, rows[key][d]}
      /\ Attached /\ old[c] = Unset => BeforeAssign(c)[c] = rows[key][c]
  <2>1. CASE Attached /\ mem[c] = Unloaded
    <3>1. BeforeAssign(c) = LoadedMem
      BY <2>1 DEF BeforeAssign
    <3>2. LoadedMem["id"] \in Ids
      BY <2>1, Loaded DEF LoadedMem, Columns, TypeOK
    <3> QED BY <2>1, <3>1, <3>2, Loaded DEF Row
  <2>2. CASE ~(Attached /\ mem[c] = Unloaded)
    BY <2>2 DEF BeforeAssign, TypeOK, MemoryOfRow
  <2> QED BY <2>1, <2>2
<1>4. /\ mem' \in [Columns -> Values \cup {Unloaded}] /\ mem'["id"] \in Ids \cup {Unloaded}
      /\ mem'[c] = v /\ \A d \in Columns \ {c} : mem'[d] = BeforeAssign(c)[d]
  BY <1>1, <1>3 DEF Columns
<1>5. /\ old' \in [Columns -> Values \cup {Unset}]
      /\ \A d \in Columns \ {c} : old'[d] = old[d]
      /\ old'[c] = IF Attached /\ old[c] = Unset THEN BeforeAssign(c)[c] ELSE old[c]
  BY <1>3 DEF Assign, TypeOK
<1>6. TypeOK'
  BY <1>1, <1>4, <1>5 DEF TypeOK, KeyOf
<1>7. OneRow'
  <2>1. status = "pending" => mem'["id"] # Unloaded
    BY <1>3, <1>4 DEF OneRow, Columns
  <2> QED BY <1>1, <2>1 DEF OneRow
<1>8. MemoryOfRow'
  <2>1. ASSUME NEW d \in Columns
        PROVE  IF old'[d] # Unset THEN Attached /\ mem'[d] # Unloaded /\ old'[d] = rows[key][d]
               ELSE Attached => mem'[d] \in {Unloaded, rows[key][d]}
    <3>1. CASE d = c
      BY <1>3, <1>4, <1>5, <3>1 DEF MemoryOfRow
    <3>2. CASE d # c
      BY <1>3, <1>4, <1>5, <3>2 DEF MemoryOfRow
    <3> QED BY <3>1, <3>2
  <2> QED BY <1>1, <2>1 DEF MemoryOfRow
<1> QED BY <1>2, <1>6, <1>7, <1>8

\* Steps on memory alone: what it holds is stored, changed or expired.
LEMMA MemoryStep ==
  ASSUME IInv, entry' = NoEntry, UNCHANGED <<rows, start, key, startKey, told>>,
         status' = status \/ (Attached /\ status' \in {"persistent", "deleting"}),
         Attached,
         mem' \in [Columns -> Values \cup {Unloaded}], mem'["id"] \in Ids \cup {Unloaded},
         old' \in [Columns -> Values \cup {Unset}],
         \A c \in Columns :
           IF old'[c] # Unset THEN mem'[c] # Unloaded /\ old'[c] = rows[key][c]
           ELSE mem'[c] \in {Unloaded, rows[key][c]}
  PROVE  IInv'
<1> USE DEF IInv
<1>1. EntriesReplay' /\ ScopeOfTheRow'
  BY Silent
<1>2. Attached' /\ Attached
  BY DEF Attached
<1>3. TypeOK'
  BY DEF TypeOK, KeyOf, Attached
<1>4. OneRow'
  BY <1>2 DEF OneRow, Attached
<1>5. MemoryOfRow'
  BY <1>2 DEF MemoryOfRow
<1> QED BY <1>1, <1>3, <1>4, <1>5

LEMMA ReadStep == IInv /\ Read => IInv'
<1> SUFFICES ASSUME IInv, Read PROVE IInv'
  OBVIOUS
<1>1. /\ Attached /\ mem' = LoadedMem
      /\ entry' = NoEntry /\ UNCHANGED <<rows, start, status, key, startKey, told, old>>
  BY DEF Read
<1>2. LoadedMem \in Row /\ LoadedMem["id"] \in Ids
  BY <1>1, Loaded DEF IInv, LoadedMem, Columns, TypeOK
<1>3. /\ mem' \in [Columns -> Values \cup {Unloaded}]
      /\ old' \in [Columns -> Values \cup {Unset}]
  BY <1>1, <1>2 DEF Row, IInv, TypeOK
<1>4. \A c \in Columns :
        IF old'[c] # Unset THEN mem'[c] # Unloaded /\ old'[c] = rows[key][c]
        ELSE mem'[c] \in {Unloaded, rows[key][c]}
  BY <1>1, Loaded DEF IInv, MemoryOfRow
<1> QED BY <1>1, <1>2, <1>3, <1>4, MemoryStep

LEMMA ExpireStep ==
  ASSUME IInv, NEW columns, Expire(columns)
  PROVE  IInv'
<1>1. /\ Attached
      /\ entry' = NoEntry /\ UNCHANGED <<rows, start, status, key, startKey, told>>
      /\ mem' = [c \in Columns |-> IF c \in columns THEN Unloaded ELSE mem[c]]
      /\ old' = [c \in Columns |-> IF c \in columns THEN Unset ELSE old[c]]
  BY DEF Expire
<1>2. /\ mem' \in [Columns -> Values \cup {Unloaded}] /\ mem'["id"] \in Ids \cup {Unloaded}
      /\ old' \in [Columns -> Values \cup {Unset}]
  BY <1>1 DEF IInv, TypeOK, Columns
<1>3. \A c \in Columns :
        IF old'[c] # Unset THEN mem'[c] # Unloaded /\ old'[c] = rows[key][c]
        ELSE mem'[c] \in {Unloaded, rows[key][c]}
  BY <1>1 DEF IInv, MemoryOfRow
<1> QED BY <1>1, <1>2, <1>3, MemoryStep

LEMMA DeleteStep == IInv /\ (Delete \/ AddAgain) => IInv'
<1> SUFFICES ASSUME IInv, Delete \/ AddAgain PROVE IInv'
  OBVIOUS
<1>1. /\ Attached /\ status' \in {"persistent", "deleting"}
      /\ entry' = NoEntry /\ UNCHANGED <<rows, start, key, startKey, mem, old, told>>
  BY DEF Delete, AddAgain, Attached
<1> QED BY <1>1, MemoryStep DEF IInv, TypeOK, MemoryOfRow

\* A new instance has no row yet.
LEMMA NewStep == IInv /\ New => IInv'
<1> SUFFICES ASSUME IInv, New PROVE IInv'
  OBVIOUS
<1> USE DEF IInv
<1>1. PICK id \in Ids, owner \in Owners \cup {Unloaded}, note \in Notes \cup {Unloaded} :
        mem' = [c \in Columns |-> CASE c = "id" -> id
                                    [] c = "owner" -> owner
                                    [] c = "note" -> note]
  BY DEF New
<1>2. /\ ~Attached /\ ~Attached' /\ status' = "pending" /\ key' = NoKey /\ old' = NoOld
      /\ entry' = NoEntry /\ UNCHANGED <<rows, start, startKey, told>>
  BY DEF New, Attached
<1>3. /\ mem' \in [Columns -> Values \cup {Unloaded}] /\ mem'["id"] \in Ids
      /\ old' \in [Columns -> Values \cup {Unset}] /\ \A c \in Columns : old'[c] = Unset
  BY <1>1, <1>2 DEF Columns, Values, NoOld
<1>4. EntriesReplay' /\ ScopeOfTheRow'
  BY <1>2, Silent
<1>5. TypeOK'
  BY <1>2, <1>3 DEF TypeOK, KeyOf
<1>6. OneRow'
  BY <1>2, <1>3 DEF OneRow, Values
<1>7. MemoryOfRow'
  BY <1>2, <1>3 DEF MemoryOfRow
<1> QED BY <1>4, <1>5, <1>6, <1>7

\* A transaction that ends leaves a table without a reader's doubts, and an
\* instance of which nothing is in memory.
LEMMA EndStep == IInv /\ (Commit \/ Rollback) => IInv'
<1> SUFFICES ASSUME IInv, Commit \/ Rollback PROVE IInv'
  OBVIOUS
<1> USE DEF IInv
<1>1. /\ told' = rows' /\ start' = rows' /\ rows' \in {rows, start}
      /\ entry' = NoEntry /\ mem' = Nothing /\ old' = NoOld /\ startKey' = key'
  BY DEF Commit, Rollback
<1>2. /\ mem' \in [Columns -> Values \cup {Unloaded}] /\ mem'["id"] = Unloaded
      /\ old' \in [Columns -> Values \cup {Unset}]
      /\ \A c \in Columns : old'[c] = Unset /\ mem'[c] = Unloaded
  BY <1>1 DEF Nothing, NoOld, Columns
<1>3. /\ status' \in {"none", "persistent"} /\ key' \in Ids \cup {NoKey}
      /\ status' = "none" <=> key' = NoKey
      /\ \A k \in Ids : rows'[k] # NoRow <=> k = key'
  <2>1. CASE Commit
    BY <2>1 DEF Commit, OneRow, TypeOK, Attached
  <2>2. CASE Rollback
    BY <2>2 DEF Rollback, OneRow, TypeOK
  <2> QED BY <2>1, <2>2
<1>4. TypeOK'
  <2>1. rows' \in [Ids -> Row \cup {NoRow}] /\ \A k \in Ids : KeyOf(rows', k)
    BY <1>1 DEF TypeOK, KeyOf
  <2>2. rows' \in [Ids -> ToldRow \cup {NoRow}]
    BY <2>1 DEF Row, ToldRow
  <2> QED BY <1>1, <1>2, <1>3, <2>1, <2>2 DEF TypeOK, KeyOf
<1>5. OneRow'
  BY <1>1, <1>2, <1>3 DEF OneRow, Attached
<1>6. MemoryOfRow'
  BY <1>2 DEF MemoryOfRow
<1>7. EntriesReplay' /\ ScopeOfTheRow'
  BY <1>1 DEF EntriesReplay, ScopeOfTheRow, Agrees
<1> QED BY <1>4, <1>5, <1>6, <1>7

-----------------------------------------------------------------------------
(* What a flush records.                                                    *)

LEMMA Recorded ==
  ASSUME NEW verb, NEW changes, NEW m, NEW row, Record(EntryOf(verb, changes, m, row))
  PROVE  /\ entry'.verb = verb /\ entry'.changes = changes /\ entry'.row = row
         /\ entry'.scope = ScopeOf(m, key) /\ entry'.read = (m["owner"] # Unloaded)
         /\ entry'.was = told[ObjectId(key)]
         /\ entry'.assigned = {c \in Columns : old[c] # Unset}
         /\ old' = NoOld /\ UNCHANGED <<start, startKey>>
         /\ told' = Replay(told, EntryOf(verb, changes, m, row))
<1> DEFINE e == EntryOf(verb, changes, m, row)
<1>1. /\ entry' = [e EXCEPT !.was = told[e.id]]
      /\ old' = NoOld /\ UNCHANGED <<start, startKey>> /\ told' = Replay(told, e)
  BY DEF Record
<1>2. e = [verb |-> verb, id |-> ObjectId(key), changes |-> changes, scope |-> ScopeOf(m, key),
           row |-> row, was |-> NoRow, read |-> m["owner"] # Unloaded,
           assigned |-> {c \in Columns : old[c] # Unset}]
  BY DEF EntryOf
<1> QED BY <1>1, <1>2

\* The invariant holds of a flush if the table as told agrees with the one
\* there is, and the entry fits both.
LEMMA FlushStep ==
  ASSUME IInv,
         TypeOK', OneRow', MemoryOfRow', Replayed',
         Fits(entry', entry'.was), Scoped(entry')
  PROVE  IInv'
<1>1. EntriesReplay'
  BY DEF EntriesReplay, Replayed, Fits
<1>2. ScopeOfTheRow'
  BY DEF ScopeOfTheRow, Scoped
<1> QED BY <1>1, <1>2 DEF IInv

LEMMA FlushNewStep == IInv /\ FlushNew => IInv'
<1> SUFFICES ASSUME IInv, FlushNew PROVE IInv'
  OBVIOUS
<1> USE DEF IInv
<1>a. PICK id : id = mem["id"]
  OBVIOUS
<1>b. PICK row : row = [c \in Columns |-> IF mem[c] # Unloaded THEN mem[c]
                                       ELSE IF c \in ServerDefaults THEN Default ELSE Null]
  OBVIOUS
<1> DEFINE f == IF EagerDefaults THEN [mem EXCEPT !["note"] = row["note"]] ELSE mem
<1> HIDE DEF f
<1>c. PICK fetched : fetched = f
  OBVIOUS
<1>d. PICK changes : changes = CreatedChanges(fetched)
  OBVIOUS
<1>1. /\ status = "pending" /\ key = NoKey /\ ~Attached /\ id \in Ids
      /\ \A k \in Ids : rows[k] = NoRow
      /\ \A k \in Ids : told[k] = NoRow
      /\ \A c \in Columns : old[c] = Unset
  <2>1. status = "pending" /\ ~Attached
    BY DEF FlushNew, Attached
  <2>2. key = NoKey /\ id \in Ids /\ \A k \in Ids : rows[k] = NoRow
    BY <1>a, <2>1 DEF OneRow, TypeOK
  <2>3. \A k \in Ids : told[k] = NoRow
    BY <2>2 DEF EntriesReplay, Agrees
  <2> QED BY <2>1, <2>2, <2>3 DEF MemoryOfRow
<1>2. /\ rows' = [rows EXCEPT ![id] = row] /\ mem' = fetched
      /\ status' = "persistent" /\ key' = id
      /\ Record(EntryOf("created", changes, fetched, row))
  BY <1>a, <1>b, <1>c, <1>d DEF FlushNew, f
<1>3. /\ row \in Row /\ row["id"] = id
      /\ fetched \in [Columns -> Values \cup {Unloaded}] /\ fetched["id"] = id
      /\ \A c \in Columns : fetched[c] \in {Unloaded, row[c]}
      /\ fetched["owner"] = mem["owner"]
      /\ row["owner"] = IF mem["owner"] # Unloaded THEN mem["owner"] ELSE Null
  <2>1. mem \in [Columns -> Values \cup {Unloaded}] /\ {Null, Default} \subseteq Values
    BY DEF TypeOK, Values
  <2>2. /\ row \in Row /\ row["id"] = id
        /\ row["owner"] = IF mem["owner"] # Unloaded THEN mem["owner"] ELSE Null
        /\ \A c \in Columns : mem[c] \in {Unloaded, row[c]}
    <3>1. \A c \in Columns : row[c] = IF mem[c] # Unloaded THEN mem[c]
                                      ELSE IF c \in ServerDefaults THEN Default ELSE Null
      BY <1>b
    <3>2. row \in Row
      BY <1>b, <2>1 DEF Row
    <3>3. mem["id"] # Unloaded
      BY <1>1, <1>a DEF Values
    <3>4. row["id"] = id
      BY <1>a, <3>1, <3>3 DEF Columns
    <3>5. row["owner"] = IF mem["owner"] # Unloaded THEN mem["owner"] ELSE Null
      BY <3>1 DEF Columns, ServerDefaults
    <3>6. \A c \in Columns : mem[c] \in {Unloaded, row[c]}
      BY <3>1
    <3> QED BY <3>2, <3>4, <3>5, <3>6
  <2>3. /\ fetched \in [Columns -> Values \cup {Unloaded}]
        /\ fetched["id"] = mem["id"] /\ fetched["owner"] = mem["owner"]
        /\ \A c \in Columns : fetched[c] \in {mem[c], row[c]}
    <3>1. CASE EagerDefaults
      <4>1. fetched = [mem EXCEPT !["note"] = row["note"]]
        BY <1>c, <3>1 DEF f
      <4>2. row["note"] \in Values
        BY <2>2 DEF Row, Columns
      <4> QED BY <2>1, <4>1, <4>2 DEF Columns
    <3>2. CASE ~EagerDefaults
      BY <1>c, <2>1, <3>2 DEF f
    <3> QED BY <3>1, <3>2
  <2>4. \A c \in Columns : fetched[c] \in {Unloaded, row[c]}
    BY <2>2, <2>3
  <2> QED BY <1>a, <2>2, <2>3, <2>4
<1> DEFINE said == [c \in Columns |-> changes[c][2]]
<1>4. told' = [told EXCEPT ![id] = said]
  <2>1. ObjectId(key) = id
    BY <1>1, <1>a DEF ObjectId
  <2>2. told' = Replay(told, EntryOf("created", changes, fetched, row))
    BY <1>2, Recorded
  <2> QED BY <2>1, <2>2 DEF Replay, EntryOf
<1>5. said \in ToldRow /\ said["id"] = id /\ \A c \in Columns : said[c] \in {Unknown, row[c]}
  <2>1. \A c \in Columns : said[c] = IF fetched[c] = Unloaded /\ c \notin ServerDefaults
                                     THEN Null ELSE Render(fetched[c])
    BY <1>d DEF CreatedChanges
  <2>2. \A c \in Columns : fetched[c] = Unloaded /\ c \notin ServerDefaults => row[c] = Null
    BY <1>1, <1>3 DEF Columns, ServerDefaults, Values
  <2>3. \A c \in Columns : said[c] \in {Unknown, row[c]}
    BY <1>3, <2>1, <2>2 DEF Render
  <2>4. said["id"] = id
    BY <1>1, <1>3, <2>1 DEF Render, Columns, Values
  <2> QED BY <1>3, <2>3, <2>4 DEF Row, ToldRow
<1> HIDE DEF said
<1>6. old' = NoOld /\ UNCHANGED <<start, startKey>>
  BY <1>2, Recorded
<1>7. TypeOK'
  <2>1. rows' \in [Ids -> Row \cup {NoRow}] /\ told' \in [Ids -> ToldRow \cup {NoRow}]
    BY <1>2, <1>3, <1>4, <1>5 DEF TypeOK
  <2>2. \A k \in Ids : KeyOf(rows', k) /\ KeyOf(told', k)
    BY <1>1, <1>2, <1>3, <1>4, <1>5 DEF TypeOK, KeyOf
  <2>3. old' \in [Columns -> Values \cup {Unset}]
    BY <1>6 DEF NoOld
  <2> QED BY <1>1, <1>2, <1>3, <1>6, <2>1, <2>2, <2>3 DEF TypeOK, KeyOf
<1>8. row # NoRow /\ said # NoRow
  BY <1>3, <1>5 DEF Row, ToldRow
<1>9. OneRow'
  BY <1>1, <1>2, <1>6, <1>8 DEF OneRow, Attached, TypeOK
<1>10. MemoryOfRow'
  <2>1. \A c \in Columns : old'[c] = Unset
    BY <1>6 DEF NoOld
  <2>2. rows'[key'] = row
    BY <1>1, <1>2 DEF TypeOK
  <2> QED BY <1>2, <1>3, <2>1, <2>2 DEF MemoryOfRow
<1>11. Replayed'
  BY <1>1, <1>2, <1>4, <1>5, <1>8 DEF Replayed, Agrees, TypeOK
<1>12. Fits(entry', entry'.was)
  <2>1. entry'.verb = "created" /\ entry'.was = told[id]
    BY <1>1, <1>2, <1>a, Recorded DEF ObjectId
  <2> QED BY <1>1, <2>1 DEF Fits
<1>13. Scoped(entry')
  <2>1. entry'.scope = ScopeOf(fetched, key) /\ entry'.row = row
    BY <1>2, Recorded
  <2> QED BY <1>1, <1>3, <2>1 DEF Scoped, ScopeOf, UnsetIsNull, ServerDefaults
<1> QED BY <1>7, <1>9, <1>10, <1>11, <1>12, <1>13, FlushStep

\* Of an attached instance, a row was told, and nothing wrong of it.
LEMMA ToldOfRow ==
  ASSUME IInv, Attached
  PROVE  /\ key \in Ids /\ rows[key] \in Row /\ rows[key]["id"] = key
         /\ told[key] \in ToldRow /\ told[key]["id"] = key
         /\ told[key] # NoRow
         /\ \A c \in Columns : told[key][c] \in {Unknown, rows[key][c]}
         /\ \A k \in Ids \ {key} : rows[k] = NoRow /\ told[k] = NoRow
<1>1. /\ key \in Ids /\ rows[key] \in Row /\ rows[key]["id"] = key
      /\ \A k \in Ids : rows[k] # NoRow <=> k = key
  BY DEF IInv, TypeOK, OneRow, KeyOf
<1>2. \A k \in Ids : Agrees(told[k], rows[k])
  BY DEF IInv, EntriesReplay
<1>3. /\ told[key] # NoRow
      /\ \A c \in Columns : told[key][c] \in {Unknown, rows[key][c]}
  BY <1>1, <1>2 DEF Agrees
<1>4. \A k \in Ids \ {key} : rows[k] = NoRow /\ told[k] = NoRow
  BY <1>1, <1>2 DEF Agrees
<1>5. told[key] \in ToldRow /\ told[key]["id"] = key
  BY <1>1, <1>3 DEF IInv, TypeOK, KeyOf
<1> QED BY <1>1, <1>3, <1>4, <1>5

LEMMA FlushChangedStep == IInv /\ FlushChanged => IInv'
<1> SUFFICES ASSUME IInv, FlushChanged PROVE IInv'
  OBVIOUS
<1>a. PICK row : row = [c \in Columns |-> IF c \in Changed THEN mem[c] ELSE rows[key][c]]
  OBVIOUS
<1>b. PICK changes : changes = [c \in Changed |-> <<Render(old[c]), mem[c]>>]
  OBVIOUS
<1>c. PICK m : m = mem
  OBVIOUS
<1>1. /\ status = "persistent" /\ Attached /\ status' = status /\ mem' = mem
      /\ "id" \in Changed => rows[mem["id"]] = NoRow
      /\ rows' = [k \in Ids |-> IF k = row["id"] THEN row
                                ELSE IF k = key THEN NoRow ELSE rows[k]]
      /\ key' = row["id"]
      /\ Record(EntryOf("updated", changes, m, row))
  BY <1>a, <1>b, <1>c DEF FlushChanged, Attached
<1>2. /\ key \in Ids /\ rows[key] \in Row /\ rows[key]["id"] = key
      /\ told[key] \in ToldRow /\ told[key]["id"] = key
      /\ told[key] # NoRow
      /\ \A c \in Columns : told[key][c] \in {Unknown, rows[key][c]}
      /\ \A k \in Ids \ {key} : rows[k] = NoRow /\ told[k] = NoRow
  BY <1>1, ToldOfRow
<1>3. \A c \in Changed : /\ c \in Columns /\ mem[c] \in Values
                          /\ old[c] \in Values /\ old[c] = rows[key][c]
  BY DEF Changed, IInv, MemoryOfRow, TypeOK
<1>4. \A c \in Columns : mem[c] \in {Unloaded, row[c]}
  <2>1. ASSUME NEW c \in Columns, c \notin Changed
        PROVE  mem[c] \in {Unloaded, rows[key][c]}
    BY <1>1, <2>1 DEF Changed, IInv, MemoryOfRow
  <2> QED BY <1>a, <2>1
<1>5. row \in Row /\ row["id"] \in Ids
  <2>1. row \in Row
    BY <1>a, <1>2, <1>3 DEF Row
  <2>2. "id" \in Changed => mem["id"] \in Ids
    BY <1>3 DEF IInv, TypeOK, Values
  <2> QED BY <1>2, <1>a, <2>1, <2>2 DEF Columns
<1>6. PICK said : said = [c \in Columns |-> IF c \in Changed THEN mem[c] ELSE told[key][c]]
  OBVIOUS
<1>7. /\ said \in ToldRow /\ said["id"] = row["id"]
      /\ \A c \in Columns : said[c] \in {Unknown, row[c]}
  <2>1. \A c \in Columns : said[c] \in {Unknown, row[c]}
    BY <1>a, <1>2, <1>6
  <2>2. said["id"] = row["id"]
    BY <1>a, <1>2, <1>6 DEF Columns
  <2>3. said \in ToldRow
    BY <1>2, <1>3, <1>6 DEF ToldRow
  <2> QED BY <2>1, <2>2, <2>3
<1>8. told' = [k \in Ids |-> IF k = row["id"] THEN said ELSE IF k = key THEN NoRow ELSE told[k]]
  <2>1. ObjectId(key) = key
    BY <1>2 DEF ObjectId
  <2>2. told' = Replay(told, EntryOf("updated", changes, m, row))
    BY <1>1, Recorded
  <2>3. PICK e : e = EntryOf("updated", changes, m, row)
    OBVIOUS
  <2>4. e.verb = "updated" /\ e.id = key /\ e.changes = changes
    BY <2>1, <2>3 DEF EntryOf
  <2>5. /\ DOMAIN changes = Changed /\ \A c \in Changed : changes[c][2] = mem[c]
    BY <1>b
  <2>6. said = [c \in Columns |-> IF c \in DOMAIN e.changes THEN e.changes[c][2]
                                  ELSE told[e.id][c]]
    BY <1>6, <2>4, <2>5
  <2>7. Replay(told, e) = [k \in Ids |-> IF k = said["id"] THEN said
                                        ELSE IF k = e.id THEN NoRow ELSE told[k]]
    BY <1>2, <2>4, <2>6 DEF Replay
  <2> QED BY <1>7, <2>2, <2>3, <2>4, <2>7
<1>9. old' = NoOld /\ UNCHANGED <<start, startKey>>
  BY <1>1, Recorded
<1>10. row # NoRow /\ said # NoRow
  BY <1>5, <1>7 DEF Row, ToldRow
<1>11. TypeOK'
  <2>1. /\ rows' \in [Ids -> Row \cup {NoRow}] /\ told' \in [Ids -> ToldRow \cup {NoRow}]
    BY <1>1, <1>5, <1>7, <1>8 DEF IInv, TypeOK
  <2>2. \A k \in Ids : KeyOf(rows', k) /\ KeyOf(told', k)
    BY <1>1, <1>2, <1>7, <1>8 DEF KeyOf
  <2>3. old' \in [Columns -> Values \cup {Unset}]
    BY <1>9 DEF NoOld
  <2> QED BY <1>1, <1>5, <1>9, <2>1, <2>2, <2>3 DEF IInv, TypeOK, KeyOf
<1>12. OneRow'
  BY <1>1, <1>2, <1>5, <1>9, <1>10 DEF IInv, OneRow, Attached
<1>13. MemoryOfRow'
  <2>1. \A c \in Columns : old'[c] = Unset
    BY <1>9 DEF NoOld
  <2>2. rows'[key'] = row
    BY <1>1, <1>5
  <2> QED BY <1>1, <1>4, <2>1, <2>2 DEF MemoryOfRow
<1>14. Replayed'
  BY <1>1, <1>2, <1>7, <1>8, <1>10 DEF Replayed, Agrees
<1>15. Fits(entry', entry'.was)
  <2>1. /\ entry'.verb = "updated" /\ entry'.was = told[key] /\ entry'.changes = changes
    BY <1>1, <1>2, Recorded DEF ObjectId
  <2>2. \A c \in DOMAIN changes : c \in Changed /\ changes[c][1] = old[c]
    BY <1>b, <1>3 DEF Render
  <2>3. \A c \in DOMAIN changes : /\ changes[c][1] = rows[key][c]
                                  /\ changes[c][1] # Unknown /\ c \in Columns
    BY <1>3, <2>2
  <2> QED BY <1>2, <2>1, <2>3 DEF Fits
<1>16. Scoped(entry')
  <2>1. /\ entry'.scope = ScopeOf(m, key) /\ entry'.row = row
        /\ entry'.read = (m["owner"] # Unloaded) /\ entry'.verb = "updated"
    BY <1>1, Recorded
  <2>2. key # NoKey
    BY <1>2
  <2>3. m["owner"] \in {Unloaded, row["owner"]}
    BY <1>4, <1>c DEF Columns
  <2>4. ScopeOf(m, key) = IF m["owner"] # Unloaded THEN m["owner"] ELSE ContextScope
    BY <2>2 DEF ScopeOf, UnsetIsNull
  <2>5. CASE m["owner"] = Unloaded
    <3>1. entry'.scope = ContextScope /\ ~entry'.read
      BY <2>1, <2>4, <2>5
    <3> QED BY <2>1, <3>1 DEF Scoped
  <2>6. CASE m["owner"] # Unloaded
    BY <2>1, <2>3, <2>4, <2>6 DEF Scoped
  <2> QED BY <2>5, <2>6
<1> QED BY <1>11, <1>12, <1>13, <1>14, <1>15, <1>16, FlushStep

LEMMA FlushDeletedStep == IInv /\ FlushDeleted => IInv'
<1> SUFFICES ASSUME IInv, FlushDeleted PROVE IInv'
  OBVIOUS
<1>0. PICK m : m = IF mem["id"] = Unloaded THEN LoadedMem ELSE mem
  OBVIOUS
<1>a. PICK changes : changes = [c \in Columns |-> <<Render(m[c]), Null>>]
  OBVIOUS
<1>b. PICK row : row = rows[key]
  OBVIOUS
<1>1. /\ Attached /\ status' = "gone" /\ ~Attached' /\ key' = key /\ mem' = m
      /\ rows' = [rows EXCEPT ![key] = NoRow]
      /\ Record(EntryOf("deleted", changes, m, row))
  BY <1>0, <1>a, <1>b DEF FlushDeleted, Attached
<1>2. /\ key \in Ids /\ rows[key] \in Row /\ rows[key]["id"] = key
      /\ told[key] \in ToldRow /\ told[key]["id"] = key
      /\ told[key] # NoRow
      /\ \A c \in Columns : told[key][c] \in {Unknown, rows[key][c]}
      /\ \A k \in Ids \ {key} : rows[k] = NoRow /\ told[k] = NoRow
  BY <1>1, ToldOfRow
<1>3. /\ m \in [Columns -> Values \cup {Unloaded}] /\ m["id"] \in Ids \cup {Unloaded}
      /\ \A c \in Columns : old[c] = Unset => m[c] \in {Unloaded, rows[key][c]}
  <2>1. CASE mem["id"] = Unloaded
    <3>1. LoadedMem["id"] \in Ids
      BY <1>2, <2>1 DEF LoadedMem, Columns
    <3> QED BY <1>0, <1>1, <2>1, <3>1, Loaded DEF Row, IInv
  <2>2. CASE mem["id"] # Unloaded
    BY <1>0, <1>1, <2>2 DEF IInv, TypeOK, MemoryOfRow
  <2> QED BY <2>1, <2>2
<1>4. told' = [told EXCEPT ![key] = NoRow]
  <2>1. ObjectId(key) = key
    BY <1>2 DEF ObjectId
  <2>2. told' = Replay(told, EntryOf("deleted", changes, m, row))
    BY <1>1, Recorded
  <2> QED BY <2>1, <2>2 DEF Replay, EntryOf
<1>5. old' = NoOld /\ UNCHANGED <<start, startKey>>
  BY <1>1, Recorded
<1>6. TypeOK'
  <2>1. /\ rows' \in [Ids -> Row \cup {NoRow}] /\ told' \in [Ids -> ToldRow \cup {NoRow}]
    BY <1>1, <1>4 DEF IInv, TypeOK
  <2>2. \A k \in Ids : KeyOf(rows', k) /\ KeyOf(told', k)
    BY <1>1, <1>2, <1>4 DEF IInv, TypeOK, KeyOf
  <2>3. old' \in [Columns -> Values \cup {Unset}]
    BY <1>5 DEF NoOld
  <2> QED BY <1>1, <1>3, <1>5, <2>1, <2>2, <2>3 DEF IInv, TypeOK, KeyOf
<1>7. \A k \in Ids : rows'[k] = NoRow /\ told'[k] = NoRow
  BY <1>1, <1>2, <1>4 DEF IInv, TypeOK
<1>8. OneRow'
  BY <1>1, <1>5, <1>7 DEF IInv, OneRow
<1>9. MemoryOfRow'
  BY <1>1, <1>5 DEF MemoryOfRow, NoOld
<1>10. Replayed'
  BY <1>7 DEF Replayed, Agrees
<1>11. Fits(entry', entry'.was)
  <2>1. /\ entry'.verb = "deleted" /\ entry'.was = told[key] /\ entry'.changes = changes
        /\ entry'.assigned = {c \in Columns : old[c] # Unset}
    BY <1>1, <1>2, Recorded DEF ObjectId
  <2>2. ASSUME NEW c \in Columns
        PROVE  \/ changes[c][1] = told[key][c]
               \/ told[key][c] = Unknown /\ changes[c][1] # Unknown
               \/ changes[c][1] = Unknown \/ old[c] # Unset
    <3>1. changes[c][1] = Render(m[c])
      BY <1>a
    <3>2. CASE old[c] = Unset /\ m[c] # Unloaded
      BY <1>2, <1>3, <3>1, <3>2 DEF Render
    <3>3. CASE m[c] = Unloaded
      BY <3>1, <3>3 DEF Render
    <3> QED BY <3>2, <3>3
  <2>3. DOMAIN changes = Columns
    BY <1>a
  <2> QED BY <1>2, <2>1, <2>2, <2>3 DEF Fits
<1>12. Scoped(entry')
  <2>1. /\ entry'.scope = ScopeOf(m, key) /\ entry'.row = row
        /\ entry'.read = (m["owner"] # Unloaded) /\ entry'.verb = "deleted"
        /\ entry'.assigned = {c \in Columns : old[c] # Unset}
    BY <1>1, Recorded
  <2>2. key # NoKey
    BY <1>2
  <2>3. old["owner"] # Unset \/ m["owner"] \in {Unloaded, row["owner"]}
    BY <1>3, <1>b DEF Columns
  <2>4. ScopeOf(m, key) = IF m["owner"] # Unloaded THEN m["owner"] ELSE ContextScope
    BY <2>2 DEF ScopeOf, UnsetIsNull
  <2>5. CASE old["owner"] # Unset
    BY <2>1, <2>5 DEF Scoped, Columns
  <2>6. CASE m["owner"] = Unloaded
    <3>1. entry'.scope = ContextScope /\ ~entry'.read
      BY <2>1, <2>4, <2>6
    <3> QED BY <2>1, <3>1 DEF Scoped
  <2>7. CASE m["owner"] # Unloaded /\ old["owner"] = Unset
    BY <2>1, <2>3, <2>4, <2>7 DEF Scoped
  <2> QED BY <2>5, <2>6, <2>7
<1> QED BY <1>6, <1>8, <1>9, <1>10, <1>11, <1>12, FlushStep

-----------------------------------------------------------------------------
LEMMA InductiveInit == Init => IInv
<1> SUFFICES ASSUME Init PROVE IInv
  OBVIOUS
<1>1. \A c \in Columns : mem[c] = Unloaded /\ old[c] = Unset
  BY DEF Init, Nothing, NoOld
<1>2. TypeOK
  BY DEF Init, TypeOK, KeyOf, Nothing, NoOld, Columns
<1>3. OneRow
  BY DEF Init, OneRow, Attached
<1>4. MemoryOfRow
  BY <1>1 DEF MemoryOfRow
<1>5. EntriesReplay /\ ScopeOfTheRow
  BY DEF Init, EntriesReplay, ScopeOfTheRow, Agrees
<1> QED BY <1>2, <1>3, <1>4, <1>5 DEF IInv

LEMMA InductiveStep == IInv /\ [Next]_vars => IInv'
<1> SUFFICES ASSUME IInv, [Next]_vars PROVE IInv'
  OBVIOUS
<1>1. ASSUME NEW id \in Ids, Assign("id", id) PROVE IInv'
  BY <1>1, AssignStep DEF Columns, Values
<1>2. ASSUME NEW v \in Owners, Assign("owner", v) PROVE IInv'
  BY <1>2, AssignStep DEF Columns, Values
<1>3. ASSUME NEW v \in Notes, Assign("note", v) PROVE IInv'
  BY <1>3, AssignStep DEF Columns, Values
<1>4. ASSUME NEW columns \in {Columns, {"owner"}, {"note"}}, Expire(columns) PROVE IInv'
  BY <1>4, ExpireStep
<1>5. CASE UNCHANGED vars
  BY <1>5 DEF vars, session, IInv, TypeOK, KeyOf, OneRow, MemoryOfRow, Attached,
              EntriesReplay, ScopeOfTheRow, Agrees
<1> QED BY <1>1, <1>2, <1>3, <1>4, <1>5, NewStep, ReadStep, DeleteStep, EndStep,
           FlushNewStep, FlushChangedStep, FlushDeletedStep DEF Next

\* Memory and row, what was told and the last entry fit each other at every step.
THEOREM Inductive == Spec => []IInv
<1>1. Init => IInv
  BY InductiveInit
<1>2. IInv /\ [Next]_vars => IInv'
  BY InductiveStep
<1> QED BY <1>1, <1>2, PTL DEF Spec

\* Whatever was expired, assigned, deleted or rolled back, and over any number
\* of flushes, the entries applied in order give the table.
THEOREM EntriesAddUp == Spec => []EntriesReplay
<1>1. IInv => EntriesReplay
  BY DEF IInv
<1> QED BY <1>1, Inductive, PTL

\* An entry is filed under the tenant of its row.
THEOREM ScopedByTheRow == Spec => []ScopeOfTheRow
<1>1. IInv => ScopeOfTheRow
  BY DEF IInv
<1> QED BY <1>1, Inductive, PTL
================================================================================
