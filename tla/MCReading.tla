------------------------------- MODULE MCReading -------------------------------
(* Reading and Scrub in three settings, one of which a behaviour chooses for  *)
(* good: reading (one scrub beside a reader), scopes (two scrubs restricted   *)
(* to tenants) and atOnce (three scrubs of the same rows).                    *)
EXTENDS Reading, TLC

CONSTANTS c1, c2, c3

VARIABLE setting

Host(actor, scope, object, target, at) ==
  [actor |-> actor, scope |-> scope, object |-> object, target |-> target,
   system |-> FALSE, at |-> at]

\* Requests of two tenants, one without a tenant, one of two actors: a child
\* of the object, an anonymous transaction row, an entry older than since.
Mixed == [actor |-> "ann", entries |-> <<Host("ann", None, "order", None, 2),
                                         Host("ann", "t1", "order", None, 2)>>]
Two == [actor |-> "ann", entries |-> <<Host("bob", "t2", "item", "order", 2),
                                       Host("ann", "t1", "order", None, 2)>>]
Login == [actor |-> None, entries |-> <<Host("ann", "t1", "order", None, 2)>>]
Child == [actor |-> "ann", entries |-> <<Host("ann", "t1", "item", "order", 2)>>]
Old == [actor |-> "ann", entries |-> <<Host("ann", "t2", "order", None, 1)>>]
Bare == [actor |-> "ann", entries |-> <<>>]

OfObject(targets, since, scopes) ==
  [kind |-> "scrub", object |-> "order", targets |-> targets, since |-> since,
   scopes |-> scopes]
OfActor(scopes) == [kind |-> "scrub_actor", actor |-> "ann", scopes |-> scopes]
Unrestricted == {OfObject(TRUE, 0, None), OfActor(None)}
Read == Unrestricted \cup {OfObject(TRUE, 2, {"t2"}), OfActor({"t2"})}
Restrictive == {OfObject(TRUE, 0, {"t1"}), OfObject(FALSE, 2, None), OfActor({"t1"}), OfActor({})}
AnyOperation == Read \cup Restrictive
AnyRequest == {Mixed, Two, Login, Child, Old, Bare}

\* Who may see what: everything, a tenant's entries, orders, nothing.
Restricted(objects, scopes) == [objects |-> objects, scopes |-> scopes]
Readers == {Restricted(None, None), Restricted(None, {"t1"}),
            Restricted({"order"}, None), Restricted({}, None)}
\* The contexts of scrubs: the actor scrubbed or another, in a tenant or none.
By(actor, scope) == [actor |-> actor, scope |-> scope]
People == {By("ann", None), By("ann", "t1"), By("bob", "t1")}
AnyCall == Permutations(Calls)

\* What a setting bounds, of one and the same specification.
Bounds ==
  [reading |-> [calls |-> 1, requests |-> 2, committed |-> {Mixed, Login, Two, Old},
                operations |-> Read, operators |-> {By("bob", "t1")}],
   scopes |-> [calls |-> 2, requests |-> 2, committed |-> {Mixed, Child, Old, Bare},
               operations |-> Restrictive, operators |-> {By("ann", "t1")}],
   atOnce |-> [calls |-> 3, requests |-> 1, committed |-> {Mixed, Child},
               operations |-> Unrestricted, operators |-> {By("ann", None)}]]

Bounded(b) ==
  LET made == {c \in Calls : call[c].at # "idle"} IN
  /\ Cardinality(made) <= b.calls /\ requests <= b.requests
  /\ \A c \in made : call[c].op \in b.operations /\ call[c].by \in b.operators

Commits(q) == log' = log \o RowsOf(Len(log) + 1, q.actor, "kept", q.entries)

SettingInit == ReadingInit /\ setting \in DOMAIN Bounds
SettingNext ==
  /\ UNCHANGED setting /\ ReadingNext /\ Bounded(Bounds[setting])'
  /\ requests' # requests => \E q \in Bounds[setting].committed : Commits(q)
  /\ setting # "reading" => UNCHANGED readingVars
SettingSpec == SettingInit /\ [][SettingNext]_<<allVars, setting>>
================================================================================
