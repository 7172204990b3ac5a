----------------------------- MODULE MCPartitions -----------------------------
(* Partitions in four settings, one of which a behaviour chooses for good:    *)
(* retention (one process, a retention changed between two calls), twins (two *)
(* processes at once), custom (partitions the host made itself) and durable   *)
(* (two threads that call log(durable=True)).                                 *)
EXTENDS Partitions, TLC

CONSTANTS c1, c2, c3, k1, k2, k3

VARIABLE setting

\* Each pair of equal clients or processes belongs to one setting alone.
AnyActor == Permutations({c2, c3}) \cup Permutations({k2, k3})

Policy(a, b, transaction) ==
  [limits |-> [v \in {10, 20} |-> IF v = 10 THEN a ELSE b], transaction |-> transaction]
Differing == {Policy(1, 2, 3)}
Changing == {Policy(1, None, None), Policy(2, 1, None)}
Wide == {Policy(2, 4, 6)}
AllPolicies == Differing \cup Changing \cup Wide

\* Severity 30 has a plain table.
AllSeverities == {10, 20, 30}
PlainParts == {{30}}

Layout(parts_, byHand) == [parts |-> parts_, byHand |-> byHand]
Separate == Layout({{10}, {20}, {30}}, {})
\* Severity 20 is unknown to the database.
OnlyFirst == Layout({{10}, {30}}, {})
\* Partitions of two months and up to MAXVALUE.
Spread == Layout({{10, 20}, {30}},
  {Child(Transaction, 0, 0, "hand"), Child(Transaction, 3, Unbounded, "hand"),
   Child(Part({10, 20}), 0, 1, "hand"), Child(Part({10, 20}), 2, Unbounded, "hand")})
AllLayouts == {Separate, OnlyFirst, Spread}

\* What a setting bounds, of one and the same specification.
Bounds ==
  [retention |-> [layout |-> Separate, policies |-> Changing, keepers |-> {k1}, time |-> 5,
                  sessions |-> {c1}, threads |-> {}, faults |-> 1],
   twins |-> [layout |-> OnlyFirst, policies |-> Differing, keepers |-> {k2, k3}, time |-> 4,
              sessions |-> {c1}, threads |-> {}, faults |-> 1],
   custom |-> [layout |-> Spread, policies |-> Wide, keepers |-> {k1}, time |-> 9,
               sessions |-> {}, threads |-> {}, faults |-> 0],
   durable |-> [layout |-> OnlyFirst, policies |-> {}, keepers |-> {k1}, time |-> 2,
                sessions |-> {}, threads |-> {c2, c3}, faults |-> 1]]

Bounded(b) ==
  /\ clock <= b.time /\ faults <= b.faults
  /\ \A k \in Keepers : job[k] # NoJob => k \in b.keepers
  /\ \A k \in Keepers : job[k].op = "drop" => job[k].policy \in b.policies
  /\ \A c \in Clients : opens[c] > 0 => c \in b.sessions
  /\ \A c \in Clients : calls[c] > 0 => c \in b.threads

SettingInit ==
  /\ Init /\ setting \in DOMAIN Bounds
  /\ LET layout == Bounds[setting].layout IN parts = layout.parts /\ live = layout.byHand
SettingNext == UNCHANGED setting /\ Next /\ Bounded(Bounds[setting])'
SettingSpec == SettingInit /\ [][SettingNext]_<<vars, setting>>
===============================================================================
