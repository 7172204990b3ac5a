------------------------------ MODULE MCEntityLog ------------------------------
(* EntityLog in three settings, one of which a behaviour chooses for good: an  *)
(* object with a long history, an object written by two actors, or two objects *)
(* in two scopes of which one may be deleted and re-added in one flush.        *)
EXTENDS EntityLog

CONSTANTS o1, o2, a1, a2, t1, t2

VARIABLE about

\* What a setting bounds, of one and the same specification.
Bounds ==
  [long |-> [objects |-> {o1}, authors |-> [actor : {a1}, scope : {t1}],
             secrets |-> {"null", "x"}, switches |-> 0, flushes |-> 4],
   actors |-> [objects |-> {o1}, authors |-> {[actor |-> a1, scope |-> t1], [actor |-> a2, scope |-> t2]},
               secrets |-> {"x"}, switches |-> 0, flushes |-> 3],
   objects |-> [objects |-> {o1, o2}, authors |-> [actor : {a1}, scope : {t1, t2}],
                secrets |-> {"x"}, switches |-> 1, flushes |-> 3]]
Unborn == [exists |-> FALSE, col |-> "a", secret |-> "x", rel |-> {}]

\* The two values are alike, so that o1 may as well start with "a".
Within(b) ==
  /\ flushes <= b.flushes /\ Cardinality(switched) <= b.switches
  /\ \A o \in Objects : object[o].secret \in b.secrets
  /\ before[o1].col = "a" /\ before[o2] = Unborn
  /\ \A o \in Objects \ b.objects : object[o] = Unborn
  /\ \A i \in DOMAIN log : [actor |-> log[i].actor, scope |-> log[i].scope] \in b.authors

SettingInit == about \in DOMAIN Bounds /\ Init /\ Within(Bounds[about])
SettingNext == UNCHANGED about /\ Next /\ Within(Bounds[about])'
SettingSpec == SettingInit /\ [][SettingNext]_<<vars, about>>

=============================================================================
