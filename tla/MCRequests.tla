------------------------------ MODULE MCRequests ------------------------------
(* Requests in two settings, one of which a behaviour chooses for good: two   *)
(* requests, of which r1 waits for its thread and r2 does not, and one with   *)
(* two session dependencies.  A setting bounds what happens in it, of one and *)
(* the same specification.                                                    *)
EXTENDS Requests, TLC

CONSTANTS r1, r2, ann, bob, f1, f2

VARIABLE setting

\* Two actors, set in turn, tell more than one where nobody else sets another.
Bounded ==
  CASE setting = "requests" ->
         /\ \A r \in Reqs : f2 \notin Range(request[r].opened)
         /\ request[r2].settings <= 1
         /\ \A w \in Workers : Request(w) = r2 => worker[w].actor # bob
    [] setting = "sessions" ->
         /\ request[r2].phase = "new"
         /\ request[r1].settings <= 1

SettingInit == Init /\ setting \in {"requests", "sessions"}
SettingNext == UNCHANGED setting /\ Next /\ Bounded'
SettingSpec == SettingInit /\ [][SettingNext]_<<vars, setting>>
===============================================================================
