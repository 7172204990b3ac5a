----------------------------- MODULE MCSessionAudit -----------------------------
(* SessionAudit under both error policies, each with bounds of its own. *)
EXTENDS SessionAudit, TLC

CONSTANTS c1, c2

Bounded == IF onError = "log" THEN writes <= 2 ELSE begun <= 2
BoundedSpec == Init /\ [][Next /\ Bounded']_vars

ConnsSymmetry == Permutations(Conns)

=============================================================================
