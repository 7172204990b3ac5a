--------------------------- MODULE MCPartitionsLive ---------------------------
(* Values for the liveness run of Partitions: one client, one process, which  *)
(* keeps severity 10 for a month.                                             *)
EXTENDS Partitions

OneMonth == {[limits |-> [v \in {10} |-> Ticks], transaction |-> None]}
OneSeverity == {[parts |-> {{10}}, byHand |-> {}]}
===============================================================================
