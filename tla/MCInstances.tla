------------------------------ MODULE MCInstances ------------------------------
(* Instances with and without server defaults fetched on INSERT. *)
EXTENDS Instances, TLC

VARIABLE fetches

Late == INSTANCE Instances WITH EagerDefaults <- FALSE

FetchInit == Init /\ fetches \in BOOLEAN
FetchNext ==
  /\ UNCHANGED fetches
  /\ \/ fetches /\ Next
     \/ ~fetches /\ Late!Next
FetchSpec == FetchInit /\ [][FetchNext]_<<vars, fetches>>
================================================================================
