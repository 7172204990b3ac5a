---------------------------- MODULE MCChangeCapture ----------------------------
(* ChangeCapture under two hosts: one that switches capture off and on and    *)
(* expires on commit, and one that does neither.                              *)
EXTENDS ChangeCapture

VARIABLE host   \* "toggling" or "keeping", fixed

Keeping == INSTANCE ChangeCapture WITH MayToggle <- FALSE, ExpireOnCommit <- FALSE

HostInit == Init /\ host \in {"toggling", "keeping"}
HostNext ==
  /\ UNCHANGED host
  /\ \/ host = "toggling" /\ Next
     \/ host = "keeping" /\ Keeping!Next
HostSpec == HostInit /\ [][HostNext]_<<vars, host>>

=============================================================================
