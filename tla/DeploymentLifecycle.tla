----------------------- MODULE DeploymentLifecycle -----------------------
(***************************************************************************)
(* What the domain layer promises of a stored deployment (ARCHITECTURE.md, *)
(* "Status machine"; entity.go and status.go): it is received once, then   *)
(* its status only moves along the transition table, and never out of a    *)
(* terminal status, until another request is given the same identity.      *)
(*                                                                         *)
(* A reader of the collection may miss one status: the executor moves the  *)
(* aggregate in memory, and when the save that follows is lost the next    *)
(* save already holds the status after it.  It never misses two.           *)
(***************************************************************************)
EXTENDS DeploymentStatus

CONSTANT Ids

VARIABLE status

Init == status = [i \in Ids |-> Absent]

Receive(i) ==
  /\ status[i] = Absent
  /\ status' = [status EXCEPT ![i] = "RECEIVED"]

Leads(from, to) ==
  \/ CanTransitionTo(from, to)
  \/ \E unseen \in Status : CanTransitionTo(from, unseen) /\ CanTransitionTo(unseen, to)

Advance(i) ==
  /\ Leads(status[i], status'[i])
  /\ status' = [status EXCEPT ![i] = status'[i]]

\* A second request takes the identity: nothing is promised of it any more.
Reuse(i) == status' = [status EXCEPT ![i] = "reused"]

Next == \E i \in Ids : Receive(i) \/ Advance(i) \/ Reuse(i)

Spec == Init /\ [][Next]_status
===========================================================================
