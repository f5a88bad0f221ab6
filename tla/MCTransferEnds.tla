--------------------------- MODULE MCTransferEnds ---------------------------
(***************************************************************************)
(* Transfer under fairness: the specification whose liveness TLC checks.   *)
(***************************************************************************)
EXTENDS MCTransfer

(* Transfer when nothing fails. *)
Healthy == INSTANCE Transfer WITH Faults <- {}

(* Something happened that only a fault explains: a side was killed or met *)
(* an I/O error, or the wait for Done timed out.                           *)
Faulted == \/ spc \in {"crashed", "senderr"} \/ rpc \in {"crashed", "ioerror"}
           \/ ioErr
           \/ spc = "nodone" /\ reader = "reading"

(* The sender's main task is scheduled, but a timeout has to fire only     *)
(* after a failure: no success may depend on one.                          *)
FairSpec ==
  /\ Spec
  /\ Fairness
  /\ WF_vars(Healthy!SenderNext \/ (Faulted /\ WaitGivesUp))

(* With finitely many losses and no failure, both sides end with success. *)
Completes == <>(Faulted \/ (spc = "ok" /\ rpc = "ok"))

=============================================================================
