---------------------------- MODULE FileDelivery ----------------------------
(***************************************************************************)
(* What a transfer promises (src/src/send.rs and src/src/recv.rs): blocks  *)
(* of the output file are written, a block whose right content is written  *)
(* is never touched again, the file is hashed once every block is written  *)
(* as a whole, and the sender reports success only if that hash was right. *)
(* It may report failure at any time.                                      *)
(***************************************************************************)
CONSTANT Blocks  \* the blocks of the file

VARIABLES content, \* what each block of the output file holds
          verdict, \* the outcome of the hash check
          outcome  \* what the sender reports

vars == <<content, verdict, outcome>>

Init == /\ content = [b \in Blocks |-> "hole"]
        /\ verdict = "none"
        /\ outcome = "running"

WriteBlock(b) == /\ verdict = "none"
                 /\ content[b] # "good"
                 /\ content' \in {[content EXCEPT ![b] = c] : c \in {"good", "bad", "torn"}}
                 /\ UNCHANGED <<verdict, outcome>>

Verify == /\ verdict = "none"
          /\ \A b \in Blocks : content[b] \in {"good", "bad"}
          /\ verdict' = IF \A b \in Blocks : content[b] = "good"
                        THEN "ok" ELSE "mismatch"
          /\ UNCHANGED <<content, outcome>>

Succeed == /\ outcome = "running"
           /\ verdict = "ok"
           /\ outcome' = "ok"
           /\ UNCHANGED <<content, verdict>>

Fail == /\ outcome = "running"
        /\ outcome' = "failed"
        /\ UNCHANGED <<content, verdict>>

Next == \/ \E b \in Blocks : WriteBlock(b)
        \/ Verify
        \/ Succeed
        \/ Fail

Spec == Init /\ [][Next]_vars

=============================================================================
