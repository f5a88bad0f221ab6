---------------------------- MODULE OnceDelivery ----------------------------
(***************************************************************************)
(* What the sealed symbol plane promises its user (src/src/datagram.rs,    *)
(* TxPlane and RxPlane): datagrams carry increasing numbers; each one that *)
(* was put on the wire reaches the decoder at most once, in any order; and *)
(* one that arrives less than W numbers behind the newest delivered one is *)
(* not refused for its age.  There is no bitmap here, only the set of what *)
(* was delivered.                                                          *)
(***************************************************************************)
EXTENDS Integers

CONSTANTS W,       \* how far behind the newest a datagram may arrive
          MaxSeq   \* bound: sequence numbers stay below it

VARIABLES next,      \* the next number to give out
          onWire,    \* numbers of the datagrams put on the wire
          delivered, \* numbers handed to the decoder
          count      \* how many datagrams were handed to the decoder

vars == <<next, onWire, delivered, count>>

Init == /\ next = 0
        /\ onWire = {}
        /\ delivered = {}
        /\ count = 0

(* Number s is not too old: no delivered number is W or more ahead of it. *)
Recent(s) == \A t \in delivered : t - s < W

Send == /\ next < MaxSeq
        /\ next' = next + 1
        /\ onWire' = onWire \cup {next}
        /\ UNCHANGED <<delivered, count>>

(* A number is used up and its datagram never exists. *)
Skip == /\ next < MaxSeq
        /\ next' = next + 1
        /\ UNCHANGED <<onWire, delivered, count>>

Deliver(s) == /\ s \in onWire \ delivered
              /\ Recent(s)
              /\ delivered' = delivered \cup {s}
              /\ count' = count + 1
              /\ UNCHANGED <<next, onWire>>

Next == \/ Send
        \/ Skip
        \/ \E s \in onWire : Deliver(s)

Spec == Init /\ [][Next]_vars

=============================================================================
