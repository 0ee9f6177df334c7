-------------------------- MODULE ReliableTransfer --------------------------
(***************************************************************************)
(* What the TCP mode of the simulator promises: packets 0 .. Total - 1     *)
(* reach the receiver in order and once each, and each is acknowledged     *)
(* before the next one is received.                                        *)
(***************************************************************************)
EXTENDS Integers

CONSTANT Total

VARIABLES
  received,       \* packets the receiver has, counted
  acknowledged    \* packets the sender knows the receiver has

Init == received = 0 /\ acknowledged = 0

Receive ==
  /\ received = acknowledged
  /\ received < Total
  /\ received' = received + 1
  /\ UNCHANGED acknowledged

Acknowledge ==
  /\ acknowledged < received
  /\ acknowledged' = acknowledged + 1
  /\ UNCHANGED received

(* The user starts over. *)
Restart == received' = 0 /\ acknowledged' = 0

Next == Receive \/ Acknowledge \/ Restart

Spec == Init /\ [][Next]_<<received, acknowledged>>
=============================================================================
