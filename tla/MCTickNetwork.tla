--------------------------- MODULE MCTickNetwork ---------------------------
(***************************************************************************)
(* A network for TickNetwork: a ring of three routers with links of unlike *)
(* delays, whose tables go round it the same way and lack one entry.       *)
(***************************************************************************)
EXTENDS TickNetwork, TLC

Ring == <<2, 3, 1>>
RingTables == <<(2 :> 2) @@ (3 :> 2), (3 :> 3) @@ (1 :> 3), 1 :> 1>>
RingDelays == <<2 :> 1, 3 :> 0, 1 :> 2>>

(* Two messages between any routers, to a router that does not exist (9)   *)
(* and from one; three that share links of the ring.                       *)
Pairs == ({1, 2, 3} \X {1, 2, 3, 9}) \union {<<9, 1>>}
Crossing == {<<1, 3>>, <<2, 1>>}
TwoOrThree == (UNION {[1..n -> Pairs] : n \in 0..2}) \union [1..3 -> Crossing]
=============================================================================
