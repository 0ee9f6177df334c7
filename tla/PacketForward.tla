--------------------------- MODULE PacketForward ---------------------------
(***************************************************************************)
(* The packet-forward homework: get_packet_route, which follows a packet   *)
(* from router to router up to a limit of hops, over the Router with a     *)
(* forwarding table (forward.py) and over the SDNRouter with match rules   *)
(* (sdn.py).                                                               *)
(*                                                                         *)
(* A network map holds either kind of router.  A match function accepts a  *)
(* packet by its destination and its destination port.                     *)
(***************************************************************************)
EXTENDS Integers, Sequences, FiniteSets, FiniteSetsExt

CONSTANTS
  Calls,       \* the arguments tried: <<network map, packet>>, a map gives routers by address
  MaxHops,     \* max_hops, 8 unless the caller says otherwise
  Default      \* the key '*' of a forwarding table

(* An action of a rule names one next hop, or none. *)
RouterOK(router) ==
  \/ router.kind = "table"
  \/ /\ router.kind = "rules"
     /\ Len(router.rules) \in Nat
     /\ \A k \in 1..Len(router.rules) : \A x, y \in router.rules[k].value : x = y

ASSUME PacketForwardAssumption ==
  /\ MaxHops \in Nat \ {0}
  /\ \A c \in Calls : \A a \in DOMAIN c[1] : RouterOK(c[1][a])
  /\ \A c \in Calls : {"src", "dst", "src_port", "dst_port"} \subseteq DOMAIN c[2]

VARIABLES
  network_map, packet,   \* the arguments
  hops,                  \* the route so far
  i,                     \* the counter of the loop
  outcome                \* "routing", then how the call ended

vars == <<network_map, packet, hops, i, outcome>>

Dropped == "x (dropped)"

current_hop == hops[Len(hops)]

-----------------------------------------------------------------------------
(* The two classes of routers *)

TableRouter(table) == [kind |-> "table", table |-> table]
SDNRouter(rules) == [kind |-> "rules", rules |-> rules]
ForwardTo(dsts, ports, next) == [dst |-> dsts, dst_port |-> ports, type |-> "forward", value |-> {next}]
DropThese(dsts, ports) == [dst |-> dsts, dst_port |-> ports, type |-> "drop", value |-> {}]

(* Router.forward: the next hop, or none where it raises KeyError. *)
TableHop(table, dst) ==
  IF dst \in DOMAIN table THEN {table[dst]} ELSE {table[d] : d \in DOMAIN table \intersect {Default}}

Hits(rules, p) ==
  {k \in 1..Len(rules) : p.dst \in rules[k].dst /\ p.dst_port \in rules[k].dst_port}

\* Mutant: a later rule overrides an earlier one.
LastRule(hits) == Max(hits)

FirstRule(hits) == Min(hits)

(* SDNRouter.forward: the next hop, or none where it returns 'drop'. *)
RulesHop(rules, p) ==
  IF Hits(rules, p) = {} THEN {} ELSE rules[FirstRule(Hits(rules, p))].value

NextHops(router, p) ==
  IF router.kind = "table" THEN TableHop(router.table, p.dst) ELSE RulesHop(router.rules, p)

-----------------------------------------------------------------------------
(* One pass of the loop of get_packet_route *)

\* Mutants: the limit is put where range() ends; it is one lower.
LimitReachedLate == i = MaxHops
LimitReachedEarly == i = MaxHops - 2

LimitReached == i = MaxHops - 1

DropAtLimit ==
  /\ LimitReached
  /\ hops' = Append(hops, Dropped)
  /\ outcome' = "limit"

Arrive ==
  /\ ~LimitReached
  /\ current_hop = packet.dst
  /\ outcome' = "arrived"
  /\ UNCHANGED hops

Lookup == ~LimitReached /\ current_hop # packet.dst

(* No such router, or no route there. *)
RaiseKeyError ==
  /\ Lookup
  /\ \/ current_hop \notin DOMAIN network_map
     \/ /\ current_hop \in DOMAIN network_map
        /\ network_map[current_hop].kind = "table"
        /\ NextHops(network_map[current_hop], packet) = {}
  /\ outcome' = "KeyError"
  /\ UNCHANGED hops

DropByRule ==
  /\ Lookup
  /\ current_hop \in DOMAIN network_map
  /\ network_map[current_hop].kind = "rules"
  /\ NextHops(network_map[current_hop], packet) = {}
  /\ hops' = Append(hops, Dropped)
  /\ outcome' = "rule"

Hop ==
  /\ Lookup
  /\ current_hop \in DOMAIN network_map
  /\ \E next \in NextHops(network_map[current_hop], packet) : hops' = Append(hops, next)
  /\ UNCHANGED outcome

Init ==
  /\ \E call \in Calls : network_map = call[1] /\ packet = call[2]
  /\ hops = <<packet.src>>
  /\ i = 0
  /\ outcome = "routing"

Next ==
  /\ outcome = "routing"
  /\ i < MaxHops
  /\ DropAtLimit \/ Arrive \/ RaiseKeyError \/ DropByRule \/ Hop
  /\ i' = i + 1
  /\ UNCHANGED <<network_map, packet>>

Spec == Init /\ [][Next]_vars

FairSpec == Spec /\ WF_vars(Next)

-----------------------------------------------------------------------------
(* Properties *)

TypeOK ==
  /\ i \in 0..MaxHops
  /\ outcome \in {"routing", "limit", "arrived", "KeyError", "rule"}
  /\ outcome = "routing" => i < MaxHops /\ Len(hops) = i + 1
  /\ outcome = "limit" => i = MaxHops /\ Len(hops) = MaxHops + 1

(* The addresses the packet can come to by the tables and rules alone. *)
Reachable ==
  LET From(a) == IF a \in DOMAIN network_map \ {packet.dst} THEN NextHops(network_map[a], packet) ELSE {}
      within[n \in Nat] ==
        IF n = 0 THEN {packet.src}
        ELSE within[n - 1] \union UNION {From(a) : a \in within[n - 1]}
  IN  within[Cardinality(DOMAIN network_map)]

(* The condition under which the limit is right: the routers other than   *)
(* the destination are no more than a packet is forwarded by before the    *)
(* limit takes it.  It is tested on pass max_hops - 1 and before the       *)
(* destination (forward.py:20-24), so max_hops - 2 may forward.            *)
RoomForAll ==
  /\ IsFiniteSet(DOMAIN network_map)
  /\ Cardinality(DOMAIN network_map \ {packet.dst}) < MaxHops - 1

(* If the limit has room for all routers, a packet arrives exactly if the  *)
(* tables lead to its destination: the limit, which is tested first, takes *)
(* no packet that has arrived or would (forward.py:16-31).                 *)
ArrivesIffReachable ==
  RoomForAll /\ outcome # "routing" => (outcome = "arrived" <=> packet.dst \in Reachable)

(* `if we have too many hops, we have a loop (drop packet)'                *)
(* (forward.py:19), as it stands: a packet dropped at the limit was at a   *)
(* router twice.                                                           *)
TooManyHopsMeanLoop ==
  outcome = "limit" => \E j, k \in 1..(Len(hops) - 1) : j < k /\ hops[j] = hops[k]

(* The same where the limit has room for all routers (forward.py:19-22).   *)
LimitMeansLoop == RoomForAll => TooManyHopsMeanLoop

(* The counter of the loop never runs out before the fate of the packet is *)
(* decided, although default routes may lead round in circles: every call  *)
(* tells an arrival from a drop (forward.py:16-22).                        *)
FateDecided == <>(outcome # "routing")
=============================================================================
