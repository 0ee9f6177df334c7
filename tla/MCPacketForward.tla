-------------------------- MODULE MCPacketForward --------------------------
(***************************************************************************)
(* Networks and packets for PacketForward: all small networks of table     *)
(* routers, those of four routers with a default route only, and the       *)
(* network of sdn.py.                                                      *)
(***************************************************************************)
EXTENDS PacketForward, TLC

Packet(src, dst, src_port, dst_port) ==
  [src |-> src, dst |-> dst, src_port |-> src_port, dst_port |-> dst_port]

(* Three addresses; each router has, or lacks, a default route and an      *)
(* entry for the address "0", and may be missing itself.                   *)
Addresses == {"0", "1", "2"}
Tables == UNION {[keys -> Addresses] : keys \in SUBSET {"0", Default}}
SmallNetworks ==
  UNION {[routers -> {TableRouter(t) : t \in Tables}] : routers \in SUBSET Addresses}
SmallPackets == {Packet(s, d, "a", "b") : s \in Addresses, d \in {"0", "1"}}

(* Four routers that know a default route only: all rows, trees and rings. *)
(* With a limit of 4 the networks of three routers have room for all, with *)
(* the destination among the four or not; these may have a way too long.   *)
DefaultRoutes == [Addresses \union {"3"} -> {TableRouter(Default :> a) : a \in Addresses \union {"3"}}]
LongPackets == {Packet(s, d, "a", "b") : s \in Addresses \union {"3"}, d \in {"0", "3"}}

(* The network of sdn.py (lines 90-112) and all packets between its        *)
(* addresses and the ports it knows.                                       *)
Ports == {"22", "80", "8080"}
SdnAddresses == {"0000", "0001", "0010", "0011"}
SdnPackets == {Packet(s, d, p, q) : s \in SdnAddresses, d \in SdnAddresses, p \in Ports, q \in Ports}

SdnRules(router) ==
  CASE router = "0000" -> <<ForwardTo(SdnAddresses, {"22"}, "0010"), ForwardTo({"0001"}, Ports, "0011")>>
    [] router = "0001" -> <<ForwardTo(SdnAddresses, {"22"}, "0010"), ForwardTo({"0000"}, Ports, "0011")>>
    [] router = "0010" -> <<ForwardTo({"0000"}, {"22"}, "0000"), ForwardTo({"0001"}, {"22"}, "0001")>>
    [] router = "0011" -> <<DropThese(SdnAddresses, {"80"}), ForwardTo({"0000"}, Ports, "0000"),
                            ForwardTo({"0001"}, Ports, "0001")>>

SdnNetwork == [router \in SdnAddresses |-> SDNRouter(SdnRules(router))]

AllCalls ==
  (SmallNetworks \X SmallPackets) \union (DefaultRoutes \X LongPackets) \union ({SdnNetwork} \X SdnPackets)

(* A row of eight routers, as many as the limit of get_packet_route, and a *)
(* packet from one end to the other.                                       *)
RowAddresses == <<"000", "001", "010", "011", "100", "101", "110", "111">>
NextInRow(a) == CHOOSE b \in {RowAddresses[k + 1] : k \in {j \in 1..7 : RowAddresses[j] = a}} : TRUE
RowOfEight ==
  [a \in {RowAddresses[k] : k \in 1..7} |-> TableRouter(Default :> NextInRow(a))]
    @@ ("111" :> TableRouter(Default :> "111"))
RowCalls == {<<RowOfEight, Packet("000", "111", "a", "b")>>}

(* HTTP requests go no further than the router that blocks them, although  *)
(* its rules for their addresses match as well; SSH never goes through it  *)
(* at all (sdn.py:92-112).                                                 *)
PortRulesGoFirst ==
  \A n \in 1..(Len(hops) - 1) :
    hops[n] = "0011" /\ n > 1 /\ hops[n + 1] # Dropped => packet.dst_port = "8080"
=============================================================================
