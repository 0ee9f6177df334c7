------------------------- MODULE PacketForwardProofs -------------------------
(***************************************************************************)
(* Theorems about PacketForward, for every network, packet and limit, and  *)
(* about the network of sdn.py in MCPacketForward.                         *)
(***************************************************************************)
EXTENDS MCPacketForward, InductionFacts, SequenceTheorems

-----------------------------------------------------------------------------
(* One hop further, by the tables and rules alone. *)

From(a) == IF a \in DOMAIN network_map \ {packet.dst} THEN NextHops(network_map[a], packet) ELSE {}

Deterministic == \A a : \A x, y \in From(a) : x = y

MapOK == \A a \in DOMAIN network_map : RouterOK(network_map[a])

(* The first rule that matches decides: a set of positions has a first.    *)
LEMMA OneNextHop == MapOK => Deterministic
<1> SUFFICES ASSUME MapOK, NEW a, NEW x \in From(a), NEW y \in From(a) PROVE x = y
  BY DEF Deterministic
<1> DEFINE router == network_map[a]
<1>1. a \in DOMAIN network_map /\ x \in NextHops(router, packet) /\ y \in NextHops(router, packet)
  BY DEF From
<1>2. RouterOK(router)
  BY <1>1 DEF MapOK
<1> HIDE DEF router
<1>3. CASE router.kind = "table"
  <2>1. x \in TableHop(router.table, packet.dst) /\ y \in TableHop(router.table, packet.dst)
    BY <1>1, <1>3 DEF NextHops
  <2> QED BY <2>1 DEF TableHop
<1>4. CASE router.kind # "table"
  <2> DEFINE hits == Hits(router.rules, packet)
  <2>1. hits # {} /\ x \in router.rules[FirstRule(hits)].value /\ y \in router.rules[FirstRule(hits)].value
    BY <1>1, <1>4 DEF NextHops, RulesHop
  <2>2. hits \subseteq 1..Len(router.rules) /\ Len(router.rules) \in Nat
    BY <1>2, <1>4 DEF Hits, RouterOK
  <2> HIDE DEF hits
  <2>3. FirstRule(hits) \in hits
    <3>1. hits \in SUBSET Nat
      BY <2>2
    <3>2. \E n \in hits : \A m \in hits : n <= m
      BY <2>1, <3>1, LeastMember
    <3> QED BY <3>2 DEF FirstRule, Min
  <2> QED BY <1>2, <1>4, <2>1, <2>2, <2>3 DEF RouterOK
<1> QED BY <1>3, <1>4

-----------------------------------------------------------------------------
(* The addresses within n hops.  A path of m hops is a function on 0..m.   *)

Hop0 == {packet.src} \union UNION {From(a) : a \in DOMAIN network_map}

Path(p, m, x) == p[0] = packet.src /\ p[m] = x /\ \A k \in 0..(m - 1) : p[k + 1] \in From(p[k])

IsWithin(w) ==
  w = [n \in Nat |-> IF n = 0 THEN {packet.src}
                     ELSE w[n - 1] \union UNION {From(a) : a \in w[n - 1]}]

(* The recursion of Reachable has a solution: the ends of paths.           *)
LEMMA WithinExists == \E w : IsWithin(w)
<1> DEFINE Ends(n) == {x \in Hop0 : \E m \in 0..n : \E p \in [0..m -> Hop0] : Path(p, m, x)}
           w == [n \in Nat |-> Ends(n)]
<1>1. \A a : From(a) \subseteq Hop0
  BY DEF From, Hop0
<1>2. Ends(0) = {packet.src}
  <2>1. \A x \in Ends(0) : x = packet.src
    BY DEF Path
  <2> DEFINE p == [k \in 0..0 |-> packet.src]
  <2>2. packet.src \in Hop0
    BY DEF Hop0
  <2>3. p \in [0..0 -> Hop0] /\ Path(p, 0, packet.src)
    BY <2>2 DEF Path
  <2> QED BY <2>1, <2>2, <2>3
<1>3. ASSUME NEW n \in Nat, n # 0 PROVE Ends(n) = Ends(n - 1) \union UNION {From(a) : a \in Ends(n - 1)}
  <2>1. ASSUME NEW x \in Ends(n), x \notin Ends(n - 1) PROVE \E a \in Ends(n - 1) : x \in From(a)
    <3>0. PICK m \in 0..n : \E p \in [0..m -> Hop0] : Path(p, m, x)
      OBVIOUS
    <3>1. PICK p \in [0..m -> Hop0] : Path(p, m, x)
      BY <3>0
    <3>2. m = n
      BY <1>3, <2>1, <3>1
    <3> DEFINE q == [k \in 0..(n - 1) |-> p[k]]
    <3>3. q \in [0..(n - 1) -> Hop0] /\ Path(q, n - 1, p[n - 1]) /\ p[n - 1] \in Hop0
      BY <1>3, <3>1, <3>2 DEF Path
    <3>4. p[n - 1] \in Ends(n - 1)
      <4>1. n - 1 \in 0..(n - 1)
        BY <1>3
      <4> QED BY <3>3, <4>1
    <3>5. x \in From(p[n - 1])
      <4>1. n - 1 \in 0..(n - 1) /\ (n - 1) + 1 = n
        BY <1>3
      <4> QED BY <3>1, <3>2, <4>1 DEF Path
    <3> QED BY <3>4, <3>5
  <2>2. Ends(n - 1) \subseteq Ends(n)
    <3>1. 0..(n - 1) \subseteq 0..n
      BY <1>3
    <3> QED BY <3>1
  <2>3. ASSUME NEW a \in Ends(n - 1), NEW x \in From(a) PROVE x \in Ends(n)
    <3>0. PICK m \in 0..(n - 1) : \E p \in [0..m -> Hop0] : Path(p, m, a)
      OBVIOUS
    <3>1. PICK p \in [0..m -> Hop0] : Path(p, m, a)
      BY <3>0
    <3> DEFINE q == [k \in 0..(m + 1) |-> IF k <= m THEN p[k] ELSE x]
    <3>2. x \in Hop0 /\ m + 1 \in 0..n
      BY <1>1, <1>3
    <3>3. q \in [0..(m + 1) -> Hop0]
      BY <3>2
    <3>4. q[0] = packet.src /\ q[m + 1] = x
      BY <3>1 DEF Path
    <3>5. ASSUME NEW k \in 0..((m + 1) - 1) PROVE q[k + 1] \in From(q[k])
      <4>1. CASE k = m
        BY <3>1, <4>1 DEF Path
      <4>2. CASE k # m
        BY <3>1, <4>2 DEF Path
      <4> QED BY <4>1, <4>2
    <3>6. Path(q, m + 1, x)
      BY <3>4, <3>5 DEF Path
    <3> QED BY <3>2, <3>3, <3>6
  <2> QED BY <2>1, <2>2, <2>3
<1>4. w = [n \in Nat |-> IF n = 0 THEN {packet.src} ELSE w[n - 1] \union UNION {From(a) : a \in w[n - 1]}]
  <2>1. \A n \in Nat : n # 0 => n - 1 \in Nat
    OBVIOUS
  <2> HIDE DEF Ends
  <2> QED BY <1>2, <1>3, <2>1
<1> QED BY <1>4 DEF IsWithin

LEMMA ReachableIsWithin == \E w : IsWithin(w) /\ Reachable = w[Cardinality(DOMAIN network_map)]
<1> DEFINE within[n \in Nat] ==
             IF n = 0 THEN {packet.src} ELSE within[n - 1] \union UNION {From(a) : a \in within[n - 1]}
<1>1. Reachable = within[Cardinality(DOMAIN network_map)]
  BY Zenon DEF Reachable, From
<1>2. IsWithin(within)
  BY WithinExists, Zenon DEF IsWithin
<1> QED BY <1>1, <1>2

LEMMA WithinSteps ==
  ASSUME NEW w, IsWithin(w)
  PROVE  /\ w[0] = {packet.src}
         /\ \A n \in Nat : w[n + 1] = w[n] \union UNION {From(a) : a \in w[n]}
<1>1. \A n \in Nat : w[n] = IF n = 0 THEN {packet.src}
                            ELSE w[n - 1] \union UNION {From(a) : a \in w[n - 1]}
  BY DEF IsWithin
<1>2. \A n \in Nat : n + 1 \in Nat /\ n + 1 # 0 /\ (n + 1) - 1 = n
  OBVIOUS
<1> QED BY <1>1, <1>2

(* A set that the packet starts in and that is closed under hops holds     *)
(* every address within any number of them.                                *)
LEMMA ClosedHoldsAll ==
  ASSUME NEW w, IsWithin(w), NEW C, packet.src \in C, \A a \in C : From(a) \subseteq C
  PROVE  \A n \in Nat : w[n] \subseteq C
<1> DEFINE T == {n \in Nat : w[n] \subseteq C}
<1>1. 0 \in T
  BY WithinSteps
<1>2. ASSUME NEW n \in Nat, n \in T PROVE n + 1 \in T
  <2>1. w[n + 1] = w[n] \union UNION {From(a) : a \in w[n]} /\ w[n] \subseteq C
    BY <1>2, WithinSteps
  <2> QED BY <2>1
<1>3. Nat \subseteq T
  <2> HIDE DEF T
  <2> QED BY <1>1, <1>2, NatInSet
<1> QED BY <1>3

LEMMA WithinGrows ==
  ASSUME NEW w, IsWithin(w), NEW m \in Nat, NEW n \in Nat, m <= n
  PROVE  w[m] \subseteq w[n]
<1> DEFINE T == {d \in Nat : w[m] \subseteq w[m + d]}
<1>1. 0 \in T
  OBVIOUS
<1>2. ASSUME NEW d \in Nat, d \in T PROVE d + 1 \in T
  <2>1. m + d \in Nat /\ (m + d) + 1 = m + (d + 1) /\ d + 1 \in Nat
    OBVIOUS
  <2>2. w[m + d] \subseteq w[(m + d) + 1]
    BY <2>1, WithinSteps
  <2> QED BY <1>2, <2>1, <2>2
<1>3. n - m \in T
  <2>1. Nat \subseteq T
    <3> HIDE DEF T
    <3> QED BY <1>1, <1>2, NatInSet
  <2> QED BY <2>1
<1> QED BY <1>3

-----------------------------------------------------------------------------
(* The route so far is a walk by the tables and rules.  The walk takes n   *)
(* hops; how many depends on how the call has ended.                       *)

Walk(n) ==
  /\ n \in Nat
  /\ n < Len(hops)
  /\ hops[1] = packet.src
  /\ \A k \in 1..n : hops[k + 1] \in From(hops[k])

Stuck(n) == hops[n + 1] # packet.dst /\ From(hops[n + 1]) = {}

RouteInv ==
  /\ MapOK
  /\ i \in 0..MaxHops /\ \E S : hops \in Seq(S)
  /\ \/ outcome = "routing" /\ i < MaxHops /\ Len(hops) = i + 1 /\ Walk(i)
     \/ outcome = "limit" /\ i = MaxHops /\ Len(hops) = MaxHops + 1 /\ Walk(MaxHops - 1)
     \/ outcome = "arrived" /\ i > 0 /\ Walk(i - 1) /\ hops[i] = packet.dst
     \/ outcome \in {"KeyError", "rule"} /\ i > 0 /\ Walk(i - 1) /\ Stuck(i - 1)

LEMMA InitRoute == Init => RouteInv
<1> SUFFICES ASSUME Init PROVE RouteInv
  OBVIOUS
<1>1. MapOK
  BY PacketForwardAssumption DEF Init, MapOK
<1>2. i = 0 /\ hops = <<packet.src>> /\ outcome = "routing" /\ MaxHops \in Nat \ {0}
  BY PacketForwardAssumption DEF Init
<1>3. hops \in Seq({packet.src}) /\ Len(hops) = 1 /\ hops[1] = packet.src
  BY <1>2
<1>4. Walk(0)
  BY <1>3 DEF Walk
<1>5. i \in 0..MaxHops /\ i < MaxHops /\ Len(hops) = i + 1 /\ Walk(i)
  BY <1>2, <1>3, <1>4
<1>6. \E S : hops \in Seq(S)
  BY <1>3
<1> QED BY <1>1, <1>2, <1>5, <1>6 DEF RouteInv

(* A walk stays one when the route grows.                                  *)
LEMMA WalkKept ==
  ASSUME NEW n, Walk(n), NEW S, hops \in Seq(S), NEW x, hops' = Append(hops, x) \/ hops' = hops,
         UNCHANGED <<network_map, packet>>
  PROVE  /\ Walk(n)' /\ \E R : hops' \in Seq(R)
         /\ Len(hops') = Len(hops) + 1 \/ hops' = hops
         /\ \A k \in 1..Len(hops) : hops'[k] = hops[k]
<1>1. \A a : From(a)' = From(a)
  BY DEF From
<1>2. CASE hops' = hops
  BY <1>1, <1>2 DEF Walk
<1>3. CASE hops' = Append(hops, x)
  <2>1. hops \in Seq(S \union {x})
    OBVIOUS
  <2>2. hops' \in Seq(S \union {x}) /\ Len(hops') = Len(hops) + 1 /\ Len(hops) \in Nat
    BY <1>3, <2>1
  <2>3. \A k \in 1..Len(hops) : hops'[k] = hops[k]
    BY <1>3, <2>1
  <2>4. n \in Nat /\ n < Len(hops')
    BY <2>2 DEF Walk
  <2>5. hops'[1] = packet.src
    BY <2>2, <2>3 DEF Walk
  <2>6. ASSUME NEW k \in 1..n PROVE hops'[k + 1] \in From(hops'[k])
    <3>1. k \in 1..Len(hops) /\ k + 1 \in 1..Len(hops)
      BY <2>2 DEF Walk
    <3> QED BY <2>3, <3>1 DEF Walk
  <2> QED BY <1>1, <2>2, <2>3, <2>4, <2>5, <2>6 DEF Walk
<1> QED BY <1>2, <1>3

LEMMA NextRoute == RouteInv /\ [Next]_vars => RouteInv'
<1> SUFFICES ASSUME RouteInv, [Next]_vars PROVE RouteInv'
  OBVIOUS
<1>1. CASE UNCHANGED vars
  BY <1>1 DEF vars, RouteInv, MapOK, Walk, Stuck, From
<1>2. CASE Next
  <2>0. PICK n \in Nat : n = i
    BY PacketForwardAssumption DEF RouteInv
  <2>1. /\ outcome = "routing" /\ n < MaxHops /\ Len(hops) = n + 1 /\ Walk(n)
        /\ MaxHops \in Nat /\ i' = n + 1 /\ UNCHANGED <<network_map, packet>>
    BY <1>2, <2>0, PacketForwardAssumption DEF Next, RouteInv
  <2>2. PICK S : hops \in Seq(S)
    BY DEF RouteInv
  <2>3. MapOK' /\ (\A a : From(a)' = From(a)) /\ i' \in 0..MaxHops /\ i' > 0 /\ i' - 1 = n
    BY <2>1 DEF RouteInv, MapOK, From
  <2>4. current_hop = hops[n + 1] /\ n + 1 \in 1..Len(hops)
    BY <2>1 DEF current_hop
  <2>5. CASE DropAtLimit
    <3>1. n = MaxHops - 1 /\ hops' = Append(hops, Dropped) /\ outcome' = "limit"
      BY <2>0, <2>5 DEF DropAtLimit, LimitReached
    <3>2. Walk(n)' /\ (\E R : hops' \in Seq(R)) /\ Len(hops') = Len(hops) + 1
      <4>1. Len(hops') = Len(hops) + 1
        BY <2>2, <3>1, AppendProperties
      <4> QED BY <2>1, <2>2, <3>1, <4>1, WalkKept
    <3>3. i' = MaxHops /\ Len(hops') = MaxHops + 1 /\ Walk(MaxHops - 1)'
      BY <2>1, <3>1, <3>2
    <3> QED BY <2>3, <3>1, <3>2, <3>3 DEF RouteInv
  <2>6. CASE Arrive
    <3>1. hops' = hops /\ outcome' = "arrived" /\ hops[n + 1] = packet.dst
      BY <2>4, <2>6 DEF Arrive
    <3>2. Walk(n)' /\ (\E R : hops' \in Seq(R))
      BY <2>1, <2>2, <3>1, WalkKept
    <3>3. hops'[i'] = packet'.dst
      BY <2>1, <3>1
    <3>4. i' > 0 /\ Walk(i - 1)'
      BY <2>3, <3>2 DEF Walk
    <3> QED BY <2>3, <3>1, <3>2, <3>3, <3>4 DEF RouteInv
  <2>7. CASE RaiseKeyError \/ DropByRule
    <3>1. /\ outcome' \in {"KeyError", "rule"} /\ (hops' = Append(hops, Dropped) \/ hops' = hops)
          /\ hops[n + 1] # packet.dst
      BY <2>4, <2>7 DEF RaiseKeyError, DropByRule, Lookup
    <3>2. From(hops[n + 1]) = {}
      BY <2>4, <2>7 DEF RaiseKeyError, DropByRule, From
    <3>3. Walk(n)' /\ (\E R : hops' \in Seq(R)) /\ hops'[n + 1] = hops[n + 1]
      BY <2>1, <2>2, <2>4, <3>1, WalkKept
    <3>4. Walk(i - 1)' /\ Stuck(i - 1)'
      BY <2>1, <2>3, <3>1, <3>2, <3>3 DEF Walk, Stuck
    <3> QED BY <2>3, <3>1, <3>3, <3>4 DEF RouteInv
  <2>8. CASE Hop
    <3>1. PICK next \in NextHops(network_map[current_hop], packet) : hops' = Append(hops, next)
      BY <2>8 DEF Hop
    <3>2. next \in From(hops[n + 1]) /\ outcome' = "routing" /\ n # MaxHops - 1
      BY <2>0, <2>1, <2>4, <2>8, <3>1 DEF Hop, Lookup, LimitReached, From
    <3>3. /\ Walk(n)' /\ (\E R : hops' \in Seq(R)) /\ Len(hops') = Len(hops) + 1
          /\ \A k \in 1..Len(hops) : hops'[k] = hops[k]
      <4>1. Len(hops') = Len(hops) + 1
        BY <2>2, <3>1, AppendProperties
      <4> QED BY <2>1, <2>2, <3>1, <4>1, WalkKept
    <3>4. hops'[n + 2] = next
      BY <2>1, <2>2, <3>1
    <3>5. Walk(n + 1)'
      <4>1. ASSUME NEW k \in 1..(n + 1) PROVE hops'[k + 1] \in From(hops'[k])
        <5>1. CASE k = n + 1
          BY <2>1, <2>4, <3>2, <3>3, <3>4, <5>1
        <5>2. CASE k # n + 1
          <6>1. k \in 1..n /\ k \in 1..Len(hops) /\ k + 1 \in 1..Len(hops)
            BY <2>1, <5>2
          <6> QED BY <2>1, <3>3, <6>1 DEF Walk
        <5> QED BY <5>1, <5>2
      <4>2. hops'[1] = packet.src /\ n + 1 < Len(hops')
        BY <2>1, <3>3 DEF Walk
      <4>3. \A a : From(a)' = From(a)
        BY <2>3
      <4>4. packet' = packet /\ n + 1 \in Nat
        BY <2>1
      <4> QED BY <4>1, <4>2, <4>3, <4>4 DEF Walk
    <3>6. i' < MaxHops /\ Len(hops') = i' + 1 /\ Walk(i)'
      BY <2>1, <3>2, <3>3, <3>5 DEF Walk
    <3> QED BY <2>3, <3>2, <3>3, <3>6 DEF RouteInv
  <2> QED BY <1>2, <2>5, <2>6, <2>7, <2>8 DEF Next
<1> QED BY <1>1, <1>2

(* The route so far is the walk the tables and rules lead on, one hop per  *)
(* turn of the loop.                                                       *)
THEOREM RouteInvariant == Spec => []RouteInv
BY InitRoute, NextRoute, PTL DEF Spec

(* The counter and the route agree, and the loop decides a fate before its *)
(* counter runs out.                                                       *)
THEOREM ForwardTypes == Spec => []TypeOK
<1>1. RouteInv => TypeOK
  BY DEF RouteInv, TypeOK
<1> QED BY <1>1, RouteInvariant, PTL

-----------------------------------------------------------------------------
(* Loops: with no more than one next hop from anywhere, a walk that comes  *)
(* back to a router never leaves the routers it has been to.               *)

LEMMA WalkForwards ==
  ASSUME NEW n, Walk(n)
  PROVE  \A k \in 1..n : hops[k] \in DOMAIN network_map \ {packet.dst}
BY DEF Walk, From

LEMMA LoopCloses ==
  ASSUME Deterministic, NEW n \in Nat, Walk(n), NEW a \in 1..n, NEW b \in 1..n, a < b, hops[a] = hops[b],
         NEW w, IsWithin(w)
  PROVE  \A m \in Nat : packet.dst \notin w[m]
<1> DEFINE C == {hops[j] : j \in 1..(b - 1)}
<1>1. packet.src \in C
  <2>1. 1 \in 1..(b - 1)
    OBVIOUS
  <2> QED BY <2>1 DEF Walk
<1>2. ASSUME NEW j \in 1..(b - 1), NEW x \in From(hops[j]) PROVE x \in C
  <2>1. j \in 1..n /\ x = hops[j + 1]
    BY <1>2 DEF Walk, Deterministic
  <2>2. CASE j + 1 = b
    <3>1. a \in 1..(b - 1) /\ x = hops[a]
      BY <2>1, <2>2
    <3> QED BY <3>1
  <2>3. CASE j + 1 # b
    <3>1. j + 1 \in 1..(b - 1)
      BY <2>3
    <3> QED BY <2>1, <3>1
  <2> QED BY <2>2, <2>3
<1>3. packet.dst \notin C
  <2>1. \A j \in 1..(b - 1) : j \in 1..n
    OBVIOUS
  <2> QED BY <2>1, WalkForwards
<1>4. \A c \in C : From(c) \subseteq C
  BY <1>2
<1> HIDE DEF C
<1>5. \A m \in Nat : w[m] \subseteq C
  BY <1>1, <1>4, ClosedHoldsAll
<1> QED BY <1>3, <1>5

LEMMA StuckCloses ==
  ASSUME Deterministic, NEW n \in Nat, Walk(n), Stuck(n), NEW w, IsWithin(w)
  PROVE  \A m \in Nat : packet.dst \notin w[m]
<1> DEFINE C == {hops[j] : j \in 1..(n + 1)}
<1>1. packet.src \in C
  <2>1. 1 \in 1..(n + 1)
    OBVIOUS
  <2> QED BY <2>1 DEF Walk
<1>2. ASSUME NEW j \in 1..(n + 1), NEW x \in From(hops[j]) PROVE x \in C
  <2>1. j # n + 1
    BY <1>2 DEF Stuck
  <2>2. j \in 1..n /\ j + 1 \in 1..(n + 1)
    BY <2>1
  <2>3. x = hops[j + 1]
    BY <1>2, <2>2 DEF Walk, Deterministic
  <2> QED BY <2>2, <2>3
<1>3. packet.dst \notin C
  <2>1. \A j \in 1..(n + 1) : j \in 1..n \/ j = n + 1
    OBVIOUS
  <2> QED BY <2>1, WalkForwards DEF Stuck
<1>4. \A c \in C : From(c) \subseteq C
  BY <1>2
<1> HIDE DEF C
<1>5. \A m \in Nat : w[m] \subseteq C
  BY <1>1, <1>4, ClosedHoldsAll
<1> QED BY <1>3, <1>5

LEMMA WalkIsWithin ==
  ASSUME NEW n \in Nat, Walk(n), NEW w, IsWithin(w)
  PROVE  hops[n + 1] \in w[n]
<1> DEFINE T == {k \in Nat : k <= n => hops[k + 1] \in w[k]}
<1>1. 0 \in T
  BY WithinSteps DEF Walk
<1>2. ASSUME NEW k \in Nat, k \in T PROVE k + 1 \in T
  <2>1. CASE k + 1 <= n
    <3>1. hops[k + 1] \in w[k] /\ k + 1 \in 1..n
      BY <1>2, <2>1
    <3>2. hops[(k + 1) + 1] \in From(hops[k + 1])
      BY <3>1 DEF Walk
    <3>3. w[k + 1] = w[k] \union UNION {From(a) : a \in w[k]}
      BY WithinSteps
    <3> QED BY <3>1, <3>2, <3>3
  <2> QED BY <2>1
<1>3. Nat \subseteq T
  <2> HIDE DEF T
  <2> QED BY <1>1, <1>2, NatInSet
<1> QED BY <1>3

(* With room for all routers, a walk up to the limit has a router twice.   *)
LEMMA LongWalkLoops ==
  ASSUME RoomForAll, Walk(MaxHops - 1)
  PROVE  \E a, b \in 1..(MaxHops - 1) : a < b /\ hops[a] = hops[b]
<1> DEFINE n == MaxHops - 1
           D == DOMAIN network_map \ {packet.dst}
           f == [k \in 1..n |-> hops[k]]
<1>1. n \in Nat
  BY DEF Walk
<1>2. f \in [1..n -> D]
  BY WalkForwards
<1>3. IsFiniteSet(1..n) /\ Cardinality(1..n) = n
  BY <1>1, FS_Interval
<1>4. IsFiniteSet(D) /\ Cardinality(D) < n
  BY FS_RemoveElement DEF RoomForAll
<1>5. \E x, y \in 1..n : x # y /\ f[x] = f[y]
  <2>1. Cardinality(D) < Cardinality(1..n)
    BY <1>3, <1>4
  <2> HIDE DEF n, D, f
  <2> QED BY <1>2, <1>3, <1>4, <2>1, FS_PigeonHole
<1>6. PICK x \in 1..n, y \in 1..n : x # y /\ hops[x] = hops[y]
  BY <1>5
<1>7. x < y \/ y < x
  BY <1>6
<1> QED BY <1>6, <1>7

(* A walk that gets to the destination goes through no router twice, and   *)
(* so takes no more hops than there are routers.                           *)
LEMMA ArrivalIsReachable ==
  ASSUME Deterministic, IsFiniteSet(DOMAIN network_map), NEW n \in Nat, Walk(n), hops[n + 1] = packet.dst,
         NEW w, IsWithin(w)
  PROVE  packet.dst \in w[Cardinality(DOMAIN network_map)]
<1> DEFINE D == DOMAIN network_map
           f == [k \in 1..n |-> hops[k]]
<1>1. packet.dst \in w[n]
  BY WalkIsWithin
<1>2. \A a, b \in 1..n : a < b => hops[a] # hops[b]
  BY <1>1, LoopCloses
<1>3. \A a, b \in 1..n : hops[a] = hops[b] => a = b
  <2>1. \A a, b \in 1..n : a < b \/ b < a \/ a = b
    OBVIOUS
  <2> QED BY <1>2, <2>1
<1>4. f \in Injection(1..n, D)
  <2>1. f \in [1..n -> D]
    BY WalkForwards
  <2>2. \A a, b \in 1..n : f[a] = f[b] => a = b
    BY <1>3
  <2> HIDE DEF f
  <2> QED BY <2>1, <2>2 DEF Injection, IsInjective
<1>5. Cardinality(1..n) = n
  BY FS_Interval
<1>6. n <= Cardinality(D)
  <2> HIDE DEF D, f
  <2>1. IsFiniteSet(D)
    BY DEF D
  <2>2. Cardinality(1..n) <= Cardinality(D)
    BY <1>4, <2>1, FS_Injection
  <2> QED BY <1>5, <2>2
<1>7. Cardinality(D) \in Nat
  BY FS_CardinalityType
<1> QED BY <1>1, <1>6, <1>7, WithinGrows

-----------------------------------------------------------------------------
(* A packet that the limit takes was at a router twice, if the limit lets  *)
(* it through all routers first (LimitMeansLoop says so).                  *)
THEOREM LimitsAreLoops == Spec => []LimitMeansLoop
<1>1. RouteInv => LimitMeansLoop
  <2> SUFFICES ASSUME RouteInv, RoomForAll, outcome = "limit"
               PROVE  \E j, k \in 1..(Len(hops) - 1) : j < k /\ hops[j] = hops[k]
    BY DEF LimitMeansLoop, TooManyHopsMeanLoop
  <2>1. Walk(MaxHops - 1) /\ Len(hops) - 1 = MaxHops /\ MaxHops \in Nat
    BY PacketForwardAssumption DEF RouteInv
  <2>2. \E a, b \in 1..(MaxHops - 1) : a < b /\ hops[a] = hops[b]
    BY <2>1, LongWalkLoops
  <2>3. \A a \in 1..(MaxHops - 1) : a \in 1..MaxHops
    BY <2>1
  <2> QED BY <2>1, <2>2, <2>3
<1> QED BY <1>1, RouteInvariant, PTL

(* A packet arrives exactly if the tables and rules lead to its            *)
(* destination, if the limit lets it through all routers first.            *)
THEOREM ArrivalsAreReachable == Spec => []ArrivesIffReachable
<1>1. RouteInv => ArrivesIffReachable
  <2> SUFFICES ASSUME RouteInv, RoomForAll, outcome # "routing"
               PROVE  outcome = "arrived" <=> packet.dst \in Reachable
    BY DEF ArrivesIffReachable
  <2>1. PICK w : IsWithin(w) /\ Reachable = w[Cardinality(DOMAIN network_map)]
    BY ReachableIsWithin
  <2>2. Cardinality(DOMAIN network_map) \in Nat
    BY FS_CardinalityType DEF RoomForAll
  <2>3. Deterministic
    BY OneNextHop DEF RouteInv
  <2>4. CASE outcome = "limit"
    <3>1. Walk(MaxHops - 1) /\ MaxHops - 1 \in Nat
      BY <2>4 DEF RouteInv, Walk
    <3>2. PICK a \in 1..(MaxHops - 1), b \in 1..(MaxHops - 1) : a < b /\ hops[a] = hops[b]
      BY <3>1, LongWalkLoops
    <3>3. packet.dst \notin Reachable
      BY <2>1, <2>2, <2>3, <3>1, <3>2, LoopCloses
    <3> QED BY <2>4, <3>3
  <2>5. CASE outcome = "arrived"
    <3> DEFINE n == i - 1
    <3>1. n \in Nat /\ Walk(n) /\ hops[n + 1] = packet.dst
      BY <2>5 DEF RouteInv, Walk
    <3> HIDE DEF n
    <3>2. packet.dst \in Reachable
      BY <2>1, <2>3, <3>1, ArrivalIsReachable DEF RoomForAll
    <3> QED BY <2>5, <3>2
  <2>6. CASE outcome \in {"KeyError", "rule"}
    <3> DEFINE n == i - 1
    <3>1. n \in Nat /\ Walk(n) /\ Stuck(n)
      BY <2>6 DEF RouteInv, Walk
    <3> HIDE DEF n
    <3>2. packet.dst \notin Reachable
      BY <2>1, <2>2, <2>3, <3>1, StuckCloses
    <3> QED BY <2>6, <3>2
  <2>7. outcome \in {"limit", "arrived", "KeyError", "rule"}
    BY DEF RouteInv
  <2> QED BY <2>4, <2>5, <2>6, <2>7
<1> QED BY <1>1, RouteInvariant, PTL

-----------------------------------------------------------------------------
(* The network of sdn.py: the first rule that matches decides.             *)

(* Every hop but the mark of a drop is one the router before it named.     *)
EachHopLed == \A n \in 1..(Len(hops) - 1) : hops[n + 1] = Dropped \/ hops[n + 1] \in From(hops[n])

LEMMA NextLed == RouteInv /\ EachHopLed /\ [Next]_vars => EachHopLed'
<1> SUFFICES ASSUME RouteInv, EachHopLed, [Next]_vars PROVE EachHopLed'
  OBVIOUS
<1>1. CASE UNCHANGED vars
  BY <1>1 DEF vars, EachHopLed, From
<1>2. CASE Next
  <2>1. outcome = "routing" /\ UNCHANGED <<network_map, packet>>
        /\ (DropAtLimit \/ Arrive \/ RaiseKeyError \/ DropByRule \/ Hop)
    BY <1>2 DEF Next
  <2>2. PICK S : hops \in Seq(S)
    BY DEF RouteInv
  <2>3. Len(hops) \in Nat /\ Len(hops) >= 1
    BY <2>1, PacketForwardAssumption DEF RouteInv
  <2>4. \A a : From(a)' = From(a)
    BY <2>1 DEF From
  <2>5. \/ hops' = hops
        \/ \E x : hops' = Append(hops, x) /\ (x = Dropped \/ x \in From(hops[Len(hops)]))
    <3>1. CASE Hop
      <4>1. PICK next \in NextHops(network_map[current_hop], packet) : hops' = Append(hops, next)
        BY <3>1 DEF Hop
      <4>2. next \in From(current_hop)
        BY <3>1, <4>1 DEF Hop, Lookup, From
      <4> QED BY <4>1, <4>2 DEF current_hop
    <3>2. CASE ~Hop
      BY <2>1, <3>2 DEF DropAtLimit, Arrive, RaiseKeyError, DropByRule
    <3> QED BY <3>1, <3>2
  <2>6. CASE hops' = hops
    BY <2>4, <2>6 DEF EachHopLed
  <2>7. ASSUME NEW x, hops' = Append(hops, x), x = Dropped \/ x \in From(hops[Len(hops)])
        PROVE  EachHopLed'
    <3> DEFINE n == Len(hops)
    <3>1. Len(hops') = n + 1 /\ hops'[n + 1] = x /\ \A k \in 1..n : hops'[k] = hops[k]
      <4>1. hops \in Seq(S \union {x}) /\ x \in S \union {x}
        BY <2>2
      <4> QED BY <2>7, <4>1, AppendProperties
    <3>2. ASSUME NEW k \in 1..n PROVE hops'[k + 1] = Dropped \/ hops'[k + 1] \in From(hops'[k])
      <4>1. CASE k = n
        BY <2>7, <3>1, <4>1
      <4>2. CASE k # n
        <5>1. k \in 1..(n - 1) /\ k + 1 \in 1..n
          BY <2>3, <4>2
        <5> QED BY <3>1, <5>1 DEF EachHopLed
      <4> QED BY <4>1, <4>2
    <3>3. Len(hops') - 1 = n
      BY <2>3, <3>1
    <3> QED BY <2>4, <3>2, <3>3 DEF EachHopLed
  <2> QED BY <2>5, <2>6, <2>7
<1> QED BY <1>1, <1>2

(* What a list of rules does is what one of them says that matches, and    *)
(* none before it does.                                                    *)
Matches(rule, p) == p.dst \in rule.dst /\ p.dst_port \in rule.dst_port

LEMMA FirstMatchDecides ==
  ASSUME NEW rules, NEW n \in Nat, Len(rules) = n, NEW p, NEW x \in RulesHop(rules, p)
  PROVE  \E k \in 1..n : /\ Matches(rules[k], p) /\ x \in rules[k].value
                         /\ \A j \in 1..n : Matches(rules[j], p) => k <= j
<1> DEFINE hits == Hits(rules, p)
<1>1. hits # {} /\ x \in rules[FirstRule(hits)].value
  BY DEF RulesHop
<1>2. hits \in SUBSET Nat /\ \A k : k \in hits <=> k \in 1..n /\ Matches(rules[k], p)
  BY DEF Hits, Matches
<1> HIDE DEF hits
<1>3. \E k \in hits : \A j \in hits : k <= j
  BY <1>1, <1>2, LeastMember
<1>4. FirstRule(hits) \in hits /\ \A j \in hits : FirstRule(hits) <= j
  BY <1>3 DEF FirstRule, Min
<1> QED BY <1>1, <1>2, <1>4

(* The rules of the two hosts, of the router for SSH and of the one that   *)
(* blocks HTTP, as far as they say who comes by the last and who leaves it. *)
LEMMA SdnHops ==
  ASSUME network_map = SdnNetwork
  PROVE  /\ \A a : "0011" \in From(a) => packet.dst_port # "22"
         /\ From("0011") # {} => packet.dst_port \in {"22", "8080"}
<1>1. ASSUME NEW a, NEW x \in From(a)
      PROVE  a \in SdnAddresses /\ x \in RulesHop(SdnRules(a), packet)
  <2>1. a \in SdnAddresses /\ x \in NextHops(network_map[a], packet)
    BY <1>1 DEF From, SdnNetwork
  <2>2. network_map[a] = [kind |-> "rules", rules |-> SdnRules(a)]
    BY <2>1 DEF SdnNetwork, SDNRouter
  <2> HIDE DEF SdnNetwork
  <2>3. NextHops(network_map[a], packet) = RulesHop(SdnRules(a), packet)
    BY <2>2 DEF NextHops
  <2> QED BY <2>1, <2>3
<1>2. ASSUME NEW a, "0011" \in From(a) PROVE packet.dst_port # "22"
  <2>1. a \in {"0000", "0001", "0010", "0011"} /\ "0011" \in RulesHop(SdnRules(a), packet)
    BY <1>1, <1>2 DEF SdnAddresses
  <2>2. CASE a \in {"0000", "0001"}
    <3> DEFINE other == IF a = "0000" THEN "0001" ELSE "0000"
               rules == <<ForwardTo(SdnAddresses, {"22"}, "0010"), ForwardTo({other}, Ports, "0011")>>
    <3>1. SdnRules(a) = rules /\ other \in SdnAddresses
      BY <2>2 DEF SdnRules, SdnAddresses
    <3> HIDE DEF other
    <3>2. Len(rules) = 2 /\ \A k \in 1..2 : k = 1 \/ k = 2
      OBVIOUS
    <3>3. PICK k \in 1..2 : /\ Matches(rules[k], packet) /\ "0011" \in rules[k].value
                            /\ \A j \in 1..2 : Matches(rules[j], packet) => k <= j
      <4> HIDE DEF rules
      <4> QED BY <2>1, <3>1, <3>2, FirstMatchDecides
    <3>4. k = 2
      BY <3>2, <3>3 DEF ForwardTo
    <3>5. packet.dst = other /\ ~Matches(rules[1], packet)
      BY <3>3, <3>4 DEF Matches, ForwardTo
    <3> QED BY <3>1, <3>5 DEF Matches, ForwardTo
  <2>3. CASE a = "0010"
    <3> DEFINE rules == <<ForwardTo({"0000"}, {"22"}, "0000"), ForwardTo({"0001"}, {"22"}, "0001")>>
    <3>1. SdnRules(a) = rules /\ Len(rules) = 2 /\ \A k \in 1..2 : k = 1 \/ k = 2
      BY <2>3 DEF SdnRules
    <3>2. \E k \in 1..2 : "0011" \in rules[k].value
      <4> HIDE DEF rules
      <4> QED BY <2>1, <3>1, FirstMatchDecides
    <3> QED BY <3>1, <3>2 DEF ForwardTo
  <2>4. CASE a = "0011"
    <3> DEFINE rules == <<DropThese(SdnAddresses, {"80"}), ForwardTo({"0000"}, Ports, "0000"),
                          ForwardTo({"0001"}, Ports, "0001")>>
    <3>1. SdnRules(a) = rules /\ Len(rules) = 3 /\ \A k \in 1..3 : k = 1 \/ k = 2 \/ k = 3
      BY <2>4 DEF SdnRules
    <3>2. \E k \in 1..3 : "0011" \in rules[k].value
      <4> HIDE DEF rules
      <4> QED BY <2>1, <3>1, FirstMatchDecides
    <3> QED BY <3>1, <3>2 DEF ForwardTo, DropThese
  <2> QED BY <2>1, <2>2, <2>3, <2>4
<1>3. ASSUME NEW x \in From("0011") PROVE packet.dst_port \in {"22", "8080"}
  <2> DEFINE rules == <<DropThese(SdnAddresses, {"80"}), ForwardTo({"0000"}, Ports, "0000"),
                        ForwardTo({"0001"}, Ports, "0001")>>
  <2>1. SdnRules("0011") = rules /\ Len(rules) = 3 /\ \A k \in 1..3 : k = 1 \/ k = 2 \/ k = 3
    BY DEF SdnRules
  <2>2. PICK k \in 1..3 : /\ Matches(rules[k], packet) /\ x \in rules[k].value
                          /\ \A j \in 1..3 : Matches(rules[j], packet) => k <= j
    <3>1. x \in RulesHop(SdnRules("0011"), packet)
      BY <1>1
    <3> HIDE DEF rules
    <3> QED BY <2>1, <3>1, FirstMatchDecides
  <2>3. k # 1
    BY <2>2 DEF DropThese
  <2>4. packet.dst \in SdnAddresses /\ packet.dst_port \in Ports
    BY <2>1, <2>2, <2>3 DEF Matches, ForwardTo, SdnAddresses
  <2>5. ~Matches(rules[1], packet)
    BY <2>1, <2>2, <2>3
  <2>6. packet.dst_port # "80"
    BY <2>4, <2>5 DEF Matches, DropThese
  <2> QED BY <2>4, <2>6 DEF Ports
<1> QED BY <1>2, <1>3

(* HTTP requests get no further than the router that blocks them, although *)
(* the rules for their addresses match as well, and SSH never comes by it  *)
(* (sdn.py:92-112), for every packet and limit of hops.                    *)
THEOREM PortRulesDecide == Spec => [](network_map = SdnNetwork => PortRulesGoFirst)
<1>1. Init => EachHopLed
  BY DEF Init, EachHopLed
<1>2. EachHopLed => (network_map = SdnNetwork => PortRulesGoFirst)
  <2> SUFFICES ASSUME EachHopLed, network_map = SdnNetwork, NEW n \in 1..(Len(hops) - 1),
                      hops[n] = "0011", n > 1, hops[n + 1] # Dropped
               PROVE  packet.dst_port = "8080"
    BY DEF PortRulesGoFirst
  <2>1. hops[n + 1] \in From("0011")
    BY DEF EachHopLed
  <2>2. n - 1 \in 1..(Len(hops) - 1) /\ (n - 1) + 1 = n
    OBVIOUS
  <2>3. "0011" \in From(hops[n - 1])
    BY <2>2 DEF EachHopLed, Dropped
  <2> QED BY <2>1, <2>3, SdnHops
<1> QED BY <1>1, <1>2, NextLed, RouteInvariant, PTL DEF Spec
=============================================================================
