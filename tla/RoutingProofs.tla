---------------------------- MODULE RoutingProofs ----------------------------
(***************************************************************************)
(* Theorems about Routing and HopByHop: the search finds shortest routes   *)
(* in every graph, the forwarding tables made of them are defined, and a   *)
(* packet forwarded by them stays on a shortest route and never returns.   *)
(***************************************************************************)
EXTENDS HopByHop, InductionFacts, SequenceTheorems

-----------------------------------------------------------------------------
(* Small facts. *)

LEMMA LesserOfTwo ==
  ASSUME NEW x \in Int, NEW y \in Int
  PROVE  /\ Min({x, y}) \in {x, y}
         /\ Min({x, y}) <= x /\ Min({x, y}) <= y
<1>1. \E m \in {x, y} : \A z \in {x, y} : m <= z
  OBVIOUS
<1> QED BY <1>1 DEF Min

(* Of the members of a set of nodes, one is nearest.                       *)
LEMMA NearestOf ==
  ASSUME NEW S, S # {}, NEW dist, \A x \in S : dist[x] \in Nat
  PROVE  \E x \in S : \A y \in S : dist[x] <= dist[y]
<1> DEFINE M == {dist[x] : x \in S}
<1>1. M \in SUBSET Nat /\ M # {}
  OBVIOUS
<1>2. \E n \in M : \A m \in M : n <= m
  <2> HIDE DEF M
  <2> QED BY <1>1, LeastMember
<1> QED BY <1>2

LEMMA DelaysHaveLargest ==
  /\ Max(Delays) \in Nat \ {0}
  /\ \A d \in Delays : d <= Max(Delays)
<1> DEFINE Above(d) == {e \in Delays : e >= d}
           F == {Above(d) : d \in Delays}
<1>1. Delays \subseteq Nat \ {0} /\ Delays # {} /\ IsFiniteSet(Delays)
  BY HopAssumption
<1>2. \A d, e : e \in Above(d) <=> e \in Delays /\ e >= d
  OBVIOUS
<1> HIDE DEF Above
<1>3. F \in SUBSET (SUBSET Delays) /\ F # {}
  BY <1>1, <1>2
<1>4. \E A \in F : \A B \in F : B \subseteq A => B = A
  <2> HIDE DEF F
  <2>1. IsFiniteSet(Delays)
    BY <1>1
  <2> QED BY <1>3, <2>1, MinimalSubset, SMT
<1>5. \E d \in Delays : \A e \in Delays : Above(e) \subseteq Above(d) => Above(e) = Above(d)
  BY <1>4
<1>6. PICK d \in Delays : \A e \in Delays : Above(e) \subseteq Above(d) => Above(e) = Above(d)
  BY <1>5
<1>7. ASSUME NEW e \in Delays PROVE d >= e
  <2> SUFFICES ASSUME e > d PROVE FALSE
    BY <1>1
  <2>1. Above(e) \subseteq Above(d)
    <3> SUFFICES ASSUME NEW x \in Above(e) PROVE x \in Above(d)
      OBVIOUS
    <3>1. x \in Delays /\ x >= e /\ x \in Nat /\ d \in Nat /\ e \in Nat
      BY <1>1, <1>2
    <3>2. x >= d
      BY <3>1
    <3> QED BY <1>2, <3>1, <3>2
  <2>2. d \in Above(d) /\ d \notin Above(e)
    BY <1>1, <1>2
  <2> QED BY <1>6, <2>1, <2>2
<1>8. \E x \in Delays : \A y \in Delays : x >= y
  BY <1>7
<1>9. Max(Delays) \in Delays /\ \A y \in Delays : Max(Delays) >= y
  <2>1. Max(Delays) = CHOOSE x \in Delays : \A y \in Delays : x >= y
    BY Zenon DEF Max
  <2> QED BY <1>8, <2>1, Zenon
<1> QED BY <1>1, <1>9

LEMMA NodeIdsAre ==
  NodeIds \subseteq Nat /\ IsFiniteSet(NodeIds) /\ Cardinality(NodeIds) = Size /\ Size \in Nat
<1>1. Size \in Nat \ {0, 1}
  BY HopAssumption
<1>2. IsFiniteSet(0..(Size - 1)) /\ Cardinality(0..(Size - 1)) = Size
  BY <1>1, FS_Interval
<1> QED BY <1>1, <1>2 DEF NodeIds

-----------------------------------------------------------------------------
(* The reference: what admitting one more intermediate node at a time ends *)
(* with is a distance.  w is the delay of a link, direct of the way over   *)
(* one link at most, far what no way takes.                                *)

(* A graph of routers: delays are positive, and links have both ends.      *)
IsGraph(g) ==
  /\ g.nodes \in SUBSET Nat /\ IsFiniteSet(g.nodes)
  /\ DOMAIN g.delay \subseteq g.nodes \X g.nodes
  /\ \A link \in DOMAIN g.delay : g.delay[link] \in Nat \ {0}

(* dist is the distance from src: no link offers a shorter way, and every  *)
(* other node is reached over some link from a node on the way.            *)
IsDistanceFrom(dist, src, g) ==
  /\ \A n \in g.nodes : dist[n] \in Nat
  /\ dist[src] = 0
  /\ \A link \in DOMAIN g.delay : dist[link[2]] <= dist[link[1]] + g.delay[link]
  /\ \A n \in g.nodes \ {src} : \E u \in g.nodes :
       <<u, n>> \in DOMAIN g.delay /\ dist[n] = dist[u] + g.delay[<<u, n>>]

Direct(g) ==
  [a \in NodeIds |-> [b \in NodeIds |->
     IF a = b THEN 0 ELSE IF <<a, b>> \in DOMAIN g.delay THEN g.delay[<<a, b>>] ELSE Unreachable]]

Admitting(t, c) ==
  [a \in NodeIds |-> [b \in NodeIds |-> Min({t[a][b], t[a][c] + t[c][b]})]]

(* What holds when the nodes before k are admitted. *)
AdmittedBefore(g, k) ==
  {t \in [NodeIds -> [NodeIds -> Nat]] :
     /\ \A a \in NodeIds : t[a][a] = 0
     /\ \A a, b \in NodeIds : t[a][b] <= Direct(g)[a][b]
     /\ \A a, b, c \in NodeIds : c < k => t[a][b] <= t[a][c] + t[c][b]
     /\ \A a, b \in NodeIds : a # b /\ t[a][b] < Unreachable =>
          \E u \in NodeIds : <<u, b>> \in DOMAIN g.delay /\ t[a][u] + g.delay[<<u, b>>] <= t[a][b]}

LEMMA AdmittingOneMore ==
  ASSUME NEW g, IsGraph(g), g.nodes = NodeIds, Unreachable \in Nat,
         NEW c \in NodeIds, NEW t \in AdmittedBefore(g, c)
  PROVE  Admitting(t, c) \in AdmittedBefore(g, c + 1)
<1> DEFINE r == Admitting(t, c)
<1>1. NodeIds \subseteq Nat /\ \A a, b \in NodeIds : t[a][b] \in Nat
  <2>1. t \in [NodeIds -> [NodeIds -> Nat]]
    BY DEF AdmittedBefore
  <2> QED BY <2>1, NodeIdsAre
<1>2. ASSUME NEW a \in NodeIds, NEW b \in NodeIds
      PROVE  /\ r[a][b] \in {t[a][b], t[a][c] + t[c][b]} /\ r[a][b] \in Nat
             /\ r[a][b] <= t[a][b] /\ r[a][b] <= t[a][c] + t[c][b]
  <2>1. r[a][b] = Min({t[a][b], t[a][c] + t[c][b]})
    BY DEF Admitting
  <2>2. t[a][b] \in Nat /\ t[a][c] \in Nat /\ t[c][b] \in Nat
    BY <1>1
  <2>3. t[a][b] \in Int /\ t[a][c] + t[c][b] \in Int
    BY <2>2
  <2> HIDE DEF r
  <2>4. r[a][b] \in {t[a][b], t[a][c] + t[c][b]} /\ r[a][b] <= t[a][b] /\ r[a][b] <= t[a][c] + t[c][b]
    BY <2>1, <2>3, LesserOfTwo
  <2> QED BY <2>2, <2>4
<1>3. r \in [NodeIds -> [NodeIds -> Nat]]
  <2>1. r = [a \in NodeIds |-> [b \in NodeIds |-> r[a][b]]]
    BY DEF Admitting
  <2>2. \A a, b \in NodeIds : r[a][b] \in Nat
    BY <1>2
  <2> HIDE DEF r
  <2> QED BY <2>1, <2>2
<1> HIDE DEF r
<1>4. \A a \in NodeIds : t[a][a] = 0
  BY DEF AdmittedBefore
<1>5. \A a, b, d \in NodeIds : d < c => t[a][b] <= t[a][d] + t[d][b]
  BY DEF AdmittedBefore
<1>6. ASSUME NEW a \in NodeIds PROVE r[a][a] = 0
  BY <1>1, <1>2, <1>4
<1>7. ASSUME NEW a \in NodeIds, NEW b \in NodeIds PROVE r[a][b] <= Direct(g)[a][b]
  <2>1. t[a][b] <= Direct(g)[a][b]
    BY DEF AdmittedBefore
  <2>2. Direct(g)[a][b] \in Nat
    BY DEF Direct, IsGraph
  <2> QED BY <1>1, <1>2, <2>1, <2>2
<1>8. ASSUME NEW a \in NodeIds, NEW b \in NodeIds, NEW d \in NodeIds, d < c + 1
      PROVE  r[a][b] <= r[a][d] + r[d][b]
  <2>1. /\ t[a][b] \in Nat /\ t[a][c] \in Nat /\ t[c][b] \in Nat /\ t[a][d] \in Nat
        /\ t[d][b] \in Nat /\ t[c][d] \in Nat /\ t[d][c] \in Nat
    BY <1>1
  <2>2. /\ r[a][b] \in Nat /\ r[a][b] <= t[a][b] /\ r[a][b] <= t[a][c] + t[c][b]
        /\ r[a][d] \in Nat /\ r[a][d] \in {t[a][d], t[a][c] + t[c][d]}
        /\ r[d][b] \in Nat /\ r[d][b] \in {t[d][b], t[d][c] + t[c][b]}
    BY <1>2
  <2>3. CASE d = c
    <3>1. t[c][c] = 0
      BY <1>4
    <3> QED BY <2>1, <2>2, <2>3, <3>1
  <2>4. CASE d # c
    <3>1. d < c
      BY <1>1, <1>8, <2>4
    <3>2. t[a][b] <= t[a][d] + t[d][b] /\ t[a][c] <= t[a][d] + t[d][c] /\ t[c][b] <= t[c][d] + t[d][b]
      BY <1>5, <3>1
    <3> QED BY <2>1, <2>2, <3>2
  <2> QED BY <2>3, <2>4
<1>9. ASSUME NEW a \in NodeIds, NEW b \in NodeIds, a # b, r[a][b] < Unreachable
      PROVE  \E u \in NodeIds : <<u, b>> \in DOMAIN g.delay /\ r[a][u] + g.delay[<<u, b>>] <= r[a][b]
  <2>0. \A x, y \in NodeIds : x # y /\ t[x][y] < Unreachable =>
          \E u \in NodeIds : <<u, y>> \in DOMAIN g.delay /\ t[x][u] + g.delay[<<u, y>>] <= t[x][y]
    BY DEF AdmittedBefore
  <2>1. \A link \in DOMAIN g.delay : g.delay[link] \in Nat
    BY DEF IsGraph
  <2>2. t[a][b] \in Nat /\ t[a][c] \in Nat /\ t[c][b] \in Nat
    BY <1>1
  <2>3. CASE r[a][b] = t[a][b]
    <3>1. PICK u \in NodeIds : <<u, b>> \in DOMAIN g.delay /\ t[a][u] + g.delay[<<u, b>>] <= t[a][b]
      BY <1>9, <2>0, <2>3
    <3>2. r[a][u] <= t[a][u] /\ r[a][u] \in Nat /\ t[a][u] \in Nat /\ g.delay[<<u, b>>] \in Nat
      BY <1>1, <1>2, <2>1, <3>1
    <3> QED BY <2>2, <2>3, <3>1, <3>2
  <2>4. CASE r[a][b] = t[a][c] + t[c][b] /\ r[a][b] # t[a][b]
    <3>1. c # b
      BY <1>4, <2>2, <2>4
    <3>2. t[c][b] < Unreachable
      BY <1>9, <2>2, <2>4
    <3>3. PICK u \in NodeIds : <<u, b>> \in DOMAIN g.delay /\ t[c][u] + g.delay[<<u, b>>] <= t[c][b]
      BY <2>0, <3>1, <3>2
    <3>4. r[a][u] <= t[a][c] + t[c][u] /\ r[a][u] \in Nat /\ t[c][u] \in Nat /\ g.delay[<<u, b>>] \in Nat
      BY <1>1, <1>2, <2>1, <3>3
    <3>5. r[a][u] + g.delay[<<u, b>>] <= r[a][b]
      BY <2>2, <2>4, <3>3, <3>4
    <3> QED BY <3>3, <3>5
  <2> QED BY <1>2, <2>3, <2>4
<1>10. r \in AdmittedBefore(g, c + 1)
  BY <1>3, <1>6, <1>7, <1>8, <1>9 DEF AdmittedBefore
<1> QED BY <1>10 DEF r

(* A graph the packet may meet. *)
LEMMA ConnectedGraphsAre ==
  ASSUME NEW g \in ConnectedGraphs
  PROVE  /\ IsGraph(g) /\ g.nodes = NodeIds /\ Connected(g)
         /\ \A a, b \in NodeIds : <<a, b>> \in DOMAIN g.delay =>
              g.delay[<<a, b>>] < Unreachable
         /\ Unreachable \in Nat
<1>1. PICK S \in SUBSET Links : \E f \in [S -> Delays] : g = SymmetricGraph(f)
  BY Zenon DEF ConnectedGraphs
<1> PICK f \in [S -> Delays] : g = SymmetricGraph(f)
  BY <1>1
<1>2. /\ Delays \subseteq Nat \ {0} /\ Max(Delays) \in Nat \ {0}
      /\ \A d \in Delays : d <= Max(Delays)
  BY HopAssumption, DelaysHaveLargest
<1>3. NodeIds \subseteq Nat /\ IsFiniteSet(NodeIds)
  BY NodeIdsAre
<1>4. S \subseteq NodeIds \X NodeIds /\ DOMAIN f = S
  BY DEF Links
<1> DEFINE linked == {p \in NodeIds \X NodeIds : p \in S \/ <<p[2], p[1]>> \in S}
<1>5. /\ g.nodes = NodeIds
      /\ g.delay = [pair \in linked |-> IF pair \in S THEN f[pair] ELSE f[<<pair[2], pair[1]>>]]
  BY <1>4, Zenon DEF SymmetricGraph
<1>6. \A pair \in linked : g.delay[pair] \in Delays
  BY <1>5
<1>7. DOMAIN g.delay = linked /\ linked \subseteq NodeIds \X NodeIds
  BY <1>5
<1> HIDE DEF linked
<1>8. IsGraph(g)
  BY <1>2, <1>3, <1>5, <1>6, <1>7 DEF IsGraph
<1>9. /\ Unreachable \in Nat
      /\ \A a, b \in NodeIds : <<a, b>> \in DOMAIN g.delay => g.delay[<<a, b>>] < Unreachable
  <2> DEFINE most == Max(Delays)
  <2>1. most \in Nat \ {0} /\ Size \in Nat /\ Size >= 1
    BY <1>2, HopAssumption
  <2> HIDE DEF most
  <2>2. Size * most \in Nat /\ most <= Size * most
    BY <2>1
  <2>3. \A d \in Delays : d \in Nat /\ d <= most
    BY <1>2 DEF most
  <2>4. Unreachable = Size * most + 1
    BY DEF Unreachable, most
  <2>5. Unreachable \in Nat /\ \A d \in Delays : d < Unreachable
    BY <2>1, <2>2, <2>3, <2>4
  <2> QED BY <2>5, <1>6, <1>7
<1>10. Connected(g)
  BY DEF ConnectedGraphs
<1> QED BY <1>5, <1>8, <1>9, <1>10

LEMMA AllAdmitted ==
  ASSUME NEW g, IsGraph(g), g.nodes = NodeIds, Unreachable \in Nat
  PROVE  ShortestDelays(g) \in AdmittedBefore(g, Size)
<1> DEFINE through[k \in 0..Size] ==
             IF k = 0 THEN Direct(g)
             ELSE [a \in NodeIds |-> [b \in NodeIds |->
                     Min({through[k - 1][a][b], through[k - 1][a][k - 1] + through[k - 1][k - 1][b]})]]
           Maps == [NodeIds -> [NodeIds -> Nat]]
           step == [p \in (1..Size) \X Maps |-> Admitting(p[2], p[1] - 1)]
           U == [k \in 0..Size |-> AdmittedBefore(g, k)]
<1>1. Size \in Nat /\ NodeIds = 0..(Size - 1) /\ NodeIds \subseteq Nat
  BY NodeIdsAre DEF NodeIds
<1>2. Direct(g) \in U[0]
  <2>1. /\ DOMAIN g.delay \subseteq NodeIds \X NodeIds
        /\ \A link \in DOMAIN g.delay : g.delay[link] \in Nat
    BY DEF IsGraph
  <2>2. Direct(g) \in Maps
    BY <2>1 DEF Direct
  <2>3. \A a \in NodeIds : Direct(g)[a][a] = 0
    BY DEF Direct
  <2>4. \A a, b \in NodeIds : a # b /\ Direct(g)[a][b] < Unreachable =>
          <<a, b>> \in DOMAIN g.delay /\ Direct(g)[a][a] + g.delay[<<a, b>>] <= Direct(g)[a][b]
    BY <2>1 DEF Direct
  <2>5. \A a, b \in NodeIds : Direct(g)[a][b] <= Direct(g)[a][b]
    BY <2>2
  <2>6. \A c \in NodeIds : ~(c < 0)
    BY <1>1
  <2>7. Direct(g) \in AdmittedBefore(g, 0)
    BY <2>2, <2>3, <2>4, <2>5, <2>6 DEF AdmittedBefore
  <2> QED BY <1>1, <2>7
<1>3. ASSUME NEW f, f[0] = Direct(g), \A k \in 1..Size : f[k - 1] \in U[k - 1] => f[k] = Admitting(f[k - 1], k - 1)
      PROVE  \A k \in 0..Size : f[k] \in U[k]
  <2>1. ASSUME NEW k \in 1..Size, f[k - 1] \in U[k - 1] PROVE f[k] \in U[k]
    <3>1. k - 1 \in NodeIds /\ k - 1 \in 0..Size /\ k \in 0..Size /\ (k - 1) + 1 = k
      BY <1>1
    <3>2. f[k - 1] \in AdmittedBefore(g, k - 1) /\ f[k] = Admitting(f[k - 1], k - 1)
      BY <1>3, <2>1, <3>1
    <3>3. f[k] \in AdmittedBefore(g, (k - 1) + 1)
      BY <3>1, <3>2, AdmittingOneMore
    <3> QED BY <3>1, <3>3
  <2> HIDE DEF U
  <2> QED BY <1>1, <1>2, <1>3, <2>1, StagesStay
<1> DEFINE Unfolds(f) == f = [k \in 0..Size |->
             IF k = 0 THEN Direct(g)
             ELSE [a \in NodeIds |-> [b \in NodeIds |->
                     Min({f[k - 1][a][b], f[k - 1][a][k - 1] + f[k - 1][k - 1][b]})]]]
<1>4. ASSUME NEW f, Unfolds(f) PROVE f[Size] \in AdmittedBefore(g, Size)
  <2>1. f = [k \in 0..Size |-> IF k = 0 THEN Direct(g) ELSE Admitting(f[k - 1], k - 1)]
    BY <1>4, Zenon DEF Admitting
  <2>2. f[0] = Direct(g) /\ \A k \in 1..Size : f[k] = Admitting(f[k - 1], k - 1)
    <3>1. \A k \in 0..Size : f[k] = IF k = 0 THEN Direct(g) ELSE Admitting(f[k - 1], k - 1)
      BY <2>1
    <3> QED BY <1>1, <3>1
  <2>3. \A k \in 0..Size : f[k] \in U[k]
    <3> HIDE DEF U, Unfolds
    <3> QED BY <1>3, <2>2
  <2> QED BY <1>1, <2>3
<1>5. PICK h : IsUnrolled(h, Size, Direct(g), step)
  <2> HIDE DEF step
  <2> QED BY <1>1, StagesExist
<1>6. Unfolds(h)
  <2>1. h[0] = Direct(g) /\ \A k \in 1..Size : h[k] = step[<<k, h[k - 1]>>]
    <3> HIDE DEF step
    <3> QED BY <1>1, <1>5, UnrolledIs
  <2>2. ASSUME NEW k \in 1..Size, h[k - 1] \in U[k - 1] PROVE h[k] = Admitting(h[k - 1], k - 1)
    <3>1. h[k - 1] \in Maps
      BY <1>1, <2>2 DEF AdmittedBefore
    <3> QED BY <2>1, <3>1
  <2>3. \A k \in 0..Size : h[k] \in U[k]
    BY <1>3, <2>1, <2>2
  <2>4. \A k \in 1..Size : k - 1 \in 0..Size
    BY <1>1
  <2>5. \A k \in 0..Size : k # 0 => k \in 1..Size
    BY <1>1
  <2> HIDE DEF step, U
  <2>6. \A k \in 1..Size : h[k] = Admitting(h[k - 1], k - 1)
    BY <2>2, <2>3, <2>4
  <2>7. h = [k \in 0..Size |-> IF k = 0 THEN Direct(g) ELSE step[<<k, h[k - 1]>>]]
    BY <1>5 DEF IsUnrolled
  <2>8. h = [k \in 0..Size |-> IF k = 0 THEN Direct(g) ELSE Admitting(h[k - 1], k - 1)]
    BY <2>1, <2>5, <2>6, <2>7
  <2> QED BY <2>8, Zenon DEF Admitting
<1>7. ShortestDelays(g) = through[Size]
  BY Zenon DEF ShortestDelays, Direct
<1>8. Unfolds(through)
  <2>1. \E f : Unfolds(f)
    BY <1>6
  <2> QED BY <2>1, Zenon
<1> HIDE DEF through, Unfolds
<1> QED BY <1>4, <1>7, <1>8

(* In a connected graph they are distances, from every node.               *)
LEMMA DelaysAreDistances ==
  ASSUME NEW g \in ConnectedGraphs
  PROVE  /\ ShortestDelays(g) \in [NodeIds -> [NodeIds -> Nat]]
         /\ \A a \in NodeIds : ShortestDelays(g)[a][a] = 0
         /\ \A a, b, c \in NodeIds :
              ShortestDelays(g)[a][b] <= ShortestDelays(g)[a][c] + ShortestDelays(g)[c][b]
         /\ \A a \in NodeIds : IsDistanceFrom(ShortestDelays(g)[a], a, g)
         /\ \A a, b \in NodeIds : <<a, b>> \in DOMAIN g.delay =>
              ShortestDelays(g)[a][b] <= g.delay[<<a, b>>]
<1> DEFINE D == ShortestDelays(g)
<1>1. /\ IsGraph(g) /\ g.nodes = NodeIds /\ Connected(g) /\ Unreachable \in Nat
      /\ NodeIds \subseteq Nat /\ NodeIds = 0..(Size - 1) /\ Size \in Nat
  BY ConnectedGraphsAre, NodeIdsAre DEF NodeIds
<1>2. D \in AdmittedBefore(g, Size) /\ \A a, b \in NodeIds : D[a][b] < Unreachable
  BY <1>1, AllAdmitted DEF Connected
<1> HIDE DEF D
<1>3. D \in [NodeIds -> [NodeIds -> Nat]] /\ \A a \in NodeIds : D[a][a] = 0
  BY <1>2 DEF AdmittedBefore
<1>4. \A a, b, c \in NodeIds : D[a][b] <= D[a][c] + D[c][b]
  <2>1. \A c \in NodeIds : c < Size
    BY <1>1
  <2> QED BY <1>2, <2>1 DEF AdmittedBefore
<1>5. \A a, b \in NodeIds : <<a, b>> \in DOMAIN g.delay => D[a][b] <= g.delay[<<a, b>>]
  <2>1. \A a, b \in NodeIds : D[a][b] <= Direct(g)[a][b]
    BY <1>2 DEF AdmittedBefore
  <2>2. \A a, b \in NodeIds : <<a, b>> \in DOMAIN g.delay =>
          Direct(g)[a][b] = IF a = b THEN 0 ELSE g.delay[<<a, b>>]
    BY DEF Direct
  <2>3. \A a, b \in NodeIds : <<a, b>> \in DOMAIN g.delay => g.delay[<<a, b>>] \in Nat
    BY <1>1 DEF IsGraph
  <2>4. \A a, b \in NodeIds : D[a][b] \in Nat
    BY <1>3
  <2> QED BY <2>1, <2>2, <2>3, <2>4
<1>6. \A a, b \in NodeIds : a # b =>
        \E u \in NodeIds : <<u, b>> \in DOMAIN g.delay /\ D[a][u] + g.delay[<<u, b>>] <= D[a][b]
  BY <1>2 DEF AdmittedBefore
<1>7. ASSUME NEW a \in NodeIds PROVE IsDistanceFrom(D[a], a, g)
  <2>1. \A link \in DOMAIN g.delay :
          /\ g.delay[link] \in Nat
          /\ link = <<link[1], link[2]>> /\ link[1] \in NodeIds /\ link[2] \in NodeIds
    BY <1>1 DEF IsGraph
  <2>2. \A b \in NodeIds : D[a][b] \in Nat
    BY <1>3
  <2>3. \A u, b \in NodeIds : <<u, b>> \in DOMAIN g.delay => D[a][b] <= D[a][u] + g.delay[<<u, b>>]
    <3> SUFFICES ASSUME NEW u \in NodeIds, NEW b \in NodeIds, <<u, b>> \in DOMAIN g.delay
                 PROVE  D[a][b] <= D[a][u] + g.delay[<<u, b>>]
      OBVIOUS
    <3>1. D[a][b] <= D[a][u] + D[u][b] /\ D[u][b] <= g.delay[<<u, b>>]
      BY <1>4, <1>5
    <3>2. D[a][b] \in Nat /\ D[a][u] \in Nat /\ D[u][b] \in Nat /\ g.delay[<<u, b>>] \in Nat
      BY <1>3, <2>1
    <3> QED BY <3>1, <3>2
  <2>4. \A link \in DOMAIN g.delay : D[a][link[2]] <= D[a][link[1]] + g.delay[link]
    BY <2>1, <2>3
  <2>5. ASSUME NEW b \in NodeIds \ {a}
        PROVE  \E u \in NodeIds : <<u, b>> \in DOMAIN g.delay /\ D[a][b] = D[a][u] + g.delay[<<u, b>>]
    <3>1. PICK u \in NodeIds : <<u, b>> \in DOMAIN g.delay /\ D[a][u] + g.delay[<<u, b>>] <= D[a][b]
      BY <1>6
    <3>2. D[a][b] \in Nat /\ D[a][u] \in Nat /\ g.delay[<<u, b>>] \in Nat
      BY <2>1, <2>2, <3>1
    <3>3. D[a][b] <= D[a][u] + g.delay[<<u, b>>]
      BY <2>3, <3>1
    <3> QED BY <3>1, <3>2, <3>3
  <2> QED BY <1>1, <1>3, <2>2, <2>4, <2>5 DEF IsDistanceFrom
<1> QED BY <1>3, <1>4, <1>5, <1>7 DEF D

-----------------------------------------------------------------------------
(* One iteration of the search. *)

SearchStates(g) ==
  [distances : UNION {[S -> Nat] : S \in SUBSET g.nodes},
   previous : {<<>>} \union UNION {[S -> g.nodes] : S \in SUBSET g.nodes},
   heap : SUBSET (Nat \X g.nodes),
   found : BOOLEAN]

LEMMA HeapTopIs ==
  ASSUME NEW heap \in SUBSET (Nat \X Nat), heap # {}
  PROVE  HeapTop(heap) \in heap /\ \A y \in heap : HeapTop(heap)[1] <= y[1]
<1> DEFINE M == {x[1] : x \in heap}
<1>1. PICK n \in M : \A m \in M : n <= m
  <2>1. M \in SUBSET Nat /\ M # {}
    OBVIOUS
  <2> HIDE DEF M
  <2> QED BY <2>1, LeastMember
<1> DEFINE O == {o \in Nat : <<n, o>> \in heap}
<1>2. PICK o \in O : \A i \in O : o <= i
  <2>1. O \in SUBSET Nat /\ O # {}
    BY <1>1
  <2> HIDE DEF O
  <2> QED BY <2>1, LeastMember
<1>3. <<n, o>> \in heap /\ \A y \in heap : Before(<<n, o>>, y)
  <2> SUFFICES ASSUME NEW y \in heap PROVE Before(<<n, o>>, y)
    OBVIOUS
  <2>1. y = <<y[1], y[2]>> /\ y[1] \in Nat /\ y[2] \in Nat /\ n \in Nat /\ n <= y[1]
    BY <1>1
  <2>2. n = y[1] => o <= y[2]
    BY <1>2, <2>1
  <2> QED BY <2>1, <2>2 DEF Before
<1>4. HeapTop(heap) \in heap /\ \A y \in heap : Before(HeapTop(heap), y)
  BY <1>3, Zenon DEF HeapTop
<1>5. \A x, y \in heap : Before(x, y) => x[1] <= y[1]
  BY DEF Before
<1> QED BY <1>4, <1>5

(* The neighbours of v that are nearer over v, which is d away, and what   *)
(* the search becomes when they are told so.                               *)
Improved(g, s, d, v) ==
  {m \in Neighbors(g, v) : Improves(s.distances, m, d + g.delay[<<v, m>>])}

Relaxed(g, s, d, v) ==
  [distances |-> Assigned(s.distances, [m \in Improved(g, s, d, v) |-> d + g.delay[<<v, m>>]]),
   previous |-> Assigned(s.previous, [m \in Improved(g, s, d, v) |-> v]),
   heap |-> (s.heap \ {<<d, v>>}) \union {<<d + g.delay[<<v, m>>], m>> : m \in Improved(g, s, d, v)},
   found |-> s.found]

Popped(s, top, found) ==
  [distances |-> s.distances, previous |-> s.previous, heap |-> s.heap \ {top}, found |-> found]

LEMMA PoppedIs ==
  ASSUME NEW s, NEW top, NEW found, NEW r, r = Popped(s, top, found)
  PROVE  /\ r.distances = s.distances /\ r.previous = s.previous
         /\ r.heap = s.heap \ {top} /\ r.found = found
BY DEF Popped

StepsTo(g, goal, s, d, v, r) ==
  r = IF v = goal THEN Popped(s, <<d, v>>, TRUE)
      ELSE IF d > s.distances[v] THEN Popped(s, <<d, v>>, s.found)
      ELSE Relaxed(g, s, d, v)

LEMMA SearchStepIs ==
  ASSUME NEW g, NEW goal, NEW s, NEW d, NEW v, HeapTop(s.heap) = <<d, v>>
  PROVE  StepsTo(g, goal, s, d, v, SearchStep(g, goal, s))
<1>1. <<d, v>>[1] = d /\ <<d, v>>[2] = v
  OBVIOUS
<1> DEFINE Result(top, x, y) ==
             IF y = goal THEN Popped(s, top, TRUE)
             ELSE IF x > s.distances[y] THEN Popped(s, top, s.found)
             ELSE [distances |-> Assigned(s.distances,
                     [m \in Improved(g, s, x, y) |-> x + g.delay[<<y, m>>]]),
                   previous |-> Assigned(s.previous, [m \in Improved(g, s, x, y) |-> y]),
                   heap |-> (s.heap \ {top}) \union
                     {<<x + g.delay[<<y, m>>], m>> : m \in Improved(g, s, x, y)},
                   found |-> s.found]
<1>2. SearchStep(g, goal, s) = Result(HeapTop(s.heap), HeapTop(s.heap)[1], HeapTop(s.heap)[2])
  BY Zenon DEF SearchStep, Improved, DistanceOver, Popped
<1>3. SearchStep(g, goal, s) = Result(<<d, v>>, d, v)
  <2> HIDE DEF Result
  <2> QED BY <1>1, <1>2
<1> QED BY <1>3, Zenon DEF Relaxed, StepsTo

-----------------------------------------------------------------------------
(* What the search keeps.  dist is the distance from src.                  *)

Linked(g, u, n) == <<u, n>> \in DOMAIN g.delay

(* The distance of v is final, and its links have been relaxed.            *)
IsSettled(s, g, dist, v) ==
  /\ v \in DOMAIN s.distances /\ s.distances[v] = dist[v]
  /\ \A n \in g.nodes : Linked(g, v, n) =>
       n \in DOMAIN s.distances /\ s.distances[n] <= dist[v] + g.delay[<<v, n>>]

(* The predecessor of v has its final distance, and v has the one over it. *)
ReachedOver(s, g, dist, v, u) ==
  /\ v \in DOMAIN s.previous /\ u = s.previous[v]
  /\ u \in DOMAIN s.distances /\ s.distances[u] = dist[u]
  /\ Linked(g, u, v) /\ s.distances[v] = dist[u] + g.delay[<<u, v>>]

(* The pairs that can ever be pushed: links are relaxed from a final       *)
(* distance only.                                                          *)
Pushable(g, src, dist) ==
  {<<0, src>>} \union {<<dist[link[1]] + g.delay[link], link[2]>> : link \in DOMAIN g.delay}

SearchInv(s, g, src, goal, dist) ==
  /\ s \in SearchStates(g)
  /\ src \in DOMAIN s.distances /\ s.distances[src] = 0
  /\ \A v \in DOMAIN s.distances : dist[v] <= s.distances[v]
  /\ \A x \in s.heap :
       x \in Pushable(g, src, dist) /\ x[2] \in DOMAIN s.distances /\ s.distances[x[2]] <= x[1]
  /\ ~s.found => \A v \in DOMAIN s.distances :
       <<s.distances[v], v>> \in s.heap \/ IsSettled(s, g, dist, v)
  /\ \A v \in DOMAIN s.distances \ {src} : \E u \in g.nodes : ReachedOver(s, g, dist, v, u)
  /\ s.found => goal \in DOMAIN s.distances /\ s.distances[goal] = dist[goal]

LEMMA SearchStatesAre ==
  ASSUME NEW g, NEW s \in SearchStates(g)
  PROVE  /\ DOMAIN s.distances \subseteq g.nodes
         /\ \A v \in DOMAIN s.distances : s.distances[v] \in Nat
         /\ s.heap \in SUBSET (Nat \X g.nodes) /\ s.found \in BOOLEAN
<1>1. PICK S \in SUBSET g.nodes : s.distances \in [S -> Nat]
  BY DEF SearchStates
<1>2. s.heap \in SUBSET (Nat \X g.nodes) /\ s.found \in BOOLEAN
  BY DEF SearchStates
<1> QED BY <1>1, <1>2

(* While a node is not settled, the heap has a pair no farther than it.    *)
LEMMA HeapReachesOut ==
  ASSUME NEW g, IsGraph(g), NEW src \in g.nodes, NEW goal, NEW dist, IsDistanceFrom(dist, src, g),
         NEW s, SearchInv(s, g, src, goal, dist), ~s.found,
         NEW v \in g.nodes, ~IsSettled(s, g, dist, v)
  PROVE  \E x \in s.heap : x[1] <= dist[v]
<1> DEFINE Open == {n \in g.nodes : ~IsSettled(s, g, dist, n)}
<1>1. \A n \in g.nodes : dist[n] \in Nat
  BY DEF IsDistanceFrom
<1>2. PICK n \in Open : \A m \in Open : dist[n] <= dist[m]
  <2>1. Open # {} /\ \A m \in Open : dist[m] \in Nat
    BY <1>1
  <2> HIDE DEF Open
  <2> QED BY <2>1, NearestOf
<1>3. dist[n] <= dist[v] /\ n \in g.nodes
  BY <1>2
<1>4. \A u \in g.nodes : dist[u] < dist[n] => IsSettled(s, g, dist, u)
  BY <1>1, <1>2
<1>5. s \in SearchStates(g) /\ \A u \in DOMAIN s.distances : s.distances[u] \in Nat
  BY SearchStatesAre DEF SearchInv
<1>6. n \in DOMAIN s.distances => <<s.distances[n], n>> \in s.heap
  BY <1>2 DEF SearchInv
<1>7. n \in DOMAIN s.distances /\ s.distances[n] <= dist[n]
  <2>1. CASE n = src
    <3>1. src \in DOMAIN s.distances /\ s.distances[src] = 0
      BY DEF SearchInv
    <3> QED BY <1>1, <2>1, <3>1
  <2>2. CASE n # src
    <3>1. PICK u \in g.nodes : <<u, n>> \in DOMAIN g.delay /\ dist[n] = dist[u] + g.delay[<<u, n>>]
      BY <1>3, <2>2 DEF IsDistanceFrom
    <3>2. g.delay[<<u, n>>] \in Nat \ {0}
      BY <3>1 DEF IsGraph
    <3>3. IsSettled(s, g, dist, u)
      BY <1>1, <1>3, <1>4, <3>1, <3>2
    <3> QED BY <1>3, <3>1, <3>3 DEF IsSettled, Linked
  <2> QED BY <2>1, <2>2
<1>8. <<s.distances[n], n>> \in s.heap /\ s.distances[n] <= dist[v]
  BY <1>1, <1>3, <1>5, <1>6, <1>7
<1> QED BY <1>8

(* The nearest pair is of a node whose distance is final.                  *)
LEMMA TopIsFinal ==
  ASSUME NEW g, IsGraph(g), NEW src \in g.nodes, NEW goal, NEW dist, IsDistanceFrom(dist, src, g),
         NEW s, SearchInv(s, g, src, goal, dist), ~s.found, s.heap # {},
         NEW top, top = HeapTop(s.heap)
  PROVE  /\ top \in s.heap /\ top = <<top[1], top[2]>> /\ top[1] \in Nat /\ top[2] \in g.nodes
         /\ top[2] \in DOMAIN s.distances /\ s.distances[top[2]] = dist[top[2]]
         /\ dist[top[2]] <= top[1]
<1>1. s \in SearchStates(g) /\ s.heap \in SUBSET (Nat \X g.nodes)
      /\ \A u \in DOMAIN s.distances : s.distances[u] \in Nat
  BY SearchStatesAre DEF SearchInv
<1>2. top \in s.heap /\ \A y \in s.heap : top[1] <= y[1]
  <2>1. s.heap \in SUBSET (Nat \X Nat)
    BY <1>1 DEF IsGraph
  <2> QED BY <2>1, HeapTopIs
<1>3. top = <<top[1], top[2]>> /\ top[1] \in Nat /\ top[2] \in g.nodes
  BY <1>1, <1>2
<1>4. /\ top[2] \in DOMAIN s.distances /\ s.distances[top[2]] <= top[1]
      /\ dist[top[2]] <= s.distances[top[2]]
  BY <1>2 DEF SearchInv
<1>5. dist[top[2]] \in Nat
  BY <1>3 DEF IsDistanceFrom
<1>6. s.distances[top[2]] = dist[top[2]]
  <2>1. CASE IsSettled(s, g, dist, top[2])
    BY <2>1 DEF IsSettled
  <2>2. CASE ~IsSettled(s, g, dist, top[2])
    <3>1. PICK x \in s.heap : x[1] <= dist[top[2]]
      BY <1>3, <2>2, HeapReachesOut
    <3>2. top[1] <= x[1] /\ x[1] \in Nat
      BY <1>1, <1>2
    <3> QED BY <1>1, <1>3, <1>4, <1>5, <3>1, <3>2
  <2> QED BY <2>1, <2>2
<1> QED BY <1>2, <1>3, <1>4, <1>5, <1>6

(* What relaxing the links of a popped node leaves.                        *)
RelaxedTo(g, s, d, v, I, r) ==
  /\ I \subseteq g.nodes
  /\ \A m \in I : /\ Linked(g, v, m) /\ g.delay[<<v, m>>] \in Nat \ {0}
                  /\ m \in DOMAIN s.distances => d + g.delay[<<v, m>>] < s.distances[m]
  /\ \A m \in g.nodes \ I : Linked(g, v, m) =>
       m \in DOMAIN s.distances /\ s.distances[m] <= d + g.delay[<<v, m>>]
  /\ DOMAIN r.distances = DOMAIN s.distances \union I
  /\ \A m \in I : r.distances[m] = d + g.delay[<<v, m>>]
  /\ \A m \in DOMAIN s.distances \ I : r.distances[m] = s.distances[m]
  /\ DOMAIN r.previous = DOMAIN s.previous \union I
  /\ \A m \in I : r.previous[m] = v
  /\ \A m \in DOMAIN s.previous \ I : r.previous[m] = s.previous[m]
  /\ r.heap = (s.heap \ {<<d, v>>}) \union {<<d + g.delay[<<v, m>>], m>> : m \in I}
  /\ r.found = s.found
  /\ r \in SearchStates(g)

LEMMA RelaxedIs ==
  ASSUME NEW g, IsGraph(g), NEW s \in SearchStates(g), NEW v \in g.nodes, NEW d \in Nat,
         NEW I, I = Improved(g, s, d, v), NEW r, r = Relaxed(g, s, d, v)
  PROVE  RelaxedTo(g, s, d, v, I, r)
<1>1. /\ DOMAIN s.distances \subseteq g.nodes /\ s.heap \in SUBSET (Nat \X g.nodes) /\ s.found \in BOOLEAN
      /\ \A n \in DOMAIN s.distances : s.distances[n] \in Nat
  BY SearchStatesAre
<1>2. I = {m \in g.nodes : Linked(g, v, m) /\ Improves(s.distances, m, d + g.delay[<<v, m>>])}
  BY DEF Improved, Neighbors, Linked
<1>3. I \subseteq g.nodes
  BY <1>2
<1>4. \A m \in I : /\ Linked(g, v, m) /\ g.delay[<<v, m>>] \in Nat \ {0}
                   /\ m \in DOMAIN s.distances => d + g.delay[<<v, m>>] < s.distances[m]
  BY <1>2 DEF Linked, IsGraph, Improves
<1>5. \A m \in g.nodes \ I : Linked(g, v, m) =>
        m \in DOMAIN s.distances /\ s.distances[m] <= d + g.delay[<<v, m>>]
  BY <1>1, <1>2 DEF Linked, IsGraph, Improves
<1> HIDE <1>2
<1> DEFINE over == [m \in I |-> d + g.delay[<<v, m>>]]
           by == [m \in I |-> v]
           pushed == {<<d + g.delay[<<v, m>>], m>> : m \in I}
<1>6. over \in [I -> Nat] /\ \A m \in I : over[m] = d + g.delay[<<v, m>>]
  BY <1>4
<1>7. by \in [I -> g.nodes] /\ \A m \in I : by[m] = v
  OBVIOUS
<1>8. pushed \in SUBSET (Nat \X g.nodes)
  <2> SUFFICES ASSUME NEW m \in I PROVE <<d + g.delay[<<v, m>>], m>> \in Nat \X g.nodes
    OBVIOUS
  <2>1. m \in g.nodes /\ d + g.delay[<<v, m>>] \in Nat
    BY <1>3, <1>4
  <2> QED BY <2>1
<1>9. /\ r.distances = Assigned(s.distances, over) /\ r.previous = Assigned(s.previous, by)
      /\ r.heap = (s.heap \ {<<d, v>>}) \union pushed /\ r.found = s.found
      /\ r = [distances |-> r.distances, previous |-> r.previous, heap |-> r.heap, found |-> r.found]
  <2> HIDE DEF over, by, pushed
  <2>1. r = [distances |-> Assigned(s.distances, over), previous |-> Assigned(s.previous, by),
             heap |-> (s.heap \ {<<d, v>>}) \union pushed, found |-> s.found]
    BY Zenon DEF over, by, pushed, Relaxed
  <2> QED BY <2>1
<1> HIDE DEF over, by, pushed
<1>10. /\ DOMAIN r.distances = DOMAIN s.distances \union I
       /\ \A m \in I : r.distances[m] = over[m]
       /\ \A m \in DOMAIN s.distances \ I : r.distances[m] = s.distances[m]
       /\ r.distances \in [DOMAIN s.distances \union I -> Nat]
  <2>1. r.distances = [n \in DOMAIN s.distances \union I |-> IF n \in I THEN over[n] ELSE s.distances[n]]
    BY <1>6, <1>9 DEF Assigned
  <2> QED BY <1>1, <1>6, <2>1
<1>11. /\ DOMAIN r.previous = DOMAIN s.previous \union I
       /\ \A m \in I : r.previous[m] = v
       /\ \A m \in DOMAIN s.previous \ I : r.previous[m] = s.previous[m]
       /\ DOMAIN s.previous \union I \in SUBSET g.nodes
       /\ r.previous \in [DOMAIN s.previous \union I -> g.nodes]
  <2>1. r.previous = [n \in DOMAIN s.previous \union I |-> IF n \in I THEN by[n] ELSE s.previous[n]]
    BY <1>7, <1>9 DEF Assigned
  <2>2. DOMAIN s.previous \subseteq g.nodes /\ \A n \in DOMAIN s.previous : s.previous[n] \in g.nodes
    <3>1. s.previous = <<>> \/ \E S \in SUBSET g.nodes : s.previous \in [S -> g.nodes]
      BY DEF SearchStates
    <3>2. CASE s.previous = <<>>
      BY <3>2
    <3>3. CASE \E S \in SUBSET g.nodes : s.previous \in [S -> g.nodes]
      BY <3>3
    <3> QED BY <3>1, <3>2, <3>3
  <2> QED BY <1>3, <1>7, <2>1, <2>2
<1>12. r \in SearchStates(g)
  <2>1. DOMAIN s.distances \union I \in SUBSET g.nodes
    BY <1>1, <1>3
  <2>2. r.distances \in UNION {[S -> Nat] : S \in SUBSET g.nodes}
    BY <1>10, <2>1
  <2>3. r.previous \in UNION {[S -> g.nodes] : S \in SUBSET g.nodes}
    BY <1>11
  <2>4. r.heap \in SUBSET (Nat \X g.nodes) /\ r.found \in BOOLEAN
    BY <1>1, <1>8, <1>9
  <2> QED BY <1>9, <2>2, <2>3, <2>4, Zenon DEF SearchStates
<1> QED BY <1>3, <1>4, <1>5, <1>6, <1>9, <1>10, <1>11, <1>12 DEF RelaxedTo, pushed

(* Popping the destination, or a pair that is out of date.                 *)
LEMMA PoppedKeeps ==
  ASSUME NEW g, IsGraph(g), NEW src \in g.nodes, NEW goal, NEW dist,
         NEW s, SearchInv(s, g, src, goal, dist), ~s.found,
         NEW top \in s.heap, NEW found \in BOOLEAN,
         top[2] \in DOMAIN s.distances, s.distances[top[2]] = dist[top[2]],
         found => top[2] = goal, ~found => top[1] # s.distances[top[2]]
  PROVE  SearchInv(Popped(s, top, found), g, src, goal, dist)
<1> DEFINE r == Popped(s, top, found)
<1>1. /\ r.distances = s.distances /\ r.previous = s.previous
      /\ r.heap = s.heap \ {top} /\ r.found = found
  BY PoppedIs
<1>2. r \in SearchStates(g)
  <2>1. s \in SearchStates(g)
    BY DEF SearchInv
  <2>2. /\ s.distances \in UNION {[S -> Nat] : S \in SUBSET g.nodes}
        /\ s.previous \in {<<>>} \union UNION {[S -> g.nodes] : S \in SUBSET g.nodes}
        /\ s.heap \ {top} \in SUBSET (Nat \X g.nodes)
    BY <2>1 DEF SearchStates
  <2> QED BY <2>2, Zenon DEF Popped, SearchStates
<1> HIDE DEF r
<1>3. /\ src \in DOMAIN r.distances /\ r.distances[src] = 0
      /\ \A v \in DOMAIN r.distances : dist[v] <= r.distances[v]
  BY <1>1 DEF SearchInv
<1>4. \A x \in r.heap :
        x \in Pushable(g, src, dist) /\ x[2] \in DOMAIN r.distances /\ r.distances[x[2]] <= x[1]
  BY <1>1 DEF SearchInv
<1>5. ASSUME ~r.found, NEW v \in DOMAIN r.distances
      PROVE  <<r.distances[v], v>> \in r.heap \/ IsSettled(r, g, dist, v)
  <2>1. <<s.distances[v], v>> \in s.heap \/ IsSettled(s, g, dist, v)
    BY <1>1, <1>5 DEF SearchInv
  <2>2. <<s.distances[v], v>> # top
    BY <1>1, <1>5
  <2>3. IsSettled(s, g, dist, v) => IsSettled(r, g, dist, v)
    BY <1>1 DEF IsSettled
  <2> QED BY <1>1, <2>1, <2>2, <2>3
<1>6. \A v \in DOMAIN r.distances \ {src} : \E u \in g.nodes : ReachedOver(r, g, dist, v, u)
  <2>1. \A v \in DOMAIN s.distances \ {src} : \E u \in g.nodes : ReachedOver(s, g, dist, v, u)
    BY DEF SearchInv
  <2>2. \A v, u : ReachedOver(s, g, dist, v, u) => ReachedOver(r, g, dist, v, u)
    BY <1>1 DEF ReachedOver
  <2> QED BY <1>1, <2>1, <2>2
<1>7. r.found => goal \in DOMAIN r.distances /\ r.distances[goal] = dist[goal]
  BY <1>1
<1>8. SearchInv(r, g, src, goal, dist)
  BY <1>2, <1>3, <1>4, <1>5, <1>6, <1>7, Zenon DEF SearchInv
<1> QED BY <1>8 DEF r

(* Relaxing the links of a node whose distance is final.                   *)
LEMMA RelaxedKeeps ==
  ASSUME NEW g, IsGraph(g), NEW src \in g.nodes, NEW goal, NEW dist, IsDistanceFrom(dist, src, g),
         NEW s, SearchInv(s, g, src, goal, dist), ~s.found,
         NEW d \in Nat, NEW v \in g.nodes, v \in DOMAIN s.distances,
         s.distances[v] = dist[v], d = dist[v]
  PROVE  SearchInv(Relaxed(g, s, d, v), g, src, goal, dist)
<1> DEFINE r == Relaxed(g, s, d, v)
           I == Improved(g, s, d, v)
           over(m) == d + g.delay[<<v, m>>]
<1>1. s \in SearchStates(g)
  BY DEF SearchInv
<1> HIDE DEF r, I
<1>1a. RelaxedTo(g, s, d, v, I, r)
  BY <1>1, RelaxedIs DEF r, I
<1>2. /\ I \subseteq g.nodes
      /\ \A m \in I : /\ Linked(g, v, m) /\ g.delay[<<v, m>>] \in Nat \ {0}
                      /\ m \in DOMAIN s.distances => over(m) < s.distances[m]
      /\ \A m \in g.nodes \ I : Linked(g, v, m) =>
           m \in DOMAIN s.distances /\ s.distances[m] <= over(m)
      /\ DOMAIN r.distances = DOMAIN s.distances \union I
      /\ \A m \in I : r.distances[m] = over(m)
      /\ \A m \in DOMAIN s.distances \ I : r.distances[m] = s.distances[m]
  BY <1>1a DEF RelaxedTo
<1>3. /\ DOMAIN r.previous = DOMAIN s.previous \union I
      /\ \A m \in I : r.previous[m] = v
      /\ \A m \in DOMAIN s.previous \ I : r.previous[m] = s.previous[m]
      /\ r.heap = (s.heap \ {<<d, v>>}) \union {<<over(m), m>> : m \in I}
      /\ r.found = s.found
      /\ r \in SearchStates(g)
  BY <1>1a DEF RelaxedTo
<1>4. /\ DOMAIN s.distances \subseteq g.nodes
      /\ \A n \in DOMAIN s.distances : s.distances[n] \in Nat
  BY <1>1, SearchStatesAre
<1>5. /\ \A n \in g.nodes : dist[n] \in Nat
      /\ \A m \in I : dist[m] <= over(m)
  BY <1>2 DEF IsDistanceFrom, Linked
<1>6. /\ src \in DOMAIN s.distances /\ s.distances[src] = 0
      /\ \A n \in DOMAIN s.distances : dist[n] <= s.distances[n]
      /\ \A x \in s.heap :
           x \in Pushable(g, src, dist) /\ x[2] \in DOMAIN s.distances /\ s.distances[x[2]] <= x[1]
      /\ \A n \in DOMAIN s.distances : <<s.distances[n], n>> \in s.heap \/ IsSettled(s, g, dist, n)
      /\ \A n \in DOMAIN s.distances \ {src} : \E u \in g.nodes : ReachedOver(s, g, dist, n, u)
  BY DEF SearchInv
<1>6a. /\ \A m \in I : over(m) \in Nat /\ over(m) > dist[v]
  BY <1>2, <1>5
<1>7. \A n \in DOMAIN r.distances : r.distances[n] \in Nat /\ n \in g.nodes /\ dist[n] <= r.distances[n]
  <2> SUFFICES ASSUME NEW n \in DOMAIN r.distances
               PROVE  r.distances[n] \in Nat /\ n \in g.nodes /\ dist[n] <= r.distances[n]
    OBVIOUS
  <2>1. CASE n \in I
    <3>1. r.distances[n] = over(n) /\ n \in g.nodes
      BY <1>2, <2>1
    <3> QED BY <1>5, <1>6a, <2>1, <3>1
  <2>2. CASE n \notin I
    <3>1. n \in DOMAIN s.distances /\ r.distances[n] = s.distances[n]
      BY <1>2, <2>2
    <3> QED BY <1>4, <1>6, <3>1
  <2> QED BY <2>1, <2>2
<1>8. \A n \in DOMAIN s.distances : n \in DOMAIN r.distances /\ r.distances[n] <= s.distances[n]
  <2> SUFFICES ASSUME NEW n \in DOMAIN s.distances
               PROVE  n \in DOMAIN r.distances /\ r.distances[n] <= s.distances[n]
    OBVIOUS
  <2>1. CASE n \in I
    <3>1. r.distances[n] = over(n) /\ n \in DOMAIN r.distances /\ over(n) < s.distances[n]
      BY <1>2, <2>1
    <3> QED BY <1>4, <1>6a, <2>1, <3>1
  <2>2. CASE n \notin I
    <3>1. n \in DOMAIN r.distances /\ r.distances[n] = s.distances[n]
      BY <1>2, <2>2
    <3> QED BY <1>4, <3>1
  <2> QED BY <2>1, <2>2
(* A final distance stays. *)
<1>9. ASSUME NEW n \in DOMAIN s.distances, s.distances[n] = dist[n]
      PROVE  n \notin I /\ r.distances[n] = dist[n]
  <2>1. n \notin I
    <3> SUFFICES ASSUME n \in I PROVE FALSE
      OBVIOUS
    <3>1. over(n) < s.distances[n] /\ dist[n] <= over(n)
      BY <1>2, <1>5
    <3> QED BY <1>4, <1>9, <1>6a, <3>1
  <2> QED BY <1>2, <1>9, <2>1
<1>10. src \in DOMAIN r.distances /\ r.distances[src] = 0
  <2>1. dist[src] = 0
    BY DEF IsDistanceFrom
  <2> QED BY <1>6, <1>8, <1>9, <2>1
<1>11. ASSUME NEW x \in r.heap
       PROVE  x \in Pushable(g, src, dist) /\ x[2] \in DOMAIN r.distances /\ r.distances[x[2]] <= x[1]
  <2>1. CASE x \in s.heap
    <3>1. x \in Pushable(g, src, dist) /\ x[2] \in DOMAIN s.distances /\ s.distances[x[2]] <= x[1]
      BY <1>6, <2>1
    <3>2. x[1] \in Nat
      BY <1>1, <2>1, SearchStatesAre
    <3>3. x[2] \in DOMAIN r.distances /\ r.distances[x[2]] <= s.distances[x[2]]
      BY <1>8, <3>1
    <3>4. r.distances[x[2]] \in Nat /\ s.distances[x[2]] \in Nat
      BY <1>4, <1>7, <3>1, <3>3
    <3> QED BY <3>1, <3>2, <3>3, <3>4
  <2>2. ASSUME NEW m \in I, x = <<over(m), m>>
        PROVE  x \in Pushable(g, src, dist) /\ x[2] \in DOMAIN r.distances /\ r.distances[x[2]] <= x[1]
    <3>1. <<v, m>> \in DOMAIN g.delay /\ <<v, m>>[1] = v /\ <<v, m>>[2] = m
      BY <1>2 DEF Linked
    <3>2. x = <<dist[v] + g.delay[<<v, m>>], m>>
      BY <2>2
    <3>3. x \in Pushable(g, src, dist)
      BY <3>1, <3>2 DEF Pushable
    <3>4. x[2] \in DOMAIN r.distances /\ r.distances[x[2]] = x[1] /\ r.distances[x[2]] \in Nat
      BY <1>2, <1>7, <2>2
    <3> QED BY <3>3, <3>4
  <2> QED BY <1>3, <2>1, <2>2
<1>12. ASSUME NEW n \in DOMAIN r.distances
       PROVE  <<r.distances[n], n>> \in r.heap \/ IsSettled(r, g, dist, n)
  <2>1. CASE n \in I
    BY <1>2, <1>3, <2>1
  <2>2. CASE n = v
    <3>1. r.distances[v] = dist[v] /\ v \in DOMAIN r.distances
      BY <1>8, <1>9
    <3>2. ASSUME NEW m \in g.nodes, Linked(g, v, m)
          PROVE  m \in DOMAIN r.distances /\ r.distances[m] <= over(m)
      <4>1. CASE m \in I
        BY <1>2, <1>7, <4>1
      <4>2. CASE m \notin I
        BY <1>2, <3>2, <4>2
      <4> QED BY <4>1, <4>2
    <3> QED BY <2>2, <3>1, <3>2 DEF IsSettled
  <2>3. CASE n \notin I /\ n # v
    <3>1. n \in DOMAIN s.distances /\ r.distances[n] = s.distances[n]
      BY <1>2, <2>3
    <3>2. CASE <<s.distances[n], n>> \in s.heap
      BY <1>3, <2>3, <3>1, <3>2
    <3>3. CASE IsSettled(s, g, dist, n)
      <4>1. ASSUME NEW m \in g.nodes, Linked(g, n, m)
            PROVE  m \in DOMAIN r.distances /\ r.distances[m] <= dist[n] + g.delay[<<n, m>>]
        <5>1. m \in DOMAIN s.distances /\ s.distances[m] <= dist[n] + g.delay[<<n, m>>]
          BY <3>3, <4>1 DEF IsSettled
        <5>2. g.delay[<<n, m>>] \in Nat /\ dist[n] \in Nat
          BY <1>4, <1>5, <3>1, <4>1 DEF Linked, IsGraph
        <5> QED BY <1>4, <1>7, <1>8, <5>1, <5>2
      <4> QED BY <1>8, <3>1, <3>3, <4>1 DEF IsSettled
    <3> QED BY <1>6, <3>1, <3>2, <3>3
  <2> QED BY <2>1, <2>2, <2>3
<1>13. ASSUME NEW n \in DOMAIN r.distances \ {src}
       PROVE  \E u \in g.nodes : ReachedOver(r, g, dist, n, u)
  <2>1. CASE n \in I
    <3>1. v \in DOMAIN r.distances /\ r.distances[v] = dist[v]
      BY <1>8, <1>9
    <3>2. ReachedOver(r, g, dist, n, v)
      BY <1>2, <1>3, <2>1, <3>1 DEF ReachedOver
    <3> QED BY <3>2
  <2>2. CASE n \notin I
    <3>1. n \in DOMAIN s.distances \ {src} /\ r.distances[n] = s.distances[n]
      BY <1>2, <2>2
    <3>2. PICK u \in g.nodes : ReachedOver(s, g, dist, n, u)
      BY <1>6, <3>1
    <3>3. u \in DOMAIN r.distances /\ r.distances[u] = dist[u]
      BY <1>8, <1>9, <3>2 DEF ReachedOver
    <3>4. ReachedOver(r, g, dist, n, u)
      BY <1>3, <2>2, <3>1, <3>2, <3>3 DEF ReachedOver
    <3> QED BY <3>4
  <2> QED BY <2>1, <2>2
<1>14. SearchInv(r, g, src, goal, dist)
  <2>1. ~r.found
    BY <1>3
  <2>2. \A n \in DOMAIN r.distances : dist[n] <= r.distances[n]
    BY <1>7
  <2>3. r \in SearchStates(g)
    BY <1>3
  <2> QED BY <1>10, <1>11, <1>12, <1>13, <2>1, <2>2, <2>3, Zenon DEF SearchInv
<1> QED BY <1>14 DEF r

LEMMA SearchStepKeeps ==
  ASSUME NEW g, IsGraph(g), NEW src \in g.nodes, NEW goal, NEW dist, IsDistanceFrom(dist, src, g),
         NEW s, SearchInv(s, g, src, goal, dist), ~s.found, s.heap # {}
  PROVE  SearchInv(SearchStep(g, goal, s), g, src, goal, dist)
<1> DEFINE top == HeapTop(s.heap)
           d == top[1]
           v == top[2]
<1>1. /\ top \in s.heap /\ top = <<d, v>> /\ d \in Nat /\ v \in g.nodes
      /\ v \in DOMAIN s.distances /\ s.distances[v] = dist[v] /\ dist[v] <= d
  BY TopIsFinal
<1>2. dist[v] \in Nat
  BY <1>1 DEF IsDistanceFrom
<1>3. StepsTo(g, goal, s, d, v, SearchStep(g, goal, s))
  <2>1. HeapTop(s.heap) = <<d, v>>
    BY <1>1
  <2> HIDE DEF d, v
  <2> QED BY <2>1, SearchStepIs
<1> HIDE DEF top, d, v
<1>4. CASE v = goal
  <2>1. SearchInv(Popped(s, top, TRUE), g, src, goal, dist)
    BY <1>1, <1>4, PoppedKeeps DEF d, v
  <2> QED BY <1>1, <1>3, <1>4, <2>1 DEF StepsTo
<1>5. CASE v # goal /\ d > s.distances[v]
  <2>1. SearchInv(Popped(s, top, FALSE), g, src, goal, dist)
    <3>1. top[1] # s.distances[top[2]] /\ top[2] \in DOMAIN s.distances /\ s.distances[top[2]] = dist[top[2]]
      BY <1>1, <1>2, <1>5 DEF d, v
    <3>2. FALSE \in BOOLEAN
      OBVIOUS
    <3> QED BY <1>1, <3>1, <3>2, PoppedKeeps, Zenon
  <2>2. s.found = FALSE
    BY SearchStatesAre DEF SearchInv
  <2> QED BY <1>1, <1>3, <1>5, <2>1, <2>2 DEF StepsTo
<1>6. CASE v # goal /\ ~(d > s.distances[v])
  <2>1. d = dist[v]
    BY <1>1, <1>2, <1>6
  <2>2. SearchInv(Relaxed(g, s, d, v), g, src, goal, dist)
    BY <1>1, <2>1, RelaxedKeeps
  <2> QED BY <1>3, <1>6, <2>2 DEF StepsTo
<1> QED BY <1>4, <1>5, <1>6

-----------------------------------------------------------------------------
(* The search ends: a pair is pushed once at most, and there is one for    *)
(* every link, and the first.                                              *)

LEMMA PushableSize ==
  ASSUME NEW g, IsGraph(g), NEW src, NEW dist
  PROVE  /\ IsFiniteSet(DOMAIN g.delay) /\ IsFiniteSet(Pushable(g, src, dist))
         /\ Cardinality(DOMAIN g.delay) \in Nat
         /\ Cardinality(Pushable(g, src, dist)) <= Cardinality(DOMAIN g.delay) + 1
<1> DEFINE L == DOMAIN g.delay
           pair(link) == <<dist[link[1]] + g.delay[link], link[2]>>
           over == {pair(link) : link \in L}
           f == [link \in L |-> pair(link)]
<1>1. IsFiniteSet(L) /\ Cardinality(L) \in Nat
  <2>1. IsFiniteSet(g.nodes) /\ L \subseteq g.nodes \X g.nodes
    BY DEF IsGraph
  <2>2. IsFiniteSet(g.nodes \X g.nodes)
    BY <2>1, FS_Product
  <2> HIDE DEF L
  <2>3. IsFiniteSet(L)
    BY <2>1, <2>2, FS_Subset
  <2> QED BY <2>3, FS_CardinalityType
<1>2. f \in Surjection(L, over)
  BY DEF Surjection
<1> HIDE DEF L, f, over
<1>3. IsFiniteSet(over) /\ Cardinality(over) <= Cardinality(L) /\ Cardinality(over) \in Nat
  BY <1>1, <1>2, FS_Surjection, FS_CardinalityType
<1>4. /\ IsFiniteSet(over \union {<<0, src>>})
      /\ Cardinality(over \union {<<0, src>>}) \in {Cardinality(over), Cardinality(over) + 1}
  BY <1>3, FS_AddElement
<1>5. Pushable(g, src, dist) = over \union {<<0, src>>}
  BY DEF Pushable, over, L
<1> QED BY <1>1, <1>3, <1>4, <1>5 DEF L

(* k pairs have been popped, unless the loop is over. *)
PoppedSoFar(s, g, src, dist, k) ==
  \/ s.found \/ s.heap = {}
  \/ \E X \in SUBSET Pushable(g, src, dist) :
       /\ Cardinality(X) = k
       /\ \A x \in X : /\ x \notin s.heap
                      /\ x[2] \in DOMAIN s.distances /\ s.distances[x[2]] <= x[1]

LEMMA SearchStepCounts ==
  ASSUME NEW g, IsGraph(g), NEW src \in g.nodes, NEW goal, NEW dist, IsDistanceFrom(dist, src, g),
         NEW s, SearchInv(s, g, src, goal, dist), ~s.found, s.heap # {},
         NEW k \in Nat, PoppedSoFar(s, g, src, dist, k)
  PROVE  PoppedSoFar(SearchStep(g, goal, s), g, src, dist, k + 1)
<1> DEFINE top == HeapTop(s.heap)
           d == top[1]
           v == top[2]
           P == Pushable(g, src, dist)
<1>1. /\ top \in s.heap /\ top = <<d, v>> /\ d \in Nat /\ v \in g.nodes
      /\ v \in DOMAIN s.distances /\ s.distances[v] = dist[v] /\ dist[v] <= d
  BY TopIsFinal
<1>2. StepsTo(g, goal, s, d, v, SearchStep(g, goal, s))
  <2>1. HeapTop(s.heap) = <<d, v>>
    BY <1>1
  <2> HIDE DEF d, v
  <2> QED BY <2>1, SearchStepIs
<1>3. PICK X \in SUBSET P :
        /\ Cardinality(X) = k
        /\ \A x \in X : /\ x \notin s.heap
                       /\ x[2] \in DOMAIN s.distances /\ s.distances[x[2]] <= x[1]
  BY DEF PoppedSoFar
<1>4. top \in P /\ top \notin X /\ v = top[2] /\ d = top[1] /\ s.distances[v] <= d
  BY <1>1, <1>3 DEF SearchInv
<1> HIDE DEF top, d, v
<1> DEFINE Y == X \union {top}
<1>5. Y \in SUBSET P /\ Cardinality(Y) = k + 1
  <2>1. IsFiniteSet(P)
    BY PushableSize
  <2>2. IsFiniteSet(X)
    <3> HIDE DEF P
    <3> QED BY <2>1, FS_Subset
  <2> QED BY <1>3, <1>4, <2>2, FS_AddElement
<1>6. \A x \in Y : x[2] \in DOMAIN s.distances /\ s.distances[x[2]] <= x[1]
  BY <1>1, <1>3, <1>4
<1>7. \A x \in Y : x \notin s.heap \ {top}
  BY <1>3
<1>8. s \in SearchStates(g) /\ \A n \in DOMAIN s.distances : s.distances[n] \in Nat
  BY SearchStatesAre DEF SearchInv
<1>9. \A x \in P : x[1] \in Nat
  <2>1. \A link \in DOMAIN g.delay : dist[link[1]] + g.delay[link] \in Nat
    BY DEF IsGraph, IsDistanceFrom
  <2> QED BY <2>1 DEF Pushable
<1>10. CASE v = goal \/ d > s.distances[v]
  <2>1. PICK found : SearchStep(g, goal, s) = Popped(s, top, found)
    BY <1>1, <1>2, <1>10 DEF StepsTo
  <2> DEFINE r == Popped(s, top, found)
  <2>2. r.distances = s.distances /\ r.heap = s.heap \ {top}
    BY PoppedIs
  <2> HIDE DEF r, Y
  <2>3. PoppedSoFar(r, g, src, dist, k + 1)
    BY <1>5, <1>6, <1>7, <2>2 DEF PoppedSoFar
  <2> QED BY <2>1, <2>3 DEF r
<1>11. CASE ~(v = goal \/ d > s.distances[v])
  <2> DEFINE r == Relaxed(g, s, d, v)
             I == Improved(g, s, d, v)
  <2>1. RelaxedTo(g, s, d, v, I, r)
    BY <1>1, <1>8, RelaxedIs
  <2> HIDE DEF r, I
  <2>2. ASSUME NEW x \in Y
        PROVE  x \notin r.heap /\ x[2] \in DOMAIN r.distances /\ r.distances[x[2]] <= x[1]
    <3>1. x[2] \in DOMAIN s.distances /\ s.distances[x[2]] <= x[1] /\ x[1] \in Nat
      BY <1>5, <1>6, <1>9
    <3>2. CASE x[2] \in I
      <4>1. /\ d + g.delay[<<v, x[2]>>] < s.distances[x[2]] /\ g.delay[<<v, x[2]>>] \in Nat
            /\ r.distances[x[2]] = d + g.delay[<<v, x[2]>>] /\ x[2] \in DOMAIN r.distances
        BY <2>1, <3>1, <3>2 DEF RelaxedTo
      <4>2. d + g.delay[<<v, x[2]>>] < x[1]
        BY <1>1, <1>8, <3>1, <4>1
      <4>3. \A m \in I : x # <<d + g.delay[<<v, m>>], m>>
        <5> SUFFICES ASSUME NEW m \in I, x = <<d + g.delay[<<v, m>>], m>> PROVE FALSE
          OBVIOUS
        <5>1. x[2] = m /\ x[1] = d + g.delay[<<v, m>>]
          OBVIOUS
        <5> QED BY <1>1, <4>1, <4>2, <5>1
      <4>4. x \notin r.heap
        BY <1>1, <1>7, <2>1, <4>3 DEF RelaxedTo
      <4> QED BY <1>1, <3>1, <4>1, <4>2, <4>4
    <3>3. CASE x[2] \notin I
      <4>1. r.distances[x[2]] = s.distances[x[2]] /\ x[2] \in DOMAIN r.distances
        BY <2>1, <3>1, <3>3 DEF RelaxedTo
      <4>2. \A m \in I : x # <<d + g.delay[<<v, m>>], m>>
        BY <3>3
      <4>3. x \notin r.heap
        BY <1>1, <1>7, <2>1, <4>2 DEF RelaxedTo
      <4> QED BY <3>1, <4>1, <4>3
    <3> QED BY <3>2, <3>3
  <2> HIDE DEF Y
  <2>3. PoppedSoFar(r, g, src, dist, k + 1)
    BY <1>5, <2>2 DEF PoppedSoFar
  <2> QED BY <1>2, <1>11, <2>3 DEF r, StepsTo
<1> QED BY <1>10, <1>11

LEMMA SearchStarts ==
  ASSUME NEW g, IsGraph(g), NEW src \in g.nodes, NEW goal, NEW dist, IsDistanceFrom(dist, src, g)
  PROVE  /\ SearchInv(StartSearch(src), g, src, goal, dist)
         /\ PoppedSoFar(StartSearch(src), g, src, dist, 0)
<1> DEFINE s == StartSearch(src)
           zero == [n \in {src} |-> 0]
<1>1. s = [distances |-> zero, previous |-> <<>>, heap |-> {<<0, src>>}, found |-> FALSE]
  BY Zenon DEF StartSearch
<1>2. /\ zero \in [{src} -> Nat] /\ DOMAIN zero = {src} /\ zero[src] = 0
      /\ {src} \in SUBSET g.nodes /\ <<0, src>> \in Nat \X g.nodes
  OBVIOUS
<1> HIDE DEF s, zero
<1>3. s.distances = zero /\ s.previous = <<>> /\ s.heap = {<<0, src>>} /\ s.found = FALSE
  BY <1>1
<1>4. s \in SearchStates(g)
  <2>1. zero \in UNION {[S -> Nat] : S \in SUBSET g.nodes}
    BY <1>2
  <2>2. {<<0, src>>} \in SUBSET (Nat \X g.nodes)
    BY <1>2
  <2> QED BY <1>1, <2>1, <2>2, Zenon DEF SearchStates
<1>5. dist[src] = 0
  BY DEF IsDistanceFrom
<1>6. \A v \in DOMAIN s.distances : v = src /\ s.distances[v] = 0 /\ dist[v] <= s.distances[v]
  BY <1>2, <1>3, <1>5
<1>7. \A x \in s.heap :
        x \in Pushable(g, src, dist) /\ x[2] \in DOMAIN s.distances /\ s.distances[x[2]] <= x[1]
  BY <1>2, <1>3 DEF Pushable
<1>8. \A v \in DOMAIN s.distances : <<s.distances[v], v>> \in s.heap
  BY <1>3, <1>6
<1>9. SearchInv(s, g, src, goal, dist)
  <2>1. \A v \in DOMAIN s.distances \ {src} : \E u \in g.nodes : ReachedOver(s, g, dist, v, u)
    BY <1>6
  <2>2. src \in DOMAIN s.distances /\ s.distances[src] = 0
    BY <1>2, <1>3
  <2>3. ~s.found
    BY <1>3
  <2>4. \A v \in DOMAIN s.distances : dist[v] <= s.distances[v]
    BY <1>6
  <2> QED BY <1>4, <1>7, <1>8, <2>1, <2>2, <2>3, <2>4, Zenon DEF SearchInv
<1>10. PoppedSoFar(s, g, src, dist, 0)
  <2>1. {} \in SUBSET Pushable(g, src, dist) /\ Cardinality({}) = 0
    BY FS_EmptySet
  <2> QED BY <2>1 DEF PoppedSoFar
<1> QED BY <1>9, <1>10 DEF s

(* When as many pairs have been popped as the bound allows, the loop is    *)
(* over.                                                                   *)
Turns(g) == Cardinality(DOMAIN g.delay) * Cardinality(g.nodes) + 1

LEMMA TurnsSuffice ==
  ASSUME NEW g, IsGraph(g), NEW src \in g.nodes, NEW goal, NEW dist,
         NEW s, SearchInv(s, g, src, goal, dist)
  PROVE  /\ Turns(g) \in Nat
         /\ PoppedSoFar(s, g, src, dist, Turns(g)) => s.found \/ s.heap = {}
<1> DEFINE links == Cardinality(DOMAIN g.delay)
           nodes == Cardinality(g.nodes)
           P == Pushable(g, src, dist)
<1>1. links \in Nat /\ IsFiniteSet(P) /\ Cardinality(P) <= links + 1 /\ Cardinality(P) \in Nat
  BY PushableSize, FS_CardinalityType
<1>2. nodes \in Nat /\ nodes # 0
  <2>1. IsFiniteSet(g.nodes) /\ g.nodes # {}
    BY DEF IsGraph
  <2> QED BY <2>1, FS_CardinalityType, FS_EmptySet
<1> HIDE DEF links, nodes
<1>3. links * nodes \in Nat /\ links <= links * nodes
  BY <1>1, <1>2
<1>4. Turns(g) = links * nodes + 1
  BY DEF Turns, links, nodes
<1>5. ASSUME s.heap # {}, NEW X \in SUBSET P, Cardinality(X) = Turns(g), \A x \in X : x \notin s.heap
      PROVE  FALSE
  <2>1. PICK x \in s.heap : TRUE
    BY <1>5
  <2>2. x \in P /\ x \notin X
    BY <1>5 DEF SearchInv
  <2> HIDE DEF P
  <2>3. IsFiniteSet(X)
    BY <1>1, FS_Subset
  <2>4. Cardinality(X \union {x}) = Turns(g) + 1
    BY <1>5, <2>2, <2>3, FS_AddElement
  <2>5. X \union {x} \in SUBSET P
    BY <2>2
  <2>6. Cardinality(X \union {x}) <= Cardinality(P)
    BY <1>1, <2>5, FS_Subset
  <2> QED BY <1>1, <1>3, <1>4, <2>4, <2>6
<1> QED BY <1>3, <1>4, <1>5 DEF PoppedSoFar

(* One turn of the loop, or none when it is over. *)
Turn(g, goal, s) == IF s.found \/ s.heap = {} THEN s ELSE SearchStep(g, goal, s)

(* get_route's search ends with the distance of its destination.           *)
LEMMA SearchFinds ==
  ASSUME NEW g, IsGraph(g), NEW src \in g.nodes, NEW goal \in g.nodes,
         NEW dist, IsDistanceFrom(dist, src, g)
  PROVE  /\ SearchInv(Search(g, src, goal), g, src, goal, dist)
         /\ goal \in DOMAIN Search(g, src, goal).distances
         /\ Search(g, src, goal).distances[goal] = dist[goal]
<1> DEFINE n == Turns(g)
           c == StartSearch(src)
           V == SearchStates(g)
           U == [k \in 0..n |-> {s \in V : SearchInv(s, g, src, goal, dist) /\ PoppedSoFar(s, g, src, dist, k)}]
           step == [p \in (1..n) \X V |-> Turn(g, goal, p[2])]
           Unfolds(f) == f = [k \in 0..n |-> IF k = 0 THEN c ELSE Turn(g, goal, f[k - 1])]
           after[k \in 0..(Cardinality(DOMAIN g.delay) * Cardinality(g.nodes) + 1)] ==
             IF k = 0 THEN StartSearch(src)
             ELSE LET s == after[k - 1]
                  IN  IF s.found \/ s.heap = {} THEN s ELSE SearchStep(g, goal, s)
<1>1. SearchInv(c, g, src, goal, dist) /\ PoppedSoFar(c, g, src, dist, 0) /\ c \in V
  <2> HIDE DEF c
  <2>1. SearchInv(c, g, src, goal, dist) /\ PoppedSoFar(c, g, src, dist, 0)
    BY SearchStarts DEF c
  <2> QED BY <2>1 DEF SearchInv
<1>2. n \in Nat
  BY <1>1, TurnsSuffice
<1>3. c \in U[0]
  <2> HIDE DEF n, c
  <2> QED BY <1>1, <1>2
<1>4. ASSUME NEW k \in 1..n, NEW s \in U[k - 1] PROVE Turn(g, goal, s) \in U[k]
  <2>0. k - 1 \in 0..n /\ k \in 0..n /\ k - 1 \in Nat /\ (k - 1) + 1 = k
    BY <1>2
  <2> HIDE DEF n
  <2>1. SearchInv(s, g, src, goal, dist) /\ PoppedSoFar(s, g, src, dist, k - 1)
    BY <2>0
  <2>2. CASE s.found \/ s.heap = {}
    <3>1. Turn(g, goal, s) = s
      BY <2>2 DEF Turn
    <3>2. PoppedSoFar(s, g, src, dist, k)
      BY <2>2 DEF PoppedSoFar
    <3> QED BY <2>0, <2>1, <3>1, <3>2 DEF SearchInv
  <2>3. CASE ~(s.found \/ s.heap = {})
    <3>1. Turn(g, goal, s) = SearchStep(g, goal, s)
      BY <2>3 DEF Turn
    <3>2. SearchInv(SearchStep(g, goal, s), g, src, goal, dist)
      BY <2>1, <2>3, SearchStepKeeps
    <3>3. PoppedSoFar(SearchStep(g, goal, s), g, src, dist, k)
      BY <2>0, <2>1, <2>3, SearchStepCounts
    <3> QED BY <2>0, <3>1, <3>2, <3>3 DEF SearchInv
  <2> QED BY <2>2, <2>3
<1>5. ASSUME NEW f, f[0] = c, \A k \in 1..n : f[k - 1] \in U[k - 1] => f[k] = Turn(g, goal, f[k - 1])
      PROVE  \A k \in 0..n : f[k] \in U[k]
  <2>1. \A k \in 1..n : f[k - 1] \in U[k - 1] => f[k] \in U[k]
    <3> HIDE DEF U, n
    <3> QED BY <1>4, <1>5
  <2> HIDE DEF U, n
  <2> QED BY <1>2, <1>3, <1>5, <2>1, StagesStay
<1>6. ASSUME NEW f, Unfolds(f) PROVE f[n] \in U[n]
  <2>1. \A k \in 0..n : f[k] = IF k = 0 THEN c ELSE Turn(g, goal, f[k - 1])
    <3> HIDE DEF n, c
    <3> QED BY <1>6
  <2>2. f[0] = c /\ \A k \in 1..n : f[k] = Turn(g, goal, f[k - 1])
    <3> HIDE DEF n, c
    <3> QED BY <1>2, <2>1
  <2> HIDE DEF U, n, Unfolds, c
  <2> QED BY <1>2, <1>5, <2>2
<1>7. PICK h : IsUnrolled(h, n, c, step)
  <2> HIDE DEF step, n, c
  <2> QED BY <1>2, StagesExist
<1>8. Unfolds(h)
  <2> HIDE DEF n, c
  <2>1. h[0] = c /\ \A k \in 1..n : h[k] = step[<<k, h[k - 1]>>]
    <3> HIDE DEF step
    <3> QED BY <1>2, <1>7, UnrolledIs
  <2>2. ASSUME NEW k \in 1..n, h[k - 1] \in U[k - 1] PROVE h[k] = Turn(g, goal, h[k - 1])
    <3>1. h[k - 1] \in V
      BY <1>2, <2>2
    <3> HIDE DEF U, V
    <3> QED BY <2>1, <3>1
  <2>3. \A k \in 0..n : h[k] \in U[k]
    <3> HIDE DEF U, step
    <3> QED BY <1>5, <2>1, <2>2
  <2>4. (\A k \in 1..n : k - 1 \in 0..n) /\ (\A k \in 0..n : k # 0 => k \in 1..n)
    BY <1>2
  <2> HIDE DEF step, U
  <2>5. \A k \in 1..n : h[k] = Turn(g, goal, h[k - 1])
    BY <2>2, <2>3, <2>4
  <2>6. h = [k \in 0..n |-> IF k = 0 THEN c ELSE step[<<k, h[k - 1]>>]]
    BY <1>7 DEF IsUnrolled
  <2> QED BY <2>1, <2>4, <2>5, <2>6
<1>9. Search(g, src, goal) = after[n]
  BY Zenon DEF Search, Turns
<1>10. Unfolds(after)
  <2>1. \E f : Unfolds(f)
    BY <1>8
  <2> QED BY <2>1, Zenon DEF Turn, Turns
<1>11. Search(g, src, goal) \in U[n]
  <2> HIDE DEF after, Unfolds, U, n
  <2> QED BY <1>6, <1>9, <1>10
<1> DEFINE s == Search(g, src, goal)
<1> HIDE DEF s
<1>12. SearchInv(s, g, src, goal, dist) /\ PoppedSoFar(s, g, src, dist, n)
  <2>1. n \in 0..n
    BY <1>2
  <2> HIDE DEF n
  <2> QED BY <1>11, <2>1 DEF s
<1>13. s.found \/ s.heap = {}
  BY <1>12, TurnsSuffice
<1>14. goal \in DOMAIN s.distances /\ s.distances[goal] = dist[goal]
  <2>1. CASE s.found
    BY <1>12, <2>1 DEF SearchInv
  <2>2. CASE ~s.found
    <3>1. IsSettled(s, g, dist, goal)
      BY <1>12, <1>13, <2>2, HeapReachesOut
    <3> QED BY <3>1 DEF IsSettled
  <2> QED BY <2>1, <2>2
<1> QED BY <1>12, <1>14 DEF s

-----------------------------------------------------------------------------
(* The route, read back from the destination.  rest bounds what is left    *)
(* from a node to the destination, and is at most a hop and what is left   *)
(* after it.                                                               *)

IsRestTo(rest, goal, g) ==
  /\ \A n \in g.nodes : rest[n] \in Nat
  /\ rest[goal] = 0
  /\ \A u, n \in g.nodes : Linked(g, u, n) => rest[u] <= g.delay[<<u, n>>] + rest[n]

(* A shortest way to the destination: every hop is over a link, and adds   *)
(* its delay to the distance.                                              *)
IsShortestTo(route, g, goal, dist, rest) ==
  /\ route \in Seq(g.nodes) /\ Len(route) >= 1 /\ route[Len(route)] = goal
  /\ \A i \in 1..(Len(route) - 1) :
       /\ Linked(g, route[i], route[i + 1])
       /\ dist[route[i + 1]] = dist[route[i]] + g.delay[<<route[i], route[i + 1]>>]
  /\ \A i, j \in 1..Len(route) : i < j => dist[route[i]] < dist[route[j]]
  /\ \A i \in 1..Len(route) : dist[route[i]] + rest[route[i]] <= dist[goal]

LEMMA RouteFits ==
  ASSUME NEW g, IsGraph(g), NEW goal, NEW dist, NEW rest, \A n \in g.nodes : dist[n] \in Nat,
         NEW route, IsShortestTo(route, g, goal, dist, rest)
  PROVE  Len(route) <= Cardinality(g.nodes)
<1>1. /\ route \in [1..Len(route) -> g.nodes] /\ Len(route) \in Nat
      /\ \A i, j \in 1..Len(route) : i < j => dist[route[i]] < dist[route[j]]
  BY DEF IsShortestTo
<1>2. ASSUME NEW i \in 1..Len(route), NEW j \in 1..Len(route), route[i] = route[j] PROVE i = j
  <2>1. ~(i < j) /\ ~(j < i)
    <3>1. dist[route[i]] \in Nat /\ dist[route[i]] = dist[route[j]]
      BY <1>1, <1>2
    <3> QED BY <1>1, <3>1
  <2> QED BY <1>1, <2>1
<1>3. route \in Injection(1..Len(route), g.nodes)
  BY <1>1, <1>2 DEF Injection, IsInjective
<1>4. Cardinality(1..Len(route)) <= Cardinality(g.nodes)
  BY <1>3, FS_Injection DEF IsGraph
<1>5. Cardinality(1..Len(route)) = Len(route)
  <2> DEFINE n == Len(route)
  <2>1. n \in Int /\ 1 \in Int /\ (1 > n => n = 0)
    BY <1>1
  <2> HIDE DEF n
  <2>2. Cardinality(1..n) = IF 1 > n THEN 0 ELSE n - 1 + 1
    BY <2>1, FS_Interval
  <2> QED BY <2>1, <2>2 DEF n
<1> QED BY <1>4, <1>5

LEMMA HopPrepended ==
  ASSUME NEW g, IsGraph(g), NEW goal, NEW dist, NEW rest, \A n \in g.nodes : dist[n] \in Nat,
         IsRestTo(rest, goal, g),
         NEW route, IsShortestTo(route, g, goal, dist, rest),
         NEW u \in g.nodes, Linked(g, u, route[1]),
         dist[route[1]] = dist[u] + g.delay[<<u, route[1]>>]
  PROVE  /\ IsShortestTo(<<u>> \o route, g, goal, dist, rest)
         /\ Len(<<u>> \o route) = Len(route) + 1 /\ (<<u>> \o route)[1] = u
<1> DEFINE longer == <<u>> \o route
<1>1. route \in Seq(g.nodes) /\ Len(route) \in Nat /\ Len(route) >= 1 /\ route[Len(route)] = goal
  BY DEF IsShortestTo
<1>2. /\ longer \in Seq(g.nodes) /\ Len(longer) = Len(route) + 1 /\ longer[1] = u
      /\ \A i \in 1..Len(route) : longer[i + 1] = route[i]
  <2>1. <<u>> \in Seq(g.nodes) /\ Len(<<u>>) = 1 /\ <<u>>[1] = u
    OBVIOUS
  <2>2. /\ longer \in Seq(g.nodes) /\ Len(longer) = Len(<<u>>) + Len(route)
        /\ \A i \in 1..(Len(<<u>>) + Len(route)) :
             longer[i] = IF i <= Len(<<u>>) THEN <<u>>[i] ELSE route[i - Len(<<u>>)]
    BY <1>1, <2>1, ConcatProperties
  <2> HIDE DEF longer
  <2>3. \A i \in 1..(1 + Len(route)) : longer[i] = IF i <= 1 THEN <<u>>[i] ELSE route[i - 1]
    BY <2>1, <2>2
  <2>4. \A i \in 1..Len(route) : i + 1 \in 1..(1 + Len(route)) /\ ~(i + 1 <= 1) /\ (i + 1) - 1 = i
    BY <1>1
  <2>5. \A i \in 1..Len(route) : longer[i + 1] = route[i]
    BY <2>3, <2>4
  <2>6. longer[1] = u /\ Len(longer) = Len(route) + 1
    BY <1>1, <2>1, <2>2, <2>3
  <2> QED BY <2>2, <2>5, <2>6
<1> HIDE DEF longer
<1>3. \A j \in 1..Len(longer) : j # 1 => j - 1 \in 1..Len(route) /\ longer[j] = route[j - 1]
  <2> SUFFICES ASSUME NEW j \in 1..Len(longer), j # 1
               PROVE  j - 1 \in 1..Len(route) /\ longer[j] = route[j - 1]
    OBVIOUS
  <2>1. j - 1 \in 1..Len(route) /\ (j - 1) + 1 = j
    BY <1>1, <1>2
  <2> QED BY <1>2, <2>1
<1>4. \A i \in 1..Len(route) : route[i] \in g.nodes /\ dist[route[i]] \in Nat
  BY <1>1
<1>5. dist[u] \in Nat /\ route[1] \in g.nodes /\ g.delay[<<u, route[1]>>] \in Nat \ {0}
  BY <1>1, <1>4 DEF Linked, IsGraph
<1>6. longer[Len(longer)] = goal
  BY <1>1, <1>2
<1>7. ASSUME NEW i \in 1..(Len(longer) - 1)
      PROVE  /\ Linked(g, longer[i], longer[i + 1])
             /\ dist[longer[i + 1]] = dist[longer[i]] + g.delay[<<longer[i], longer[i + 1]>>]
  <2>1. i \in 1..Len(route) /\ longer[i + 1] = route[i]
    BY <1>1, <1>2
  <2>2. CASE i = 1
    BY <1>2, <2>1, <2>2
  <2>3. CASE i # 1
    <3>1. i - 1 \in 1..(Len(route) - 1) /\ longer[i] = route[i - 1] /\ (i - 1) + 1 = i
      BY <1>1, <1>2, <1>3, <2>1, <2>3
    <3>2. /\ Linked(g, route[i - 1], route[(i - 1) + 1])
          /\ dist[route[(i - 1) + 1]] = dist[route[i - 1]] + g.delay[<<route[i - 1], route[(i - 1) + 1]>>]
      BY <3>1 DEF IsShortestTo
    <3> QED BY <2>1, <3>1, <3>2
  <2> QED BY <2>2, <2>3
<1>8. ASSUME NEW i \in 1..Len(longer), NEW j \in 1..Len(longer), i < j
      PROVE  dist[longer[i]] < dist[longer[j]]
  <2>0. \A m, n \in 1..Len(route) : m < n => dist[route[m]] < dist[route[n]]
    BY DEF IsShortestTo
  <2>1. j - 1 \in 1..Len(route) /\ longer[j] = route[j - 1]
    BY <1>1, <1>2, <1>3, <1>8
  <2>2. CASE i # 1
    <3>1. i - 1 \in 1..Len(route) /\ longer[i] = route[i - 1] /\ i - 1 < j - 1
      BY <1>1, <1>2, <1>3, <1>8, <2>2
    <3> QED BY <2>0, <2>1, <3>1
  <2>3. CASE i = 1
    <3>1. dist[u] < dist[route[1]]
      BY <1>5
    <3>2. dist[route[1]] <= dist[route[j - 1]]
      <4>1. CASE j - 1 = 1
        BY <1>4, <2>1, <4>1
      <4>2. CASE j - 1 # 1
        <5>1. 1 \in 1..Len(route) /\ 1 < j - 1
          BY <1>1, <2>1, <4>2
        <5> QED BY <1>4, <2>0, <2>1, <5>1
      <4> QED BY <4>1, <4>2
    <3> QED BY <1>2, <1>4, <1>5, <2>1, <2>3, <3>1, <3>2
  <2> QED BY <2>2, <2>3
<1>9. ASSUME NEW i \in 1..Len(longer) PROVE dist[longer[i]] + rest[longer[i]] <= dist[goal]
  <2>0. \A m \in 1..Len(route) : dist[route[m]] + rest[route[m]] <= dist[goal]
    BY DEF IsShortestTo
  <2>1. CASE i # 1
    BY <1>3, <2>0, <2>1
  <2>2. CASE i = 1
    <3>1. dist[route[1]] + rest[route[1]] <= dist[goal]
      BY <1>1, <2>0
    <3>2. rest[u] <= g.delay[<<u, route[1]>>] + rest[route[1]]
      BY <1>5 DEF IsRestTo
    <3>3. rest[u] \in Nat /\ rest[route[1]] \in Nat /\ dist[goal] \in Nat
      <4>1. goal \in g.nodes
        BY <1>1
      <4> QED BY <1>5, <4>1 DEF IsRestTo
    <3>4. dist[u] + rest[u] <= dist[goal]
      BY <1>5, <3>1, <3>2, <3>3
    <3> QED BY <1>2, <2>2, <3>4
  <2> QED BY <2>1, <2>2
<1>10. IsShortestTo(longer, g, goal, dist, rest)
  <2>1. Len(longer) >= 1
    BY <1>1, <1>2
  <2> QED BY <1>2, <1>6, <1>7, <1>8, <1>9, <2>1, Zenon DEF IsShortestTo
<1> QED BY <1>2, <1>10 DEF longer

(* One hop more of the route, or none when it starts at src. *)
Lengthened(s, src, route) ==
  IF Head(route) = src THEN route ELSE <<s.previous[Head(route)]>> \o route

(* The route as far as it has been read: its head has its final distance,  *)
(* and it has a hop for every step unless it starts at src.                *)
ReadBack(s, g, src, goal, dist, rest, k) ==
  {route \in Seq(g.nodes) :
     /\ IsShortestTo(route, g, goal, dist, rest)
     /\ route[1] \in DOMAIN s.distances /\ s.distances[route[1]] = dist[route[1]]
     /\ route[1] = src \/ Len(route) = k + 1}

LEMMA RouteLengthened ==
  ASSUME NEW g, IsGraph(g), NEW src \in g.nodes, NEW goal, NEW dist, IsDistanceFrom(dist, src, g),
         NEW rest, IsRestTo(rest, goal, g), NEW s, SearchInv(s, g, src, goal, dist),
         NEW k \in Nat, NEW route \in ReadBack(s, g, src, goal, dist, rest, k)
  PROVE  Lengthened(s, src, route) \in ReadBack(s, g, src, goal, dist, rest, k + 1)
<1>1. /\ IsShortestTo(route, g, goal, dist, rest) /\ route \in Seq(g.nodes)
      /\ route[1] \in DOMAIN s.distances /\ s.distances[route[1]] = dist[route[1]]
      /\ route[1] = src \/ Len(route) = k + 1
  BY DEF ReadBack
<1>2. Head(route) = route[1]
  BY <1>1 DEF IsShortestTo
<1>3. CASE route[1] = src
  <2>1. Lengthened(s, src, route) = route
    BY <1>2, <1>3 DEF Lengthened
  <2> QED BY <1>1, <1>3, <2>1 DEF ReadBack
<1>4. CASE route[1] # src
  <2>1. PICK u \in g.nodes : ReachedOver(s, g, dist, route[1], u)
    BY <1>1, <1>4 DEF SearchInv
  <2>2. /\ u = s.previous[route[1]] /\ Linked(g, u, route[1])
        /\ u \in DOMAIN s.distances /\ s.distances[u] = dist[u]
        /\ dist[route[1]] = dist[u] + g.delay[<<u, route[1]>>]
    BY <1>1, <2>1 DEF ReachedOver
  <2> DEFINE longer == <<u>> \o route
  <2>3. Lengthened(s, src, route) = longer
    BY <1>2, <1>4, <2>2, Zenon DEF Lengthened
  <2>4. \A n \in g.nodes : dist[n] \in Nat
    BY DEF IsDistanceFrom
  <2>5. IsShortestTo(longer, g, goal, dist, rest) /\ Len(longer) = Len(route) + 1 /\ longer[1] = u
    BY <1>1, <2>2, <2>4, HopPrepended
  <2>6. longer \in Seq(g.nodes)
    BY <2>5 DEF IsShortestTo
  <2> HIDE DEF longer
  <2>7. Len(longer) = (k + 1) + 1
    BY <1>1, <1>4, <2>5
  <2> QED BY <2>2, <2>3, <2>5, <2>6, <2>7 DEF ReadBack
<1> QED BY <1>3, <1>4

LEMMA OneNodeRoute ==
  ASSUME NEW S, NEW x \in S
  PROVE  <<x>> \in Seq(S) /\ Len(<<x>>) = 1 /\ <<x>>[1] = x
OBVIOUS

(* GetRoute: the route goes from src to the destination by the shortest    *)
(* way.                                                                    *)
LEMMA RouteIsShortest ==
  ASSUME NEW g, IsGraph(g), NEW src \in g.nodes, NEW goal \in g.nodes,
         NEW dist, IsDistanceFrom(dist, src, g), NEW rest, IsRestTo(rest, goal, g)
  PROVE  /\ IsShortestTo(GetRoute(g, src, goal), g, goal, dist, rest)
         /\ GetRoute(g, src, goal)[1] = src
<1> DEFINE s == Search(g, src, goal)
           n == Cardinality(g.nodes)
           V == Seq(g.nodes)
           U == [k \in 0..n |-> ReadBack(s, g, src, goal, dist, rest, k)]
           step == [p \in (1..n) \X V |-> Lengthened(s, src, p[2])]
           Unfolds(f) == f = [k \in 0..n |-> IF k = 0 THEN <<goal>> ELSE Lengthened(s, src, f[k - 1])]
           back[k \in 0..Cardinality(g.nodes)] ==
             IF k = 0 THEN <<goal>>
             ELSE LET route == back[k - 1]
                  IN  IF Head(route) = src THEN route ELSE <<s.previous[Head(route)]>> \o route
<1>1. /\ SearchInv(s, g, src, goal, dist)
      /\ goal \in DOMAIN s.distances /\ s.distances[goal] = dist[goal]
  BY SearchFinds
<1>2. n \in Nat
  BY FS_CardinalityType DEF IsGraph
<1>3. <<goal>> \in U[0]
  <2> DEFINE route == <<goal>>
  <2>1. route \in Seq(g.nodes) /\ Len(route) = 1 /\ route[1] = goal
    BY OneNodeRoute
  <2> HIDE DEF route
  <2>0. dist[goal] + rest[goal] <= dist[goal]
    <3>1. dist[goal] \in Nat /\ rest[goal] = 0
      BY DEF IsDistanceFrom, IsRestTo
    <3> QED BY <3>1
  <2>2. IsShortestTo(route, g, goal, dist, rest)
    BY <2>0, <2>1 DEF IsShortestTo
  <2>3. route \in ReadBack(s, g, src, goal, dist, rest, 0)
    <3> HIDE DEF s
    <3> QED BY <1>1, <2>1, <2>2 DEF ReadBack
  <2> QED BY <1>2, <2>3 DEF route
<1> HIDE DEF s, n
<1>4. ASSUME NEW k \in 1..n, NEW route \in U[k - 1] PROVE Lengthened(s, src, route) \in U[k]
  <2>1. k - 1 \in 0..n /\ k \in 0..n /\ k - 1 \in Nat /\ (k - 1) + 1 = k
    BY <1>2
  <2>2. Lengthened(s, src, route) \in ReadBack(s, g, src, goal, dist, rest, (k - 1) + 1)
    BY <1>1, <2>1, RouteLengthened
  <2> QED BY <2>1, <2>2
<1>5. ASSUME NEW f, f[0] = <<goal>>,
             \A k \in 1..n : f[k - 1] \in U[k - 1] => f[k] = Lengthened(s, src, f[k - 1])
      PROVE  \A k \in 0..n : f[k] \in U[k]
  <2>1. \A k \in 1..n : f[k - 1] \in U[k - 1] => f[k] \in U[k]
    <3> HIDE DEF U
    <3> QED BY <1>4, <1>5
  <2> HIDE DEF U
  <2> QED BY <1>2, <1>3, <1>5, <2>1, StagesStay
<1>6. ASSUME NEW f, Unfolds(f) PROVE f[n] \in U[n]
  <2>1. \A k \in 0..n : f[k] = IF k = 0 THEN <<goal>> ELSE Lengthened(s, src, f[k - 1])
    BY <1>6
  <2>2. f[0] = <<goal>> /\ \A k \in 1..n : f[k] = Lengthened(s, src, f[k - 1])
    BY <1>2, <2>1
  <2> HIDE DEF U, Unfolds
  <2> QED BY <1>2, <1>5, <2>2
<1>7. PICK h : IsUnrolled(h, n, <<goal>>, step)
  <2> HIDE DEF step
  <2> QED BY <1>2, StagesExist
<1>8. Unfolds(h)
  <2>1. h[0] = <<goal>> /\ \A k \in 1..n : h[k] = step[<<k, h[k - 1]>>]
    <3> HIDE DEF step
    <3> QED BY <1>2, <1>7, UnrolledIs
  <2>2. ASSUME NEW k \in 1..n, h[k - 1] \in U[k - 1] PROVE h[k] = Lengthened(s, src, h[k - 1])
    <3>1. h[k - 1] \in V
      BY <1>2, <2>2 DEF ReadBack
    <3> HIDE DEF U, V
    <3> QED BY <2>1, <3>1
  <2>3. \A k \in 0..n : h[k] \in U[k]
    <3> HIDE DEF U, step
    <3> QED BY <1>5, <2>1, <2>2
  <2>4. (\A k \in 1..n : k - 1 \in 0..n) /\ (\A k \in 0..n : k # 0 => k \in 1..n)
    BY <1>2
  <2> HIDE DEF step, U
  <2>5. \A k \in 1..n : h[k] = Lengthened(s, src, h[k - 1])
    BY <2>2, <2>3, <2>4
  <2>6. h = [k \in 0..n |-> IF k = 0 THEN <<goal>> ELSE step[<<k, h[k - 1]>>]]
    BY <1>7 DEF IsUnrolled
  <2> QED BY <2>1, <2>4, <2>5, <2>6
<1>9. GetRoute(g, src, goal) = back[n]
  <2>1. GetRoute(g, src, goal) = IF goal \in DOMAIN s.distances THEN back[n] ELSE <<>>
    BY Zenon DEF GetRoute, s, n
  <2> HIDE DEF back
  <2> QED BY <1>1, <2>1
<1>10. Unfolds(back)
  <2>1. \E f : Unfolds(f)
    BY <1>8
  <2> QED BY <2>1, Zenon DEF Lengthened, n
<1> DEFINE route == GetRoute(g, src, goal)
<1>11. route \in U[n]
  <2> HIDE DEF back, Unfolds, U
  <2> QED BY <1>6, <1>9, <1>10
<1> HIDE DEF route
<1>12. IsShortestTo(route, g, goal, dist, rest) /\ (route[1] = src \/ Len(route) = n + 1)
  <2>1. n \in 0..n
    BY <1>2
  <2> QED BY <1>11, <2>1 DEF ReadBack
<1>13. Len(route) <= n
  <2>1. \A x \in g.nodes : dist[x] \in Nat
    BY DEF IsDistanceFrom
  <2> QED BY <1>12, <2>1, RouteFits DEF n
<1>14. Len(route) \in Nat
  BY <1>12 DEF IsShortestTo
<1> QED BY <1>2, <1>12, <1>13, <1>14 DEF route

-----------------------------------------------------------------------------
(* The routes and tables of a connected graph. *)

RestTo(g, goal) == [n \in NodeIds |-> ShortestDelays(g)[n][goal]]

LEMMA RestsAre ==
  ASSUME NEW g \in ConnectedGraphs, NEW goal \in NodeIds
  PROVE  IsRestTo(RestTo(g, goal), goal, g)
<1> DEFINE D == ShortestDelays(g)
           rest == RestTo(g, goal)
<1>1. IsGraph(g) /\ g.nodes = NodeIds
  BY ConnectedGraphsAre
<1>2. /\ D \in [NodeIds -> [NodeIds -> Nat]]
      /\ \A a \in NodeIds : D[a][a] = 0
      /\ \A a, b, c \in NodeIds : D[a][b] <= D[a][c] + D[c][b]
      /\ \A a, b \in NodeIds : <<a, b>> \in DOMAIN g.delay => D[a][b] <= g.delay[<<a, b>>]
  BY DelaysAreDistances
<1> HIDE DEF D
<1>3. \A n \in NodeIds : rest[n] = D[n][goal] /\ rest[n] \in Nat
  BY <1>2 DEF RestTo, D
<1> HIDE DEF rest
<1>4. ASSUME NEW u \in NodeIds, NEW n \in NodeIds, Linked(g, u, n)
      PROVE  rest[u] <= g.delay[<<u, n>>] + rest[n]
  <2>1. D[u][goal] <= D[u][n] + D[n][goal] /\ D[u][n] <= g.delay[<<u, n>>]
    BY <1>2, <1>4 DEF Linked
  <2>2. D[u][goal] \in Nat /\ D[u][n] \in Nat /\ D[n][goal] \in Nat /\ g.delay[<<u, n>>] \in Nat
    BY <1>1, <1>2, <1>4 DEF Linked, IsGraph
  <2> QED BY <1>3, <2>1, <2>2
<1>5. IsRestTo(rest, goal, g)
  BY <1>1, <1>2, <1>3, <1>4 DEF IsRestTo
<1> QED BY <1>5 DEF rest

(* No way over links, whatever it visits, takes less than ShortestDelays:  *)
(* `spent' adds up the delays along it as get_route does (graph.py:208).   *)
IsWay(way, spent, g) ==
  /\ way \in Seq(NodeIds) /\ Len(way) >= 1 /\ spent[1] = 0
  /\ \A i \in 1..(Len(way) - 1) :
       /\ Linked(g, way[i], way[i + 1])
       /\ spent[i + 1] = spent[i] + g.delay[<<way[i], way[i + 1]>>]

THEOREM NoWayIsShorter ==
  ASSUME NEW g \in ConnectedGraphs, NEW way, NEW spent, IsWay(way, spent, g)
  PROVE  ShortestDelays(g)[way[1]][way[Len(way)]] <= spent[Len(way)]
<1> DEFINE n == Len(way)
           dist == ShortestDelays(g)[way[1]]
           Under(i) == spent[i] \in Nat /\ dist[way[i]] <= spent[i]
           Over == {i \in 1..n : ~Under(i)}
<1>1. way \in Seq(NodeIds) /\ n \in Nat /\ n >= 1 /\ way[1] \in NodeIds /\ spent[1] = 0
  BY DEF IsWay
<1>2. /\ \A m \in NodeIds : dist[m] \in Nat
      /\ dist[way[1]] = 0
      /\ \A link \in DOMAIN g.delay : dist[link[2]] <= dist[link[1]] + g.delay[link]
  <2>1. IsDistanceFrom(dist, way[1], g) /\ g.nodes = NodeIds
    BY <1>1, DelaysAreDistances, ConnectedGraphsAre
  <2> HIDE DEF dist
  <2> QED BY <2>1 DEF IsDistanceFrom
<1> HIDE DEF dist
<1>3. Under(1)
  BY <1>1, <1>2
<1>4. ASSUME NEW i \in 1..(n - 1), Under(i) PROVE Under(i + 1)
  <2>1. Linked(g, way[i], way[i + 1]) /\ spent[i + 1] = spent[i] + g.delay[<<way[i], way[i + 1]>>]
    BY DEF IsWay
  <2>2. way[i] \in NodeIds /\ way[i + 1] \in NodeIds
    BY <1>1
  <2>3. <<way[i], way[i + 1]>> \in DOMAIN g.delay /\ g.delay[<<way[i], way[i + 1]>>] \in Nat
    BY <2>1, ConnectedGraphsAre DEF IsGraph, Linked
  <2>4. dist[way[i + 1]] <= dist[way[i]] + g.delay[<<way[i], way[i + 1]>>]
    BY <1>2, <2>3
  <2>5. dist[way[i]] \in Nat /\ dist[way[i + 1]] \in Nat
    BY <1>2, <2>2
  <2> DEFINE hop == g.delay[<<way[i], way[i + 1]>>]
             here == dist[way[i]]
             there == dist[way[i + 1]]
             sofar == spent[i]
             then == spent[i + 1]
  <2>6. /\ hop \in Nat /\ here \in Nat /\ there \in Nat /\ sofar \in Nat
        /\ then = sofar + hop /\ there <= here + hop /\ here <= sofar
    BY <1>4, <2>1, <2>3, <2>4, <2>5
  <2> HIDE DEF hop, here, there, sofar, then
  <2>7. then \in Nat /\ there <= then
    BY <2>6
  <2> QED BY <2>7 DEF then, there
<1> HIDE DEF Under
<1>5. Over = {}
  <2> SUFFICES ASSUME Over # {} PROVE FALSE
    OBVIOUS
  <2>1. PICK i \in Over : \A j \in Over : i <= j
    <3>1. Over \in SUBSET Nat
      BY <1>1
    <3> HIDE DEF Over
    <3> QED BY <3>1, LeastMember
  <2>2. i \in 1..n /\ ~Under(i) /\ i # 1
    BY <1>3, <2>1
  <2>3. i - 1 \in 1..(n - 1) /\ i - 1 \in 1..n /\ i - 1 < i /\ (i - 1) + 1 = i
    BY <1>1, <2>2
  <2>4. Under(i - 1)
    BY <2>1, <2>3
  <2> QED BY <1>4, <2>2, <2>3, <2>4
<1>6. Under(n)
  BY <1>1, <1>5
<1> QED BY <1>6 DEF Under, dist

(* A route of get_route in a connected graph (graph.py:195-225): it starts *)
(* and ends where it should, every hop is over a link, and what the hops   *)
(* have taken so far is at every node the shortest delay there is: no      *)
(* route is shorter.  No node is on it twice.                              *)
IsShortestRoute(route, g, src, goal) ==
  /\ route \in Seq(NodeIds) /\ Len(route) >= 1
  /\ route[1] = src /\ route[Len(route)] = goal
  /\ \A i \in 1..(Len(route) - 1) :
       /\ Linked(g, route[i], route[i + 1])
       /\ ShortestDelays(g)[src][route[i + 1]] =
            ShortestDelays(g)[src][route[i]] + g.delay[<<route[i], route[i + 1]>>]
  /\ \A i, j \in 1..Len(route) : route[i] = route[j] => i = j

THEOREM RoutesAreShortest ==
  ASSUME NEW g \in ConnectedGraphs, NEW src \in NodeIds, NEW goal \in NodeIds
  PROVE  IsShortestRoute(GetRoute(g, src, goal), g, src, goal)
<1> DEFINE D == ShortestDelays(g)
           dist == D[src]
           rest == RestTo(g, goal)
           route == GetRoute(g, src, goal)
<1>1. IsGraph(g) /\ g.nodes = NodeIds
  BY ConnectedGraphsAre
<1>2. IsDistanceFrom(dist, src, g)
  BY DelaysAreDistances
<1>3. IsRestTo(rest, goal, g)
  BY RestsAre
<1>4. IsShortestTo(route, g, goal, dist, rest) /\ route[1] = src
  <2> HIDE DEF dist, rest
  <2> QED BY <1>1, <1>2, <1>3, RouteIsShortest
<1> HIDE DEF dist, rest, route
<1>5. /\ route \in Seq(NodeIds) /\ Len(route) >= 1 /\ route[Len(route)] = goal
      /\ \A i \in 1..(Len(route) - 1) :
           /\ Linked(g, route[i], route[i + 1])
           /\ dist[route[i + 1]] = dist[route[i]] + g.delay[<<route[i], route[i + 1]>>]
  BY <1>1, <1>4 DEF IsShortestTo
<1>6. ASSUME NEW i \in 1..Len(route), NEW j \in 1..Len(route), route[i] = route[j] PROVE i = j
  <2>1. \A m, n \in 1..Len(route) : m < n => dist[route[m]] < dist[route[n]]
    BY <1>4 DEF IsShortestTo
  <2>2. dist[route[i]] \in Nat /\ dist[route[i]] = dist[route[j]]
    BY <1>1, <1>2, <1>5, <1>6 DEF IsDistanceFrom
  <2>3. ~(i < j) /\ ~(j < i)
    BY <2>1, <2>2
  <2>4. i \in Int /\ j \in Int
    OBVIOUS
  <2> QED BY <2>3, <2>4
<1> QED BY <1>4, <1>5, <1>6 DEF IsShortestRoute, dist, route

(* build_forwarding_tables (graph.py:227-237): in a connected graph every  *)
(* entry is a neighbour, and the hop to it is the first of a shortest way. *)
TablesLead(g) ==
  \A src, goal \in NodeIds : src # goal =>
    LET next == BuildForwardingTables(g)[src][goal]
    IN  /\ next \in Neighbors(g, src)
        /\ g.delay[<<src, next>>] + ShortestDelays(g)[next][goal] = ShortestDelays(g)[src][goal]

THEOREM ForwardingTablesLead ==
  ASSUME NEW g \in ConnectedGraphs
  PROVE  TablesLead(g)
<1> SUFFICES ASSUME NEW src \in NodeIds, NEW goal \in NodeIds, src # goal
             PROVE  LET next == BuildForwardingTables(g)[src][goal]
                    IN  /\ next \in Neighbors(g, src)
                        /\ g.delay[<<src, next>>] + ShortestDelays(g)[next][goal] =
                             ShortestDelays(g)[src][goal]
  BY Zenon DEF TablesLead
<1> DEFINE D == ShortestDelays(g)
           dist == D[src]
           rest == RestTo(g, goal)
           route == GetRoute(g, src, goal)
           next == BuildForwardingTables(g)[src][goal]
<1>1. IsGraph(g) /\ g.nodes = NodeIds
  BY ConnectedGraphsAre
<1>2. IsDistanceFrom(dist, src, g)
  BY DelaysAreDistances
<1>3. IsRestTo(rest, goal, g)
  BY RestsAre
<1>4. IsShortestTo(route, g, goal, dist, rest) /\ route[1] = src
  <2> HIDE DEF dist, rest
  <2> QED BY <1>1, <1>2, <1>3, RouteIsShortest
<1>5. next = route[2]
  <2> HIDE DEF route
  <2>1. BuildForwardingTables(g)[src] = [n \in NodeIds \ {src} |-> GetRoute(g, src, n)[2]]
    BY <1>1 DEF BuildForwardingTables
  <2> QED BY <2>1 DEF route
<1>6. /\ D \in [NodeIds -> [NodeIds -> Nat]]
      /\ \A a, b, c \in NodeIds : D[a][b] <= D[a][c] + D[c][b]
      /\ D[src][src] = 0
  BY DelaysAreDistances
<1>7. \A n \in NodeIds : rest[n] = D[n][goal]
  BY DEF RestTo
<1> HIDE DEF D, rest, route, next
<1>8. route \in Seq(NodeIds) /\ Len(route) \in Nat /\ Len(route) >= 1 /\ route[Len(route)] = goal
  BY <1>1, <1>4 DEF IsShortestTo
<1>9. Len(route) # 1
  BY <1>4, <1>8
<1>10. route[2] \in NodeIds /\ 1 \in 1..(Len(route) - 1) /\ 1 \in 1..Len(route) /\ 2 \in 1..Len(route)
  <2> DEFINE n == Len(route)
  <2>1. route \in [1..n -> NodeIds] /\ n \in Nat /\ n >= 1 /\ n # 1
    BY <1>8, <1>9
  <2> HIDE DEF n
  <2>2. 1 \in 1..(n - 1) /\ 1 \in 1..n /\ 2 \in 1..n
    BY <2>1
  <2> QED BY <2>1, <2>2 DEF n
<1>11. /\ Linked(g, src, next) /\ D[src][next] = g.delay[<<src, next>>]
       /\ D[src][next] + D[next][goal] <= D[src][goal] /\ g.delay[<<src, next>>] \in Nat
  <2>0. 1 + 1 = 2 /\ route[1] = src /\ route[2] = next
    BY <1>4, <1>5
  <2>1. Linked(g, src, next) /\ dist[next] = dist[src] + g.delay[<<src, next>>]
    <3>1. Linked(g, route[1], route[1 + 1]) /\ dist[route[1 + 1]] = dist[route[1]] + g.delay[<<route[1], route[1 + 1]>>]
      BY <1>4, <1>10, Zenon DEF IsShortestTo
    <3> HIDE DEF dist
    <3> QED BY <2>0, <3>1
  <2>2. dist[next] + rest[next] <= dist[goal]
    <3>1. dist[route[2]] + rest[route[2]] <= dist[goal]
      BY <1>4, <1>10, Zenon DEF IsShortestTo
    <3> QED BY <2>0, <3>1
  <2>3. g.delay[<<src, next>>] \in Nat
    BY <1>1, <2>1 DEF IsGraph, Linked
  <2>4. next \in NodeIds
    BY <1>5, <1>10
  <2>5. D[src][next] = D[src][src] + g.delay[<<src, next>>]
    BY <2>1
  <2>6. D[src][next] + D[next][goal] <= D[src][goal]
    BY <1>7, <2>2, <2>4
  <2> QED BY <1>6, <2>1, <2>3, <2>5, <2>6
<1>12. /\ D[src][next] \in Nat /\ D[next][goal] \in Nat /\ D[src][goal] \in Nat
       /\ D[src][goal] <= D[src][next] + D[next][goal]
  <2>1. next \in NodeIds
    BY <1>5, <1>10
  <2> QED BY <1>6, <2>1
<1>13. next \in Neighbors(g, src)
  BY <1>1, <1>5, <1>10, <1>11 DEF Neighbors, Linked
<1>14. g.delay[<<src, next>>] + D[next][goal] = D[src][goal]
  BY <1>11, <1>12
<1> QED BY <1>13, <1>14 DEF next, D

-----------------------------------------------------------------------------
(* A packet on its way. *)

HopTypes ==
  /\ graph \in ConnectedGraphs /\ table = BuildForwardingTables(graph)
  /\ at \in NodeIds /\ dst \in NodeIds
  /\ history \in Seq(NodeIds) /\ Len(history) >= 1 /\ history[Len(history)] = at

(* Every hop was over a link, and what it took is what it spared.          *)
HopsShorten ==
  \A i \in 1..(Len(history) - 1) :
    /\ Linked(graph, history[i], history[i + 1])
    /\ graph.delay[<<history[i], history[i + 1]>>] + ShortestDelays(graph)[history[i + 1]][dst] =
         ShortestDelays(graph)[history[i]][dst]

(* A later router is nearer to the destination. *)
EverNearer ==
  \A i, j \in 1..Len(history) :
    i < j => ShortestDelays(graph)[history[j]][dst] < ShortestDelays(graph)[history[i]][dst]

HopInv == HopTypes /\ HopsShorten /\ EverNearer

LEMMA HopInvStarts == Init => HopInv
<1> SUFFICES ASSUME Init PROVE HopInv
  OBVIOUS
<1>1. /\ graph \in ConnectedGraphs /\ table = BuildForwardingTables(graph)
      /\ at \in NodeIds /\ dst \in NodeIds /\ history = <<at>>
  BY DEF Init
<1>2. history \in Seq(NodeIds) /\ Len(history) = 1 /\ history[1] = at
  BY <1>1, OneNodeRoute
<1> QED BY <1>1, <1>2 DEF HopInv, HopTypes, HopsShorten, EverNearer

LEMMA HopInvKept == HopInv /\ [Next]_vars => HopInv'
<1> SUFFICES ASSUME HopInv, [Next]_vars PROVE HopInv'
  OBVIOUS
<1>1. /\ graph \in ConnectedGraphs /\ table = BuildForwardingTables(graph)
      /\ at \in NodeIds /\ dst \in NodeIds
      /\ history \in Seq(NodeIds) /\ Len(history) \in Nat /\ Len(history) >= 1 /\ history[Len(history)] = at
  BY DEF HopInv, HopTypes
<1>2. CASE Forward
  <2> DEFINE D == ShortestDelays(graph)
             n == Len(history)
             w == graph.delay[<<at, at'>>]
             left(i) == D[history[i]][dst]
  <2>1. /\ graph' = graph /\ table' = table /\ dst' = dst /\ history' = Append(history, at')
        /\ at # dst /\ at' = BuildForwardingTables(graph)[at][dst]
    BY <1>1, <1>2 DEF Forward, NextHop
  <2>2. at' \in Neighbors(graph, at) /\ w + D[at'][dst] = D[at][dst]
    <3>1. TablesLead(graph)
      BY <1>1, ForwardingTablesLead
    <3> QED BY <1>1, <2>1, <3>1 DEF TablesLead
  <2>3. D \in [NodeIds -> [NodeIds -> Nat]] /\ IsGraph(graph) /\ graph.nodes = NodeIds
    BY <1>1, DelaysAreDistances, ConnectedGraphsAre
  <2>4. ShortestDelays(graph') = D
    BY <2>1
  <2> HIDE DEF D
  <2>5. at' \in NodeIds /\ Linked(graph, at, at') /\ w \in Nat \ {0}
    BY <2>2, <2>3 DEF Neighbors, Linked, IsGraph
  <2>6. D[at'][dst] < D[at][dst] /\ D[at'][dst] \in Nat
    <3>1. D[at'][dst] \in Nat /\ D[at][dst] \in Nat
      BY <1>1, <2>3, <2>5
    <3> HIDE DEF w
    <3> QED BY <2>2, <2>5, <3>1
  <2>7. /\ history' \in Seq(NodeIds) /\ Len(history') = n + 1
        /\ history'[n + 1] = at' /\ \A i \in 1..n : history'[i] = history[i]
    BY <1>1, <2>1, <2>5, AppendProperties
  <2>8. n \in Nat /\ n >= 1 /\ history[n] = at /\ \A i \in 1..n : history[i] \in NodeIds
    BY <1>1
  <2> HIDE DEF n
  <2>9. HopTypes'
    BY <1>1, <2>1, <2>5, <2>7, <2>8 DEF HopTypes
  <2>10. HopsShorten'
    <3>1. ASSUME NEW i \in 1..n
          PROVE  /\ Linked(graph, history'[i], history'[i + 1])
                 /\ graph.delay[<<history'[i], history'[i + 1]>>] + D[history'[i + 1]][dst] = D[history'[i]][dst]
      <4>1. CASE i = n
        BY <2>2, <2>5, <2>7, <2>8, <4>1
      <4>2. CASE i # n
        <5>1. i \in 1..(n - 1) /\ i + 1 \in 1..n
          BY <2>8, <4>2
        <5>2. history'[i] = history[i] /\ history'[i + 1] = history[i + 1]
          BY <2>7, <5>1
        <5>3. /\ Linked(graph, history[i], history[i + 1])
              /\ graph.delay[<<history[i], history[i + 1]>>] + D[history[i + 1]][dst] = D[history[i]][dst]
          BY <5>1 DEF HopInv, HopsShorten, n, D
        <5> QED BY <5>2, <5>3
      <4> QED BY <4>1, <4>2
    <3>2. Len(history') - 1 = n
      BY <2>7, <2>8
    <3> QED BY <2>1, <2>4, <3>1, <3>2 DEF HopsShorten
  <2>11. EverNearer'
    <3>0. \A i, j \in 1..n : i < j => left(j) < left(i)
      BY DEF HopInv, EverNearer, n, D
    <3>1. ASSUME NEW i \in 1..(n + 1), NEW j \in 1..(n + 1), i < j
          PROVE  D[history'[j]][dst] < D[history'[i]][dst]
      <4>1. i \in 1..n /\ history'[i] = history[i] /\ left(i) \in Nat
        <5>1. i \in 1..n
          BY <2>8, <3>1
        <5>2. history'[i] = history[i] /\ history[i] \in NodeIds
          BY <2>7, <2>8, <5>1
        <5> QED BY <1>1, <2>3, <5>1, <5>2
      <4>2. CASE j # n + 1
        <5>1. j \in 1..n /\ history'[j] = history[j]
          BY <2>7, <2>8, <4>2
        <5> QED BY <3>0, <3>1, <4>1, <5>1
      <4>3. CASE j = n + 1
        <5>1. D[history'[j]][dst] < left(n)
          BY <2>6, <2>7, <2>8, <4>3
        <5>2. left(n) <= left(i)
          <6>1. n \in 1..n /\ left(n) \in Nat
            BY <1>1, <2>3, <2>8
          <6>2. i = n \/ i < n
            BY <2>8, <4>1
          <6> QED BY <3>0, <4>1, <6>1, <6>2
        <5>3. D[history'[j]][dst] \in Nat /\ left(n) \in Nat
          BY <1>1, <2>3, <2>5, <2>7, <2>8, <4>3
        <5> QED BY <4>1, <5>1, <5>2, <5>3
      <4> QED BY <4>2, <4>3
    <3> QED BY <2>1, <2>4, <2>7, <3>1 DEF EverNearer
  <2> QED BY <2>9, <2>10, <2>11 DEF HopInv
<1>3. CASE UNCHANGED vars
  BY <1>3 DEF vars, HopInv, HopTypes, HopsShorten, EverNearer
<1> QED BY <1>2, <1>3 DEF Next, Delivered

(* The packet's history is a way over links of the graph along which the   *)
(* destination comes nearer by exactly the delay of each hop, as every     *)
(* router looks up the next one (router.py:23-27) in the tables of         *)
(* graph.py:227-237.                                                       *)
THEOREM HopInvariant == Spec => []HopInv
<1>1. HopInv /\ [Next]_vars => HopInv'
  BY HopInvKept
<1> QED BY <1>1, HopInvStarts, PTL DEF Spec

(* A packet never meets a router again, whatever the graph, its delays and *)
(* the ties of the searches (packet.py:21).                                *)
THEOREM NoPacketLoops == Spec => []NoRoutingLoop
<1>1. HopInv => NoRoutingLoop
  <2> SUFFICES ASSUME HopInv, NEW i \in 1..Len(history), NEW j \in 1..Len(history), history[i] = history[j]
               PROVE  i = j
    BY DEF NoRoutingLoop
  <2> DEFINE D == ShortestDelays(graph)
  <2>1. \A m, n \in 1..Len(history) : m < n => D[history[n]][dst] < D[history[m]][dst]
    BY DEF HopInv, EverNearer
  <2>2. /\ graph \in ConnectedGraphs /\ dst \in NodeIds /\ history \in Seq(NodeIds)
    BY DEF HopInv, HopTypes
  <2>3. D \in [NodeIds -> [NodeIds -> Nat]]
    BY <2>2, DelaysAreDistances
  <2> HIDE DEF D
  <2>4. D[history[i]][dst] \in Nat /\ D[history[j]][dst] = D[history[i]][dst]
    BY <2>2, <2>3
  <2>5. ~(i < j) /\ ~(j < i)
    BY <2>1, <2>4
  <2>6. i \in Int /\ j \in Int
    OBVIOUS
  <2> QED BY <2>5, <2>6
<1> QED BY <1>1, HopInvariant, PTL

(* What the hops so far took, unfolded from its recursion. *)
LEMMA SpentIsSpared ==
  ASSUME HopInv
  PROVE  DelaySoFar + ShortestDelays(graph)[at][dst] = ShortestDelays(graph)[history[1]][dst]
<1> DEFINE D == ShortestDelays(graph)
           n == Len(history)
           w(i) == graph.delay[<<history[i], history[i + 1]>>]
           left(i) == D[history[i]][dst]
           U == [k \in 0..(n - 1) |-> {x \in Nat : x + left(k + 1) = left(1)}]
           step == [p \in (1..(n - 1)) \X Nat |-> p[2] + w(p[1])]
           Unfolds(f) == f = [i \in 1..n |->
             IF i = 1 THEN 0 ELSE f[i - 1] + graph.delay[<<history[i - 1], history[i]>>]]
           hops[i \in 1..Len(history)] ==
             IF i = 1 THEN 0 ELSE hops[i - 1] + graph.delay[<<history[i - 1], history[i]>>]
<1>1. /\ graph \in ConnectedGraphs /\ dst \in NodeIds
      /\ history \in Seq(NodeIds) /\ n \in Nat /\ n >= 1 /\ history[n] = at
  BY DEF HopInv, HopTypes
<1>2. D \in [NodeIds -> [NodeIds -> Nat]] /\ IsGraph(graph)
  BY <1>1, DelaysAreDistances, ConnectedGraphsAre
<1> HIDE DEF D
<1>3. \A i \in 1..n : history[i] \in NodeIds /\ left(i) \in Nat
  BY <1>1, <1>2
<1>4. \A i \in 1..(n - 1) : w(i) \in Nat /\ w(i) + left(i + 1) = left(i)
  <2>1. \A i \in 1..(n - 1) : Linked(graph, history[i], history[i + 1]) /\ w(i) + left(i + 1) = left(i)
    BY DEF HopInv, HopsShorten, D
  <2> QED BY <1>2, <2>1 DEF Linked, IsGraph
<1> HIDE DEF n, w, left
<1>5. 0 \in U[0] /\ n - 1 \in Nat /\ 0 \in 0..(n - 1)
  BY <1>1, <1>3
<1>6. ASSUME NEW k \in 1..(n - 1), NEW x \in U[k - 1] PROVE x + w(k) \in U[k] /\ x \in Nat
  <2>1. k - 1 \in 0..(n - 1) /\ k \in 0..(n - 1) /\ (k - 1) + 1 = k /\ k \in 1..n /\ k + 1 \in 1..n
    BY <1>1
  <2>2. x \in Nat /\ x + left(k) = left(1)
    BY <2>1
  <2>3. x + w(k) \in Nat /\ (x + w(k)) + left(k + 1) = left(1)
    BY <1>3, <1>4, <2>1, <2>2
  <2> QED BY <2>1, <2>2, <2>3
<1>7. ASSUME NEW f, f[0] = 0, \A k \in 1..(n - 1) : f[k - 1] \in U[k - 1] => f[k] = f[k - 1] + w(k)
      PROVE  \A k \in 0..(n - 1) : f[k] \in U[k]
  <2>1. \A k \in 1..(n - 1) : f[k - 1] \in U[k - 1] => f[k] \in U[k]
    <3> HIDE DEF U
    <3> QED BY <1>6, <1>7
  <2> HIDE DEF U
  <2> QED BY <1>5, <1>7, <2>1, StagesStay
<1>8. ASSUME NEW f, Unfolds(f) PROVE f[n] + left(n) = left(1)
  <2> DEFINE e == [k \in 0..(n - 1) |-> f[k + 1]]
  <2>1. f[1] = 0 /\ \A k \in 1..(n - 1) : f[k + 1] = f[k] + w(k)
    <3>1. \A i \in 1..n : f[i] = IF i = 1 THEN 0 ELSE f[i - 1] + graph.delay[<<history[i - 1], history[i]>>]
      BY <1>8
    <3>2. 1 \in 1..n /\ \A k \in 1..(n - 1) : k + 1 \in 1..n /\ k + 1 # 1 /\ (k + 1) - 1 = k
      BY <1>1
    <3> HIDE DEF Unfolds
    <3> QED BY <3>1, <3>2 DEF w
  <2>2. e[0] = 0 /\ \A k \in 1..(n - 1) : e[k] = e[k - 1] + w(k)
    <3>1. \A k \in 1..(n - 1) : k \in 0..(n - 1) /\ k - 1 \in 0..(n - 1) /\ (k - 1) + 1 = k
      BY <1>1
    <3>2. 0 + 1 = 1
      OBVIOUS
    <3> HIDE DEF Unfolds
    <3> QED BY <1>5, <2>1, <3>1, <3>2
  <2>3. e[n - 1] = f[n] /\ n - 1 \in 0..(n - 1) /\ (n - 1) + 1 = n
    BY <1>1
  <2> HIDE DEF e, U, Unfolds
  <2>4. e[n - 1] \in U[n - 1]
    BY <1>7, <2>2, <2>3
  <2> QED BY <2>3, <2>4 DEF U
<1>9. PICK h : IsUnrolled(h, n - 1, 0, step)
  <2> HIDE DEF step
  <2> QED BY <1>5, StagesExist
<1>10. Unfolds([i \in 1..n |-> h[i - 1]])
  <2>1. h[0] = 0 /\ \A k \in 1..(n - 1) : h[k] = step[<<k, h[k - 1]>>]
    <3> HIDE DEF step
    <3> QED BY <1>5, <1>9, UnrolledIs
  <2>2. ASSUME NEW k \in 1..(n - 1), h[k - 1] \in U[k - 1] PROVE h[k] = h[k - 1] + w(k)
    <3>1. h[k - 1] \in Nat
      <4> HIDE DEF U
      <4> QED BY <1>6, <2>2
    <3> HIDE DEF U
    <3> QED BY <2>1, <3>1
  <2>3. \A k \in 0..(n - 1) : h[k] \in U[k]
    <3> HIDE DEF U, step
    <3> QED BY <1>7, <2>1, <2>2
  <2> DEFINE f == [i \in 1..n |-> h[i - 1]]
  <2>4. ASSUME NEW i \in 1..n
        PROVE  f[i] = IF i = 1 THEN 0 ELSE f[i - 1] + graph.delay[<<history[i - 1], history[i]>>]
    <3>1. CASE i = 1
      BY <2>1, <3>1
    <3>2. CASE i # 1
      <4>1. i - 1 \in 1..(n - 1) /\ i - 1 \in 1..n /\ (i - 1) + 1 = i /\ (i - 1) - 1 \in 0..(n - 1)
        BY <1>1, <3>2
      <4>2. h[i - 1] = h[(i - 1) - 1] + w(i - 1)
        <5> HIDE DEF U, step
        <5> QED BY <2>2, <2>3, <4>1
      <4>3. f[i] = h[i - 1] /\ f[i - 1] = h[(i - 1) - 1]
        BY <4>1
      <4> HIDE DEF f
      <4> QED BY <3>2, <4>1, <4>2, <4>3 DEF w
    <3> QED BY <3>1, <3>2
  <2>5. f = [i \in 1..n |-> f[i]]
    OBVIOUS
  <2> HIDE DEF f
  <2>6. Unfolds(f)
    BY <2>4, <2>5
  <2> QED BY <2>6 DEF f
<1>11. DelaySoFar = hops[n]
  BY Zenon DEF DelaySoFar, n
<1>12. Unfolds(hops)
  <2>1. \E f : Unfolds(f)
    BY <1>10
  <2> QED BY <2>1, Zenon DEF n
<1>13. hops[n] + left(n) = left(1)
  <2> HIDE DEF hops, Unfolds
  <2> QED BY <1>8, <1>12
<1> QED BY <1>1, <1>11, <1>13 DEF left, D, n

(* The hops made so far and the shortest way left add up to the shortest   *)
(* way from the start (graph.py:195-237, router.py:23-27).                 *)
THEOREM PacketsTakeShortestRoutes == Spec => []OnShortestRoute
<1>1. HopInv => OnShortestRoute
  BY SpentIsSpared DEF OnShortestRoute
<1> QED BY <1>1, HopInvariant, PTL
=============================================================================
