---------------------------- MODULE RoutingProofs ----------------------------
(***************************************************************************)
(* That no router believes in too short a way, on every network, for every *)
(* latency, INFINITY and number of changes of links.                       *)
(*                                                                         *)
(* A cost is computed from a cost that was on a wire, and that one from    *)
(* the vector its sender had: what is on the wires must be bounded too,    *)
(* but for what is INFINITY or more, which nobody learns.  And the         *)
(* distance, which is computed hop by hop, is such a bound: the greatest.  *)
(***************************************************************************)
EXTENDS RoutingProperties, Induction

Vector == [out_port : Node, cost : Nat, age : Nat]

RoutingType ==
  /\ POISON_MODE \in BOOLEAN
  /\ up \subseteq Links
  /\ cache \in [Router -> Vector]
  /\ wire \in [Wires -> Seq(Nat)]

(* Lower bounds on the distance with every link up: nothing for the host   *)
(* itself, and at one end of a link at most the latency more than at the   *)
(* other.                                                                  *)
LowerBounds ==
  {f \in [Node -> Nat] :
     /\ f[Host] = 0
     /\ \A n, m \in Node : {n, m} \in Links => f[n] <= f[m] + Latency[{n, m}]}

(* A message that can be learnt from is not below the bound of its sender. *)
AtLeast(m, b) == m >= b \/ m >= INFINITY

Bounded(s, n, f) == \A k \in 1 .. Len(s) : AtLeast(s[k], f[n])

CostInv(f) ==
  /\ \A r \in Router : Known(r) => cache[r].cost >= f[r]
  /\ \A e \in Wires : Bounded(wire[e], e[1], f)

RoutingInv == RoutingType /\ \A f \in LowerBounds : CostInv(f)

-----------------------------------------------------------------------------
LEMMA NodesAndWires ==
  /\ Host \in Node /\ Router \subseteq Node
  /\ \A n \in Node : n # Host => n \in Router
  /\ \A e \in Wires : e[1] \in Node /\ e[2] \in Node /\ {e[1], e[2]} \in Links
  /\ \A e \in Wires : Latency[{e[1], e[2]}] \in Nat
  BY RoutingAssumption DEF Node, Wires

LEMMA BoundFacts ==
  ASSUME NEW f \in LowerBounds
  PROVE  /\ \A n \in Node : f[n] \in Nat
         /\ f[Host] = 0
         /\ \A e \in Wires : f[e[2]] <= f[e[1]] + Latency[{e[1], e[2]}]
<1>1. f \in [Node -> Nat] /\ f[Host] = 0
  BY DEF LowerBounds
<1>2. \A n \in Node : f[n] \in Nat
  BY <1>1
<1>3. ASSUME NEW e \in Wires
      PROVE  f[e[2]] <= f[e[1]] + Latency[{e[1], e[2]}]
  <2>1. {e[2], e[1]} = {e[1], e[2]}
    OBVIOUS
  <2>2. QED BY <2>1, NodesAndWires DEF LowerBounds
<1>4. QED BY <1>1, <1>2, <1>3

(* Sending adds one message to some of the wires of a node.                *)
LEMMA SentFacts ==
  ASSUME NEW w \in [Wires -> Seq(Nat)], NEW r \in Node, NEW ports, NEW m \in Nat,
         NEW f \in LowerBounds, \A e \in Wires : Bounded(w[e], e[1], f), AtLeast(m, f[r])
  PROVE  /\ Sent(w, r, ports, m) \in [Wires -> Seq(Nat)]
         /\ \A e \in Wires : Bounded(Sent(w, r, ports, m)[e], e[1], f)
<1>1. Sent(w, r, ports, m) \in [Wires -> Seq(Nat)]
  BY DEF Sent
<1>2. ASSUME NEW e \in Wires
      PROVE  Bounded(Sent(w, r, ports, m)[e], e[1], f)
  <2>1. w[e] \in Seq(Nat) /\ Bounded(w[e], e[1], f)
    OBVIOUS
  <2>2. e[1] = r => Bounded(Append(w[e], m), e[1], f)
    BY <2>1 DEF Bounded
  <2>3. QED BY <2>1, <2>2 DEF Sent
<1>3. QED BY <1>1, <1>2

LEMMA EmptyFacts ==
  << >> \in Seq(Nat) /\ \A n, f : Bounded(<< >>, n, f)
  BY DEF Bounded

(* Taking the first message of a wire leaves the others.                   *)
LEMMA TakenFacts ==
  ASSUME NEW w \in [Wires -> Seq(Nat)], NEW e \in Wires, w[e] # << >>, NEW f \in LowerBounds,
         \A x \in Wires : Bounded(w[x], x[1], f)
  PROVE  /\ Head(w[e]) \in Nat /\ AtLeast(Head(w[e]), f[e[1]])
         /\ [w EXCEPT ![e] = Tail(@)] \in [Wires -> Seq(Nat)]
         /\ \A x \in Wires : Bounded([w EXCEPT ![e] = Tail(@)][x], x[1], f)
<1>1. w[e] \in Seq(Nat) /\ Bounded(w[e], e[1], f)
  OBVIOUS
<1>2. Head(w[e]) \in Nat /\ AtLeast(Head(w[e]), f[e[1]]) /\ Tail(w[e]) \in Seq(Nat)
  BY <1>1 DEF Bounded
<1>3. Bounded(Tail(w[e]), e[1], f)
  BY <1>1 DEF Bounded
<1>4. QED BY <1>2, <1>3

-----------------------------------------------------------------------------
(* What the handlers of a router do to the invariant.                      *)
LEMMA ForgetStep ==
  ASSUME RoutingType, NEW r \in Router, NEW w \in [Wires -> Seq(Nat)], NEW ports,
         NEW f \in LowerBounds, \A e \in Wires : Bounded(w[e], e[1], f), CostInv(f),
         Forget(r, w, ports)
  PROVE  /\ cache' \in [Router -> Vector] /\ wire' \in [Wires -> Seq(Nat)]
         /\ CostInv(f)'
<1>1. NoVector \in Vector
  BY NodesAndWires DEF NoVector, Vector
<1>2. cache' = [cache EXCEPT ![r] = NoVector] /\ cache' \in [Router -> Vector]
  BY <1>1 DEF Forget, RoutingType
<1>3. \A x \in Router : Known(x)' => cache'[x].cost >= f[x]
  BY <1>2 DEF CostInv, Known, RoutingType
<1>4. INFINITY \in Nat /\ AtLeast(INFINITY, f[r])
  BY RoutingAssumption DEF AtLeast
<1>5. wire' \in [Wires -> Seq(Nat)] /\ \A e \in Wires : Bounded(wire'[e], e[1], f)
  BY <1>4, SentFacts, NodesAndWires DEF Forget
<1>6. QED BY <1>2, <1>3, <1>5 DEF CostInv

LEMMA LearnStep ==
  ASSUME RoutingType, NEW r \in Router, NEW w \in [Wires -> Seq(Nat)], NEW n \in Node,
         NEW cost \in Nat, NEW f \in LowerBounds, \A e \in Wires : Bounded(w[e], e[1], f),
         CostInv(f), cost >= f[r], Learn(r, w, n, cost)
  PROVE  /\ cache' \in [Router -> Vector] /\ wire' \in [Wires -> Seq(Nat)]
         /\ CostInv(f)'
<1>1. [out_port |-> n, cost |-> cost, age |-> 0] \in Vector
  BY DEF Vector
<1>2. /\ cache' = [cache EXCEPT ![r] = [out_port |-> n, cost |-> cost, age |-> 0]]
      /\ cache' \in [Router -> Vector]
  BY <1>1 DEF Learn, RoutingType
<1>3. \A x \in Router : Known(x)' => cache'[x].cost >= f[x]
  BY <1>2 DEF CostInv, Known, RoutingType
<1>4. wire' \in [Wires -> Seq(Nat)] /\ \A e \in Wires : Bounded(wire'[e], e[1], f)
  BY SentFacts, NodesAndWires DEF Learn, AtLeast
<1>5. QED BY <1>2, <1>3, <1>4 DEF CostInv

LEMMA HandleRxStep ==
  ASSUME RoutingType, NEW f \in LowerBounds, CostInv(f), NEW r \in Router, NEW n \in Node,
         HandleRx(r, n)
  PROVE  /\ cache' \in [Router -> Vector] /\ wire' \in [Wires -> Seq(Nat)]
         /\ CostInv(f)'
<1> DEFINE e == << n, r >>
           m == Head(wire[e])
           w == [wire EXCEPT ![e] = Tail(@)]
           latency == Latency[{r, n}]
<1>1. e \in Wires /\ wire[e] # << >> /\ wire \in [Wires -> Seq(Nat)]
  BY DEF HandleRx, RoutingType
<1>2. /\ m \in Nat /\ AtLeast(m, f[n])
      /\ w \in [Wires -> Seq(Nat)] /\ \A x \in Wires : Bounded(w[x], x[1], f)
  BY <1>1, TakenFacts DEF CostInv
<1>3. latency \in Nat /\ f[r] <= f[n] + latency /\ f[n] \in Nat /\ f[r] \in Nat
  <2>1. {n, r} = {r, n}
    OBVIOUS
  <2>2. QED BY <1>1, <2>1, BoundFacts, NodesAndWires
<1>4. m + latency \in Nat /\ (m < INFINITY => m + latency >= f[r])
  BY <1>2, <1>3, RoutingAssumption DEF AtLeast
<1>5. CASE m = Hello
  <2>1. Learn(r, w, n, latency)
    BY <1>5 DEF HandleRx
  <2>2. latency >= f[r]
    <3>1. m = 0
      BY <1>5 DEF Hello
    <3>2. f[n] = 0
      BY <1>2, <1>3, <3>1, RoutingAssumption DEF AtLeast
    <3>3. QED BY <1>3, <3>2
  <2>3. QED BY <1>2, <1>3, <2>1, <2>2, LearnStep
<1>6. CASE m # Hello
  <2>1. HandleRoute(r, n, w, m)
    BY <1>6 DEF HandleRx
  <2>2. CASE Forget(r, w, Ports(r) \ {n})
    BY <1>2, <2>2, ForgetStep
  <2>3. CASE m < INFINITY /\ Learn(r, w, n, m + latency)
    BY <1>2, <1>4, <2>3, LearnStep
  <2>4. CASE wire' = w /\ UNCHANGED cache
    BY <1>2, <2>4 DEF CostInv, Known, RoutingType
  <2>5. QED BY <2>1, <2>2, <2>3, <2>4 DEF HandleRoute
<1>7. QED BY <1>5, <1>6

(* The timers change ages and forget; what they send is what is known or a *)
(* poison.                                                                 *)
LEMMA HandleTimerStep ==
  ASSUME RoutingType, NEW f \in LowerBounds, CostInv(f), HandleTimer
  PROVE  /\ cache' \in [Router -> Vector] /\ wire' \in [Wires -> Seq(Nat)]
         /\ CostInv(f)'
<1>1. ASSUME NEW r \in Router
      PROVE  /\ cache'[r] \in Vector
             /\ Known(r)' => cache'[r].cost >= f[r]
  <2>1. cache[r] \in Vector /\ (Known(r) => cache[r].cost >= f[r]) /\ NoVector \in Vector
    BY NodesAndWires DEF RoutingType, CostInv, NoVector, Vector
  <2>2. CASE cache'[r] = NoVector
    BY <2>1, <2>2 DEF Known
  <2>3. CASE cache'[r] = cache[r]
    BY <2>1, <2>3 DEF Known
  <2>4. CASE Known(r) /\ cache'[r] = [cache[r] EXCEPT !.age = @ + 1]
    BY <2>1, <2>4 DEF Vector
  <2>5. QED BY <2>2, <2>3, <2>4 DEF HandleTimer
<1>2. cache' \in [Router -> Vector]
  BY <1>1 DEF HandleTimer
<1>3. ASSUME NEW e \in Wires
      PROVE  wire'[e] \in Seq(Nat) /\ Bounded(wire'[e], e[1], f)
  <2>1. wire[e] \in Seq(Nat) /\ Bounded(wire[e], e[1], f)
    BY DEF RoutingType, CostInv
  <2>2. CASE wire'[e] = wire[e]
    BY <2>1, <2>2
  <2>3. CASE e[1] \in Router /\ wire'[e] = Append(wire[e], Tells(e[1]).cost)
    <3>1. INFINITY \in Nat /\ AtLeast(INFINITY, f[e[1]])
      BY RoutingAssumption DEF AtLeast
    <3>2. Known(e[1]) => cache[e[1]].cost \in Nat /\ cache[e[1]].cost >= f[e[1]]
      BY <2>3 DEF RoutingType, CostInv, Vector
    <3>3. Tells(e[1]).cost \in Nat /\ AtLeast(Tells(e[1]).cost, f[e[1]])
      BY <3>1, <3>2 DEF Tells, AtLeast
    <3>4. QED BY <2>1, <2>3, <3>3 DEF Bounded
  <2>4. QED BY <2>2, <2>3 DEF HandleTimer
<1>4. wire' \in [Wires -> Seq(Nat)]
  BY <1>3 DEF HandleTimer
<1>5. QED BY <1>1, <1>2, <1>3, <1>4 DEF CostInv

LEMMA LinkDownStep ==
  ASSUME RoutingType, NEW f \in LowerBounds, CostInv(f), NEW l, LinkDown(l)
  PROVE  /\ cache' \in [Router -> Vector] /\ wire' \in [Wires -> Seq(Nat)]
         /\ CostInv(f)'
<1>1. ASSUME NEW r \in Router
      PROVE  /\ cache'[r] \in Vector
             /\ Known(r)' => cache'[r].cost >= f[r]
  <2>1. cache[r] \in Vector /\ (Known(r) => cache[r].cost >= f[r]) /\ NoVector \in Vector
    BY NodesAndWires DEF RoutingType, CostInv, NoVector, Vector
  <2>2. cache'[r] = NoVector \/ cache'[r] = cache[r]
    BY DEF LinkDown
  <2>3. QED BY <2>1, <2>2 DEF Known
<1>2. cache' \in [Router -> Vector]
  BY <1>1 DEF LinkDown
<1>3. ASSUME NEW e \in Wires
      PROVE  wire'[e] \in Seq(Nat) /\ Bounded(wire'[e], e[1], f)
  <2>1. wire[e] \in Seq(Nat) /\ Bounded(wire[e], e[1], f)
    BY DEF RoutingType, CostInv
  <2>2. INFINITY \in Nat /\ AtLeast(INFINITY, f[e[1]])
    BY RoutingAssumption DEF AtLeast
  <2>3. wire'[e] = << >> \/ wire'[e] = wire[e] \/ wire'[e] = Append(wire[e], INFINITY)
    BY DEF LinkDown
  <2>4. CASE wire'[e] = << >>
    BY <2>4, EmptyFacts
  <2>5. CASE wire'[e] = wire[e]
    BY <2>1, <2>5
  <2>6. CASE wire'[e] = Append(wire[e], INFINITY)
    BY <2>1, <2>2, <2>6 DEF Bounded
  <2>7. QED BY <2>3, <2>4, <2>5, <2>6
<1>4. wire' \in [Wires -> Seq(Nat)]
  BY <1>3 DEF LinkDown
<1>5. QED BY <1>1, <1>2, <1>3, <1>4 DEF CostInv

LEMMA LinkUpStep ==
  ASSUME RoutingType, NEW f \in LowerBounds, CostInv(f), NEW l, LinkUp(l)
  PROVE  wire' \in [Wires -> Seq(Nat)] /\ CostInv(f)'
<1>1. ASSUME NEW e \in Wires
      PROVE  wire'[e] \in Seq(Nat) /\ Bounded(wire'[e], e[1], f)
  <2>1. wire[e] \in Seq(Nat) /\ Bounded(wire[e], e[1], f)
    BY DEF RoutingType, CostInv
  <2>2. CASE wire'[e] = wire[e] \/ wire'[e] = << >>
    BY <2>1, <2>2, EmptyFacts
  <2>3. CASE e[1] = Host /\ wire'[e] = << Hello >>
    BY <2>3, BoundFacts DEF Bounded, Hello, AtLeast
  <2>4. CASE e[1] # Host /\ Known(e[1]) /\ wire'[e] = << cache[e[1]].cost >>
    <3>1. e[1] \in Router
      BY <2>4, NodesAndWires
    <3>2. cache[e[1]].cost \in Nat /\ cache[e[1]].cost >= f[e[1]]
      BY <3>1, <2>4 DEF RoutingType, CostInv, Vector
    <3>3. QED BY <2>4, <3>2 DEF Bounded, AtLeast
  <2>5. QED BY <2>2, <2>3, <2>4 DEF LinkUp
<1>2. wire' \in [Wires -> Seq(Nat)]
  BY <1>1 DEF LinkUp
<1>3. \A r \in Router : Known(r)' => cache'[r].cost >= f[r]
  BY DEF LinkUp, CostInv, Known
<1>4. QED BY <1>1, <1>2, <1>3 DEF CostInv

-----------------------------------------------------------------------------
LEMMA RoutingInvInit == Init => RoutingInv
<1> SUFFICES ASSUME Init PROVE RoutingInv
  OBVIOUS
<1>1. RoutingType
  BY NodesAndWires DEF Init, RoutingType, NoVector, Vector, Hello
<1>2. ASSUME NEW f \in LowerBounds
      PROVE  CostInv(f)
  BY BoundFacts DEF Init, CostInv, Known, Bounded, Hello, AtLeast
<1>3. QED BY <1>1, <1>2 DEF RoutingInv

(* The lower bounds do not change: no variable occurs in them.             *)
LEMMA RoutingInvStep == RoutingInv /\ [Next]_vars => RoutingInv'
<1> SUFFICES ASSUME RoutingInv, [Next]_vars PROVE RoutingInv'
  OBVIOUS
<1>1. POISON_MODE' \in BOOLEAN /\ up' \subseteq Links
  BY RoutingAssumption DEF RoutingInv, RoutingType, Next, HandleRx, HandleTimer, LinkDown,
     LinkUp, vars
<1>2. \E f \in LowerBounds : TRUE
  <2>1. [n \in Node |-> 0] \in LowerBounds
    <3>1. \A m, n \in Node : {m, n} \in Links => Latency[{m, n}] \in Nat
      BY RoutingAssumption
    <3>2. QED BY <3>1, NodesAndWires, RoutingAssumption DEF LowerBounds
  <2>2. QED BY <2>1
<1>3. ASSUME NEW f \in LowerBounds
      PROVE  /\ cache' \in [Router -> Vector] /\ wire' \in [Wires -> Seq(Nat)]
             /\ CostInv(f)'
  <2>1. RoutingType /\ CostInv(f)
    BY DEF RoutingInv
  <2>2. CASE \E r \in Router, n \in Node : HandleRx(r, n)
    BY <2>1, <2>2, HandleRxStep
  <2>3. CASE HandleTimer
    BY <2>1, <2>3, HandleTimerStep
  <2>4. CASE \E l \in Failing : LinkDown(l)
    BY <2>1, <2>4, LinkDownStep
  <2>5. CASE \E l \in Failing : LinkUp(l)
    <3>1. cache' = cache
      BY <2>5 DEF LinkUp
    <3>2. QED BY <2>1, <2>5, <3>1, LinkUpStep DEF RoutingType
  <2>6. CASE UNCHANGED vars
    BY <2>1, <2>6 DEF vars, RoutingType, CostInv, Known
  <2>7. QED BY <2>2, <2>3, <2>4, <2>5, <2>6 DEF Next
<1>4. QED BY <1>1, <1>2, <1>3 DEF RoutingInv, RoutingType

(* No router believes in a cost below a lower bound on the way to the      *)
(* host, on any network, with any latencies and any changes of its links.  *)
THEOREM NoShortcuts ==
  ASSUME NEW f \in LowerBounds
  PROVE  Spec => [](\A r \in Router : Known(r) => cache[r].cost >= f[r])
<1>1. RoutingInv => \A r \in Router : Known(r) => cache[r].cost >= f[r]
  BY DEF RoutingInv, CostInv
<1>2. QED BY <1>1, RoutingInvInit, RoutingInvStep, PTL DEF Spec

-----------------------------------------------------------------------------
Vectors == [Node -> 0 .. Far]

LEMMA MinFacts ==
  ASSUME NEW T \in SUBSET Nat, T # {}
  PROVE  Min(T) \in T /\ \A m \in T : Min(T) <= m
BY LeastNumber DEF Min

(* Closer, neighbour by neighbour.                                         *)
LEMMA CloserFacts ==
  ASSUME NEW links \in SUBSET Links, NEW d \in Vectors
  PROVE  /\ Closer(links, d) \in Vectors
         /\ Closer(links, d)[Host] = 0
         /\ \A n \in Node \ {Host} :
              /\ \A m \in Node : {n, m} \in links => Closer(links, d)[n] <= d[m] + Latency[{n, m}]
              /\ \/ Closer(links, d)[n] = Far
                 \/ \E m \in Node : {n, m} \in links /\ Closer(links, d)[n] = d[m] + Latency[{n, m}]
<1>1. /\ Host \in Node /\ Far \in Nat
      /\ \A n, m \in Node : {n, m} \in links => Latency[{n, m}] \in Nat
      /\ \A m \in Node : d[m] \in Nat
  BY RoutingAssumption DEF Node, Far, Vectors
<1>2. ASSUME NEW n \in Node \ {Host}
      PROVE  /\ Closer(links, d)[n] \in 0 .. Far
             /\ \A m \in Node : {n, m} \in links => Closer(links, d)[n] <= d[m] + Latency[{n, m}]
             /\ \/ Closer(links, d)[n] = Far
                \/ \E m \in Node : {n, m} \in links /\ Closer(links, d)[n] = d[m] + Latency[{n, m}]
  <2> DEFINE T == {Far} \cup {d[m] + Latency[{n, m}] : m \in {m \in Node : {n, m} \in links}}
  <2>1. T \in SUBSET Nat /\ Far \in T
    <3>1. \A m \in Node : {n, m} \in links => d[m] + Latency[{n, m}] \in Nat
      BY <1>1
    <3>2. QED BY <1>1, <3>1
  <2>2. Closer(links, d)[n] = Min(T)
    BY DEF Closer
  <2>3. \A m \in Node : {n, m} \in links => d[m] + Latency[{n, m}] \in T
    OBVIOUS
  <2>4. \A x \in T : x = Far \/ \E m \in Node : {n, m} \in links /\ x = d[m] + Latency[{n, m}]
    OBVIOUS
  <2> HIDE DEF T
  <2>5. Min(T) \in T /\ \A m \in T : Min(T) <= m
    BY <2>1, MinFacts
  <2>6. Closer(links, d)[n] \in 0 .. Far
    <3>1. Min(T) \in Nat /\ Min(T) <= Far
      BY <2>1, <2>5
    <3>2. QED BY <1>1, <2>2, <3>1
  <2>7. QED BY <2>2, <2>3, <2>4, <2>5, <2>6
<1>3. Closer(links, d)[Host] = 0
  BY <1>1 DEF Closer
<1>4. Closer(links, d) \in Vectors
  <2>1. ASSUME NEW n \in Node PROVE Closer(links, d)[n] \in 0 .. Far
    <3>1. CASE n = Host
      BY <3>1, <1>1, <1>3
    <3>2. CASE n # Host
      BY <3>2, <1>2
    <3>3. QED BY <3>1, <3>2
  <2>2. Closer(links, d) = [n \in Node |-> Closer(links, d)[n]]
    BY DEF Closer
  <2> DEFINE c == Closer(links, d)
  <2> HIDE DEF c
  <2>3. c = [n \in Node |-> c[n]] /\ \A n \in Node : c[n] \in 0 .. Far
    BY <2>1, <2>2 DEF c
  <2>4. c \in [Node -> 0 .. Far]
    BY <2>3
  <2>5. QED BY <2>4 DEF Vectors, c
<1>5. QED BY <1>2, <1>3, <1>4

(* Distances, hop by hop: the recursion is well-founded.                   *)
LEMMA Hops ==
  ASSUME NEW links \in SUBSET Links
  PROVE  \E within \in [0 .. Cardinality(Router) -> Vectors] :
           /\ within[0] = Farthest
           /\ \A k \in 1 .. Cardinality(Router) : within[k] = Closer(links, within[k - 1])
           /\ Distances[links] = within[Cardinality(Router)]
<1> DEFINE N == Cardinality(Router)
           F == [d \in Vectors |-> Closer(links, d)]
           Rec(w) == w = [k \in 0 .. N |-> IF k = 0 THEN Farthest ELSE Closer(links, w[k - 1])]
<1>1. N \in Nat
  BY RoutingAssumption, FS_CardinalityType
<1>2. Farthest \in Vectors /\ F \in [Vectors -> Vectors]
  <2>1. Farthest \in Vectors
    BY RoutingAssumption DEF Farthest, Vectors, Far
  <2>2. QED BY <2>1, CloserFacts
<1>3. Distances[links] = (CHOOSE x : Rec(x))[N]
  BY Zenon DEF Distances
<1> HIDE DEF F, N
<1>4. PICK g \in [0 .. N -> Vectors] : g[0] = Farthest /\ \A k \in 1 .. N : g[k] = F[g[k - 1]]
  <2>1. PICK g : g \in Iterations(Vectors, Farthest, F, N)
    BY <1>1, <1>2, IterationExists
  <2>2. QED BY <2>1 DEF Iterations
<1>5. \A k \in 1 .. N : g[k] = Closer(links, g[k - 1])
  <2>1. \A d \in Vectors : F[d] = Closer(links, d)
    BY DEF F
  <2>2. ASSUME NEW k \in 1 .. N PROVE g[k - 1] \in Vectors
    BY <1>1
  <2>3. QED BY <1>4, <2>1, <2>2
<1>6. Rec(g)
  BY <1>1, <1>4, <1>5
<1> HIDE DEF Rec
<1>7. \E w : w = (CHOOSE x : Rec(x)) /\ Rec(w)
  BY <1>6, Zenon
<1>8. PICK w : w = (CHOOSE x : Rec(x)) /\ Rec(w)
  BY <1>7
<1>9. w[0] = Farthest /\ \A k \in 1 .. N : w[k] = Closer(links, w[k - 1])
  <2>1. w = [k \in 0 .. N |-> IF k = 0 THEN Farthest ELSE Closer(links, w[k - 1])]
    BY <1>8 DEF Rec
  <2>2. 0 \in 0 .. N /\ \A k \in 1 .. N : k \in 0 .. N /\ k # 0
    BY <1>1
  <2> DEFINE u == w
  <2> HIDE DEF u
  <2>3. u = [k \in 0 .. N |-> IF k = 0 THEN Farthest ELSE Closer(links, w[k - 1])]
    BY <2>1 DEF u
  <2>4. u[0] = Farthest /\ \A k \in 1 .. N : u[k] = Closer(links, w[k - 1])
    BY <2>2, <2>3
  <2>5. QED BY <2>4 DEF u
<1>10. w \in [0 .. N -> Vectors]
  <2> DEFINE S == {k \in 0 .. N : w[k] \in Vectors}
  <2>1. 0 \in S
    BY <1>1, <1>2, <1>9
  <2>2. ASSUME NEW k \in 1 .. N, k - 1 \in S PROVE k \in S
    <3>1. w[k - 1] \in Vectors /\ w[k] = Closer(links, w[k - 1]) /\ k \in 0 .. N
      BY <1>1, <1>9, <2>2
    <3>2. w[k] \in Vectors
      BY <3>1, CloserFacts
    <3>3. QED BY <3>1, <3>2
  <2> HIDE DEF S
  <2>3. \A k \in 0 .. N : k \in S
    BY <1>1, <2>1, <2>2, UpTo
  <2>4. \A k \in 0 .. N : w[k] \in Vectors
    BY <2>3 DEF S
  <2>5. w = [k \in 0 .. N |-> w[k]]
    BY <1>8 DEF Rec
  <2>6. QED BY <2>4, <2>5
<1>11. QED BY <1>3, <1>8, <1>9, <1>10 DEF N

(* The lower bounds on the distances over a set of links.                  *)
Bounds(links) ==
  {f \in Vectors :
     /\ f[Host] = 0
     /\ \A n, m \in Node : {n, m} \in links => f[n] <= f[m] + Latency[{n, m}]}

LEMMA GreatestNumber ==
  ASSUME NEW N \in Nat, NEW T \in SUBSET (0 .. N), T # {}
  PROVE  \E n \in T : \A m \in T : m <= n
<1> DEFINE U == {N - m : m \in T}
<1>1. U \in SUBSET Nat /\ U # {}
  <2>1. \A m \in T : N - m \in Nat
    OBVIOUS
  <2>2. QED BY <2>1
<1>2. \A m \in T : N - m \in U
  OBVIOUS
<1>3. \A u \in U : \E n \in T : u = N - n
  OBVIOUS
<1> HIDE DEF U
<1>4. PICK u \in U : \A v \in U : u <= v
  BY <1>1, LeastNumber
<1>5. PICK n \in T : u = N - n
  BY <1>3
<1>6. ASSUME NEW m \in T PROVE m <= n
  <2>1. N - n <= N - m
    BY <1>2, <1>4, <1>5
  <2>2. n \in 0 .. N /\ m \in 0 .. N
    OBVIOUS
  <2>3. QED BY <2>1, <2>2
<1>7. QED BY <1>6

(* There is a greatest lower bound, and it is what a neighbour gives.      *)
LEMMA GreatestBound ==
  ASSUME NEW links \in SUBSET Links
  PROVE  \E p \in Bounds(links) :
           /\ \A f \in Bounds(links) : \A n \in Node : f[n] <= p[n]
           /\ \A n \in Node \ {Host} :
                \/ p[n] = Far
                \/ \E m \in Node : /\ {n, m} \in links
                                  /\ p[m] + Latency[{n, m}] <= p[n]
                                  /\ p[m] < p[n]
<1> DEFINE At(n) == {f[n] : f \in Bounds(links)}
           Greatest(n, x) == x \in At(n) /\ \A y \in At(n) : y <= x
           p == [n \in Node |-> CHOOSE x : Greatest(n, x)]
<1>1. /\ Host \in Node /\ Far \in Nat
      /\ \A n, m \in Node : {n, m} \in links => Latency[{n, m}] \in Nat \ {0}
      /\ \A f \in Bounds(links) : \A n \in Node : f[n] \in 0 .. Far
  BY RoutingAssumption DEF Node, Far, Vectors, Bounds
<1>2. [n \in Node |-> 0] \in Bounds(links)
  BY <1>1 DEF Bounds, Vectors
<1>3. ASSUME NEW n \in Node PROVE Greatest(n, p[n])
  <2>1. At(n) \in SUBSET (0 .. Far)
    BY <1>1
  <2>2. At(n) # {}
    BY <1>2
  <2>3. \E x \in At(n) : \A y \in At(n) : y <= x
    <3> HIDE DEF At
    <3>1. QED BY <1>1, <2>1, <2>2, GreatestNumber
  <2>4. \E x : Greatest(n, x)
    BY <2>3
  <2>5. p[n] = CHOOSE x : Greatest(n, x)
    OBVIOUS
  <2> HIDE DEF Greatest, p
  <2>6. QED BY <2>4, <2>5, Zenon
<1>4. \A n \in Node : p[n] \in 0 .. Far
  BY <1>1, <1>3
<1>5. \A f \in Bounds(links) : \A n \in Node : f[n] <= p[n]
  BY <1>3
<1>6. \A n \in Node : \E f \in Bounds(links) : p[n] = f[n]
  BY <1>3
<1>7. p = [n \in Node |-> p[n]]
  OBVIOUS
<1> HIDE DEF p
<1>8. p \in Vectors
  BY <1>4, <1>7 DEF Vectors
<1>9. p \in Bounds(links)
  <2>1. p[Host] = 0
    BY <1>1, <1>6 DEF Bounds
  <2>2. ASSUME NEW n \in Node, NEW m \in Node, {n, m} \in links
        PROVE  p[n] <= p[m] + Latency[{n, m}]
    <3>1. PICK f \in Bounds(links) : p[n] = f[n]
      BY <1>6
    <3>2. f[n] <= f[m] + Latency[{n, m}] /\ f[m] <= p[m]
      BY <1>5, <2>2 DEF Bounds
    <3>3. f[n] \in Nat /\ f[m] \in Nat /\ p[m] \in Nat /\ Latency[{n, m}] \in Nat
      BY <1>1, <1>4, <2>2
    <3>4. QED BY <3>1, <3>2, <3>3
  <2>3. QED BY <1>8, <2>1, <2>2 DEF Bounds
<1>10. ASSUME NEW n \in Node \ {Host}, p[n] # Far
       PROVE  \E m \in Node : /\ {n, m} \in links
                             /\ p[m] + Latency[{n, m}] <= p[n]
                             /\ p[m] < p[n]
  <2>1. SUFFICES ASSUME \A m \in Node : {n, m} \in links => ~(p[m] + Latency[{n, m}] <= p[n])
                 PROVE  FALSE
    <3>1. \A m \in Node : {n, m} \in links /\ p[m] + Latency[{n, m}] <= p[n] => p[m] < p[n]
      BY <1>1, <1>4
    <3>2. QED BY <3>1
  <2> DEFINE f == [p EXCEPT ![n] = p[n] + 1]
  <2>2. /\ f[n] = p[n] + 1 /\ \A m \in Node : m # n => f[m] = p[m]
        /\ \A m \in Node : f[m] \in Nat /\ p[m] \in Nat /\ p[m] <= f[m]
    BY <1>4, <1>8 DEF Vectors
  <2>3. f \in Vectors
    BY <1>1, <1>4, <1>8, <1>10 DEF Vectors
  <2> HIDE DEF f
  <2>4. ASSUME NEW k \in Node, NEW m \in Node, {k, m} \in links
        PROVE  f[k] <= f[m] + Latency[{k, m}]
    <3>1. Latency[{k, m}] \in Nat \ {0} /\ p[k] <= p[m] + Latency[{k, m}]
      BY <1>1, <1>9, <2>4 DEF Bounds
    <3>2. CASE k = n
      <4>1. ~(p[m] + Latency[{k, m}] <= p[n])
        BY <2>1, <2>4, <3>2
      <4>2. QED BY <2>2, <3>1, <3>2, <4>1
    <3>3. CASE k # n
      BY <2>2, <3>1, <3>3
    <3>4. QED BY <3>2, <3>3
  <2>5. f \in Bounds(links)
    BY <1>9, <1>1, <2>2, <2>3, <2>4 DEF Bounds
  <2>6. f[n] <= p[n]
    BY <1>5, <2>5
  <2>7. QED BY <1>4, <2>2, <2>6
<1>11. QED BY <1>5, <1>9, <1>10

(* The distance that is computed hop by hop is the greatest lower bound:   *)
(* after k hops the distances of k + 1 nodes are final.                    *)
THEOREM DistanceIsGreatestBound ==
  ASSUME NEW links \in SUBSET Links
  PROVE  /\ Distances[links] \in Bounds(links)
         /\ \A f \in Bounds(links) : \A n \in Node : f[n] <= Distances[links][n]
<1> DEFINE N == Cardinality(Router)
<1>1. PICK p \in Bounds(links) :
        /\ \A f \in Bounds(links) : \A n \in Node : f[n] <= p[n]
        /\ \A n \in Node \ {Host} :
             \/ p[n] = Far
             \/ \E m \in Node : /\ {n, m} \in links
                               /\ p[m] + Latency[{n, m}] <= p[n]
                               /\ p[m] < p[n]
  BY GreatestBound
<1>2. PICK within \in [0 .. N -> Vectors] :
        /\ within[0] = Farthest
        /\ \A k \in 1 .. N : within[k] = Closer(links, within[k - 1])
        /\ Distances[links] = within[N]
  BY Hops
<1>3. /\ N \in Nat /\ IsFiniteSet(Node) /\ Cardinality(Node) = N + 1
      /\ Host \in Node /\ Far \in Nat
  <2>1. IsFiniteSet(Node) /\ Cardinality(Node) = Cardinality(Router) + 1
    BY RoutingAssumption, FS_AddElement DEF Node
  <2>2. QED BY <2>1, FS_CardinalityType, RoutingAssumption DEF Node, Far
<1>4. \A n, m \in Node : {n, m} \in links => Latency[{n, m}] \in Nat
  BY RoutingAssumption
<1>5. /\ p[Host] = 0 /\ \A n \in Node : p[n] \in 0 .. Far
      /\ \A n, m \in Node : {n, m} \in links => p[n] <= p[m] + Latency[{n, m}]
  BY DEF Bounds, Vectors
<1> HIDE DEF N
<1>6. ASSUME NEW k \in 1 .. N
      PROVE  /\ k - 1 \in 0 .. N /\ k \in 0 .. N
             /\ within[k][Host] = 0
             /\ \A n \in Node \ {Host} :
                  /\ \A m \in Node : {n, m} \in links => within[k][n] <= within[k - 1][m] + Latency[{n, m}]
                  /\ \/ within[k][n] = Far
                     \/ \E m \in Node : {n, m} \in links /\ within[k][n] = within[k - 1][m] + Latency[{n, m}]
  <2>1. k - 1 \in 0 .. N /\ k \in 0 .. N
    BY <1>3
  <2>2. within[k - 1] \in Vectors /\ within[k] = Closer(links, within[k - 1])
    BY <1>2, <2>1
  <2>3. PICK d \in Vectors : d = within[k - 1]
    BY <2>2
  <2>4. within[k] = Closer(links, d)
    BY <2>2, <2>3
  <2> DEFINE c == Closer(links, d)
  <2>5. /\ c[Host] = 0
        /\ \A n \in Node \ {Host} :
             /\ \A m \in Node : {n, m} \in links => c[n] <= d[m] + Latency[{n, m}]
             /\ \/ c[n] = Far
                \/ \E m \in Node : {n, m} \in links /\ c[n] = d[m] + Latency[{n, m}]
    BY CloserFacts
  <2>6. within[k] = c
    BY <2>4
  <2> HIDE DEF c
  <2>7. QED BY <2>1, <2>3, <2>5, <2>6
<1>7. \A k \in 0 .. N : \A n \in Node : within[k][n] \in 0 .. Far
  <2>1. \A k \in 0 .. N : within[k] \in Vectors
    OBVIOUS
  <2>2. QED BY <2>1 DEF Vectors
<1>8. \A k \in 0 .. N : \A n \in Node : p[n] <= within[k][n]
  <2> DEFINE S == {k \in 0 .. N : \A n \in Node : p[n] <= within[k][n]}
  <2>1. 0 \in S
    <3>1. \A n \in Node : p[n] <= within[0][n]
      BY <1>2, <1>3, <1>5 DEF Farthest
    <3>2. QED BY <1>3, <3>1
  <2>2. ASSUME NEW k \in 1 .. N, k - 1 \in S PROVE k \in S
    <3>1. ASSUME NEW n \in Node PROVE p[n] <= within[k][n]
      <4>1. CASE n = Host
        BY <4>1, <1>5, <1>6
      <4>2. CASE within[k][n] = Far
        BY <4>2, <1>3, <1>5
      <4>3. CASE \E m \in Node : {n, m} \in links /\ within[k][n] = within[k - 1][m] + Latency[{n, m}]
        <5>1. PICK m \in Node : {n, m} \in links /\ within[k][n] = within[k - 1][m] + Latency[{n, m}]
          BY <4>3
        <5>2. p[m] <= within[k - 1][m]
          BY <2>2
        <5>3. p[n] <= p[m] + Latency[{n, m}] /\ Latency[{n, m}] \in Nat
          BY <1>4, <1>5, <5>1
        <5>4. p[m] \in Nat /\ p[n] \in Nat
          BY <1>3, <1>5
        <5>5. within[k - 1][m] \in Nat
          BY <1>6, <1>7, <1>3
        <5>6. QED BY <5>1, <5>2, <5>3, <5>4, <5>5
      <4>4. QED BY <4>1, <4>2, <4>3, <1>6
    <3>2. QED BY <1>6, <3>1
  <2> HIDE DEF S
  <2>3. \A k \in 0 .. N : k \in S
    BY <1>3, <2>1, <2>2, UpTo
  <2>4. QED BY <2>3 DEF S
<1> DEFINE Final(k, D) ==
      /\ D \in SUBSET Node /\ Host \in D
      /\ \A n \in D : within[k][n] = p[n]
      /\ \A n \in D \ {Host} :
           \/ p[n] = Far
           \/ \E m \in D : {n, m} \in links /\ p[m] + Latency[{n, m}] <= p[n]
      /\ Cardinality(D) >= k + 1 \/ D = Node
<1>9. \A k \in 0 .. N : \E D : Final(k, D)
  <2> DEFINE S == {k \in 0 .. N : \E D : Final(k, D)}
  <2>1. 0 \in S
    <3>1. Cardinality({Host}) = 1
      BY FS_Singleton
    <3>2. within[0][Host] = p[Host]
      BY <1>2, <1>3, <1>5 DEF Farthest
    <3>3. Final(0, {Host})
      BY <1>3, <3>1, <3>2
    <3> HIDE DEF Final
    <3>4. QED BY <1>3, <3>3
  <2>2. ASSUME NEW k \in 1 .. N, k - 1 \in S PROVE k \in S
    <3>1. PICK D : Final(k - 1, D)
      BY <2>2
    <3>2. ASSUME NEW n \in Node \ {Host}, 
                 \/ p[n] = Far
                 \/ \E m \in D : {n, m} \in links /\ p[m] + Latency[{n, m}] <= p[n]
          PROVE  within[k][n] = p[n]
      <4>1. /\ within[k][n] \in 0 .. Far /\ p[n] \in 0 .. Far /\ p[n] <= within[k][n]
        BY <1>5, <1>6, <1>7, <1>8
      <4>2. CASE p[n] = Far
        BY <1>3, <4>1, <4>2
      <4>3. ASSUME NEW m \in D, {n, m} \in links, p[m] + Latency[{n, m}] <= p[n]
            PROVE  within[k][n] = p[n]
        <5>1. m \in Node /\ within[k - 1][m] = p[m]
          BY <3>1
        <5>2. within[k][n] <= within[k - 1][m] + Latency[{n, m}]
          BY <1>6, <4>3, <5>1
        <5>3. p[m] \in Nat /\ Latency[{n, m}] \in Nat /\ within[k][n] \in Nat /\ p[n] \in Nat
          BY <1>3, <1>4, <1>5, <4>1, <4>3, <5>1
        <5>4. QED BY <4>1, <4>3, <5>1, <5>2, <5>3
      <4>4. QED BY <3>2, <4>2, <4>3
    <3>3. \A n \in D : within[k][n] = p[n]
      <4>1. within[k][Host] = p[Host]
        BY <1>5, <1>6
      <4>2. \A n \in D \ {Host} : within[k][n] = p[n]
        BY <3>1, <3>2
      <4>3. QED BY <4>1, <4>2
    <3>4. CASE D = Node
      <4>1. Final(k, D)
        BY <3>1, <3>3, <3>4
      <4> HIDE DEF Final
      <4>2. QED BY <1>6, <4>1
    <3>5. CASE D # Node
      <4> DEFINE T == {p[n] : n \in Node \ D}
      <4>1. T \in SUBSET Nat /\ T # {}
        <5>1. \A n \in Node : p[n] \in Nat
          BY <1>3, <1>5
        <5>2. \E n : n \in Node \ D
          BY <3>1, <3>5
        <5>3. QED BY <5>1, <5>2
      <4>2. \A n \in Node \ D : p[n] \in T
        OBVIOUS
      <4>3. \A t \in T : \E n \in Node \ D : t = p[n]
        OBVIOUS
      <4> HIDE DEF T
      <4>4. PICK t \in T : \A u \in T : t <= u
        BY <4>1, LeastNumber
      <4>5. PICK n \in Node \ D : t = p[n]
        BY <4>3
      <4>6. \/ p[n] = Far
            \/ \E m \in D : {n, m} \in links /\ p[m] + Latency[{n, m}] <= p[n]
        <5>1. n \in Node \ {Host}
          BY <3>1, <4>5
        <5>2. ASSUME NEW m \in Node, p[m] < p[n] PROVE m \in D
          <6>1. p[m] \in Nat /\ p[n] \in Nat
            BY <1>3, <1>5
          <6>2. QED BY <4>2, <4>4, <4>5, <5>2, <6>1
        <5>3. QED BY <1>1, <5>1, <5>2
      <4>7. within[k][n] = p[n]
        BY <3>1, <3>2, <4>5, <4>6
      <4>8. Cardinality(D \cup {n}) >= k + 1
        <5>1. IsFiniteSet(D)
          BY <1>3, <3>1, FS_Subset
        <5>2. Cardinality(D \cup {n}) = Cardinality(D) + 1 /\ Cardinality(D) \in Nat
          BY <4>5, <5>1, FS_AddElement, FS_CardinalityType
        <5>3. Cardinality(D) >= (k - 1) + 1
          BY <3>1, <3>5
        <5>4. QED BY <5>2, <5>3
      <4>9. Final(k, D \cup {n})
        BY <3>1, <3>3, <4>5, <4>6, <4>7, <4>8
      <4> HIDE DEF Final
      <4>10. QED BY <1>6, <4>9
    <3>6. QED BY <3>4, <3>5
  <2> HIDE DEF S
  <2>3. \A k \in 0 .. N : k \in S
    BY <1>3, <2>1, <2>2, UpTo
  <2>4. QED BY <2>3 DEF S
<1>10. PICK D : Final(N, D)
  <2>1. N \in 0 .. N
    BY <1>3
  <2> HIDE DEF Final
  <2>2. QED BY <1>9, <2>1
<1>11. D = Node
  <2>1. CASE Cardinality(D) >= N + 1
    <3>1. Cardinality(D) <= Cardinality(Node) /\ (Cardinality(D) = Cardinality(Node) => D = Node)
      BY <1>3, <1>10, FS_Subset
    <3>2. Cardinality(D) \in Nat
      BY <1>3, <1>10, FS_Subset, FS_CardinalityType
    <3>3. QED BY <1>3, <2>1, <3>1, <3>2
  <2>2. QED BY <1>10, <2>1
<1>12. \A n \in Node : within[N][n] = p[n]
  BY <1>10, <1>11
<1>13. within[N] = p
  <2>1. within[N] \in Vectors /\ p \in Vectors
    BY <1>3 DEF Bounds
  <2>2. QED BY <1>12, <2>1 DEF Vectors
<1>14. QED BY <1>1, <1>2, <1>13

(* No router believes in a shorter way to the host than there is with      *)
(* every link up (CostsReal), on any network.                              *)
THEOREM CostsAreReal == Spec => []CostsReal
<1> DEFINE f == Distances[Links]
<1>1. f \in LowerBounds
  <2>1. f \in Bounds(Links)
    BY DistanceIsGreatestBound
  <2>2. Far \in Nat
    BY RoutingAssumption DEF Far
  <2> HIDE DEF f
  <2>3. QED BY <2>1, <2>2 DEF Bounds, LowerBounds, Vectors
<1>2. \A r \in Router : f[r] = Distance(Links, r)
  BY DEF Distance
<1> HIDE DEF f
<1>3. RoutingInv => CostsReal
  BY <1>1, <1>2, NodesAndWires DEF RoutingInv, CostInv, CostsReal
<1>4. QED BY <1>3, RoutingInvInit, RoutingInvStep, PTL DEF Spec

=============================================================================
