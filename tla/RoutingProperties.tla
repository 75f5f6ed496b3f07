-------------------------- MODULE RoutingProperties -------------------------
(***************************************************************************)
(* What the routers owe to the host's senders.                             *)
(***************************************************************************)
EXTENDS Routing, FiniteSetsExt

(* The distance to the host over a set of links: within[k] allows k hops,  *)
(* and the next one takes each node's best neighbour.                      *)
Far == INFINITY + 1

Farthest == [n \in Node |-> IF n = Host THEN 0 ELSE Far]

Closer(links, d) ==
  [n \in Node |->
     IF n = Host THEN 0
     ELSE Min({Far} \cup {d[m] + Latency[{n, m}] : m \in {m \in Node : {n, m} \in links}})]

Distances ==
  [links \in SUBSET Links |->
     LET within[k \in 0 .. Cardinality(Router)] ==
           IF k = 0 THEN Farthest ELSE Closer(links, within[k - 1])
     IN within[Cardinality(Router)]]

Distance(links, r) == Distances[links][r]

Reachable(r) == Distance(up, r) <= INFINITY

(* No router ever believes in a shorter way to the host than there could   *)
(* be with every link up, whatever late, lost and poisoned routes it heard.*)
CostsReal ==
  \A r \in Router : Known(r) => cache[r].cost >= Distance(Links, r)

(* A router that stays cut off from the host forgets it for good: the cut  *)
(* off routers do not keep a route alive by telling it to each other.      *)
StaleRoutesDie ==
  \A r \in Router : <>[]~Reachable(r) => <>[]~Known(r)

(* A router the host can be reached from has the shortest route to it      *)
(* again and again.  It loses it in between, when the vector expires.      *)
RoutesFound ==
  \A r \in Router :
    (<>[]Reachable(r)) => []<>(Known(r) /\ cache[r].cost = Distance(up, r))

=============================================================================
