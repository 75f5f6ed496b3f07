------------------------------- MODULE Routing ------------------------------
(***************************************************************************)
(* The distance vector router (dv_router.py): routers that tell their      *)
(* neighbours what a host costs, over links that go down and come back.    *)
(* Hosts do not affect each other's routes, so one is enough.  A port is   *)
(* named by the neighbour at its other end.  A link delivers in order and  *)
(* drops what is on the wire when it goes down (BasicCable).  Data packets *)
(* follow the routes and change nothing.                                   *)
(***************************************************************************)
EXTENDS Integers, Sequences, FiniteSets

CONSTANTS
  Router, Host,
  Links,            (* sets of two neighbours                              *)
  Latency,          (* of a link                                           *)
  INFINITY,         (* the cost that is a poison                           *)
  MaxAge,           (* the timer that finds a vector INFINITY seconds old  *)
  StillOnWire,      (* how much a link still carries when the timers fire  *)
  Failing,          (* the links that may go down and come back            *)
  MaxChanges        (* bound: links that go up or down                     *)

ASSUME RoutingAssumption ==
  /\ IsFiniteSet(Router) /\ Host \notin Router
  /\ Failing \subseteq Links
  /\ \A l \in Links : l \subseteq Router \cup {Host} /\ Cardinality(l) = 2
  /\ Latency \in [Links -> Nat \ {0}]
  /\ INFINITY \in Nat \ {0} /\ MaxAge \in Nat /\ StillOnWire \in Nat /\ MaxChanges \in Nat

Node == Router \cup {Host}

VARIABLES
  POISON_MODE,      (* set once for all routers                            *)
  up,               (* the links that are up                               *)
  cache,            (* the vector of each router                           *)
  host_ports,       (* the routers that ever saw the host at a port        *)
  wire,             (* what is on the way from a node to a neighbour       *)
  changes

vars == << POISON_MODE, up, cache, host_ports, wire, changes >>

Wires == {e \in Node \X Node : {e[1], e[2]} \in Links}

Ports(r) == {n \in Node : {r, n} \in up}

NoVector == [out_port |-> Host, cost |-> 0, age |-> 0]
Known(r) == cache[r] # NoVector

Hello == 0          (* a HostDiscoveryPacket; a route has a cost above it  *)

(* The wires after r sent m out of the given ports.                        *)
Sent(w, r, ports, m) ==
  [e \in Wires |-> IF e[1] = r /\ e[2] \in ports /\ e[2] # Host THEN Append(w[e], m) ELSE w[e]]

Init ==
  /\ POISON_MODE \in BOOLEAN
  /\ up = Links
  /\ cache = [r \in Router |-> NoVector]
  /\ host_ports = {}
  /\ wire = [e \in Wires |-> IF e[1] = Host THEN << Hello >> ELSE << >>]
  /\ changes = 0

---------------------------------------------------------------------------
(* r forgets its route, and says so out of the given ports.                *)
Forget(r, w, ports) ==
  /\ cache' = [cache EXCEPT ![r] = NoVector]
  /\ wire' = IF POISON_MODE THEN Sent(w, r, ports, INFINITY) ELSE w

Learn(r, w, n, cost) ==
  /\ cache' = [cache EXCEPT ![r] = [out_port |-> n, cost |-> cost, age |-> 0]]
  /\ wire' = Sent(w, r, Ports(r), cost)

(* Mutant: the latency of the link is not added.                           *)
HandleRouteFree(r, n, w, latency) ==
  CASE latency >= INFINITY /\ Known(r) /\ cache[r].out_port = n ->
         Forget(r, w, Ports(r) \ {n})
    [] latency < INFINITY /\ (~Known(r) \/ cache[r].cost > latency) ->
         Learn(r, w, n, latency)
    [] OTHER -> wire' = w /\ UNCHANGED cache

(* A route from a neighbour: a poison counts when it comes from the port   *)
(* the route leaves by, and a cost when it is a better one.                *)
HandleRoute(r, n, w, latency) ==
  LET cost == latency + Latency[{r, n}]
  IN CASE latency >= INFINITY /\ Known(r) /\ cache[r].out_port = n ->
            Forget(r, w, Ports(r) \ {n})
       [] latency < INFINITY /\ (~Known(r) \/ cache[r].cost > cost) ->
            Learn(r, w, n, cost)
       [] OTHER -> wire' = w /\ UNCHANGED cache

HandleRx(r, n) ==
  /\ << n, r >> \in Wires /\ wire[<< n, r >>] # << >>
  /\ LET m == Head(wire[<< n, r >>])
         w == [wire EXCEPT ![<< n, r >>] = Tail(@)]
     IN IF m = Hello
          THEN /\ host_ports' = host_ports \cup {r}
               /\ Learn(r, w, n, Latency[{r, n}])
          ELSE /\ HandleRoute(r, n, w, m)
               /\ UNCHANGED host_ports
  /\ UNCHANGED << POISON_MODE, up, changes >>

(* Mutant: vectors expire only when there is a poison to send.             *)
OldWhenPoisoning(r) ==
  POISON_MODE /\ Known(r) /\ cache[r].age + 1 >= MaxAge /\ r \notin host_ports

(* A vector that is too old when the timer fires is forgotten, unless the  *)
(* host was once at a port of the router itself.                           *)
Old(r) == Known(r) /\ cache[r].age + 1 >= MaxAge /\ r \notin host_ports

(* Mutant: the timer sends poisons and leaves the routes to the changes.   *)
TellsPoison(r) ==
  [ports |-> IF Old(r) /\ POISON_MODE THEN Ports(r) ELSE {}, cost |-> INFINITY]

(* Otherwise the router tells everybody but the next router of the route.  *)
Tells(r) ==
  IF Old(r) THEN [ports |-> IF POISON_MODE THEN Ports(r) ELSE {}, cost |-> INFINITY]
  ELSE IF Known(r) THEN [ports |-> Ports(r) \ {cache[r].out_port}, cost |-> cache[r].cost]
  ELSE [ports |-> {}, cost |-> INFINITY]

(* The timers of all routers are started together and fire together.       *)
HandleTimer ==
  /\ \A e \in Wires : Len(wire[e]) <= StillOnWire
  /\ cache' = [r \in Router |->
       IF Old(r) THEN NoVector
       ELSE IF Known(r) /\ r \notin host_ports /\ cache[r].age < MaxAge
              THEN [cache[r] EXCEPT !.age = @ + 1]
       ELSE cache[r]]
  /\ wire' = [e \in Wires |->
       IF e[1] \in Router /\ e[2] \in Router \cap Tells(e[1]).ports
         THEN Append(wire[e], Tells(e[1]).cost)
         ELSE wire[e]]
  /\ UNCHANGED << POISON_MODE, up, host_ports, changes >>

---------------------------------------------------------------------------
LinkDown(l) ==
  /\ l \in up /\ changes < MaxChanges
  /\ changes' = changes + 1
  /\ up' = up \ {l}
  /\ LET cut == {r \in Router : r \in l /\ Known(r) /\ cache[r].out_port \in l}
     IN /\ cache' = [r \in Router |-> IF r \in cut THEN NoVector ELSE cache[r]]
        /\ wire' = [e \in Wires |->
             IF {e[1], e[2]} = l THEN << >>
             ELSE IF POISON_MODE /\ e[1] \in cut /\ {e[1], e[2]} \in up /\ e[2] # Host
                    THEN Append(wire[e], INFINITY)
                    ELSE wire[e]]
  /\ UNCHANGED << POISON_MODE, host_ports >>

(* The neighbours tell each other what they know, the host says hello.     *)
LinkUp(l) ==
  /\ l \in Failing \ up /\ changes < MaxChanges
  /\ changes' = changes + 1
  /\ up' = up \cup {l}
  /\ wire' = [e \in Wires |->
       IF {e[1], e[2]} # l \/ e[2] = Host THEN wire[e]
       ELSE IF e[1] = Host THEN << Hello >>
       ELSE IF Known(e[1]) THEN << cache[e[1]].cost >>
       ELSE << >>]
  /\ UNCHANGED << POISON_MODE, cache, host_ports >>

Next ==
  \/ \E r \in Router, n \in Node : HandleRx(r, n)
  \/ HandleTimer
  \/ \E l \in Failing : LinkDown(l) \/ LinkUp(l)

Spec == Init /\ [][Next]_vars

(* Packets arrive, and the timers fire for ever.                           *)
Fairness ==
  /\ \A e \in Wires : e[2] \in Router => WF_vars(HandleRx(e[2], e[1]))
  /\ WF_vars(HandleTimer)

FairSpec == Spec /\ Fairness

=============================================================================
