----------------------------- MODULE MCRouting ------------------------------
(***************************************************************************)
(* A ring of routers with the host at one of them, whose link stays up.    *)
(***************************************************************************)
EXTENDS RoutingProperties

CONSTANTS a, b, c, d, h

MCLinks == {{a, h}, {a, b}, {b, c}, {c, d}, {a, d}}
MCFailing == MCLinks \ {{a, h}}
MCLatency == [l \in MCLinks |-> 1]

=============================================================================
