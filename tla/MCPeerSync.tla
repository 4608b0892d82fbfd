---------------------------- MODULE MCPeerSync ----------------------------
(* Small instances of PeerSync for TLC. *)
EXTENDS PeerSync, FiniteSets, TLC

CONSTANTS h1, h2

MCHandlers == {h1, h2}
\* Bound: two disturbances among requests, crashes and expiries that are still to be noticed.
TwoEvents == requests + crashes + Cardinality({i \in DOMAIN rows : rows[i].expiry = "past"}) <= 2
Symmetry == Permutations(MCHandlers)
===========================================================================
