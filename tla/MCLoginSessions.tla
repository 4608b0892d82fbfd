-------------------------- MODULE MCLoginSessions --------------------------
(* Small instances of LoginSessions for TLC. *)
EXTENDS LoginSessions, TLC

CONSTANTS h1, h2

MCHandlers == {h1, h2}
Symmetry == Permutations(MCHandlers)
============================================================================
