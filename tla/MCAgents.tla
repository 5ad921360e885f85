------------------------------- MODULE MCAgents -------------------------------
(***************************************************************************)
(* A small instance of Agents: two codes that can meet in one name, two    *)
(* machines that can meet in one code, and an account that comes and goes. *)
(***************************************************************************)
EXTENDS Agents, TLC

CONSTANTS c1, c2, n1, n2, k1, k2, u1, u2, a1

Symmetry ==
  Permutations(Codes) \cup Permutations(Names) \cup Permutations(Keys) \cup Permutations(Clients)
=============================================================================
