----------------------------- MODULE MCMcpServer -----------------------------
(* Model checking of McpServer. *)
EXTENDS McpServer, TLC

CONSTANTS r1, r2

MCIds == {r1, r2}
Symmetry == Permutations(MCIds)
=============================================================================
