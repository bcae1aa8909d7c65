------------------------------- MODULE MCMcpServer -------------------------------
(* A small instance of McpServer: more tokens than the cache holds, and a clock *)
(* that passes the cache's time-to-live.                                        *)
EXTENDS McpServer, TLC

Symmetry == Permutations(Calls) \union Permutations(Tokens)
=============================================================================
