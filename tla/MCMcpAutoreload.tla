-------------------------- MODULE MCMcpAutoreload --------------------------
(* Two servers, the name of one a prefix of the other's, and two calls that
   complete concurrently. *)
EXTENDS McpAutoreload, TLC

CONSTANTS ue5, ue5tools, c1, c2

MCServers == {ue5, ue5tools}
MCCalls == {c1, c2}

MCOneServer == {ue5}

\* A definition of its own, which TLC evaluates only once.
Tables == [prefixes |-> ue5 :> {} @@ ue5tools :> {ue5}, noPrefixes |-> ue5 :> {}]

MCPrefixes == Tables.prefixes
MCNoPrefixes == Tables.noPrefixes

Symmetry == Permutations(MCCalls)

=============================================================================
