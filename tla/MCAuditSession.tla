--------------------------- MODULE MCAuditSession ---------------------------
(* Two sessions over one build root. *)
EXTENDS AuditSession, TLC

CONSTANTS s1, s2, c1, c2

MCSessions == {s1, s2}
MCOneSession == {s1}
MCCommits == {c1}
MCTwoCommits == {c1, c2}
MCNoStores == {}
MCStores == {"outcome", "ledger", "cache"}

Symmetry == Permutations(MCSessions)

=============================================================================
