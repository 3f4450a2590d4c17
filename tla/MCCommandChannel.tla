-------------------------- MODULE MCCommandChannel --------------------------
(* CommandChannel on small instances.                                      *)
EXTENDS CommandChannel

CONSTANTS c1, c2

MCCallers == {c1, c2}

\* The callers are interchangeable; CommandChannel.cfg has
\* liveness properties and does not use it.
Symmetry == Permutations(MCCallers)

=============================================================================
