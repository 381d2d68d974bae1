----------------------------- MODULE MCPtyRoutes -----------------------------
(* Three requests over two session ids: open, then restart or re-attach,     *)
(* then one more request racing the second.                                  *)
EXTENDS PtyRoutes, TLC

Symmetry == Permutations(Token) \cup Permutations(Ws) \cup Permutations(Pty)
              \cup Permutations(Sid)
=============================================================================
