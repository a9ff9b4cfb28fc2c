--------------------------- MODULE MCPersistence ---------------------------
(* Persistence on small block trees. *)
EXTENDS Persistence

CONSTANTS root, a1, a2, a3, a4, b2, b3, b4

\* root - a1 - a2 - a3
\*           \ b2 - b3
\* Reorganizations of up to two blocks, and back.
ForkBlocks == {root, a1, a2, a3, b2, b3}
ForkParent == [b \in ForkBlocks \ {root} |->
                 CASE b = a1 -> root [] b = a2 -> a1 [] b = a3 -> a2
                   [] b = b2 -> a1 [] b = b3 -> b2]

\* root - a1 - a2 - a3 - a4
\*                \ b3 - b4
\* The same, and long enough for two full windows in one range.
TallBlocks == {root, a1, a2, a3, a4, b3, b4}
TallParent == [b \in TallBlocks \ {root} |->
                 CASE b = a1 -> root [] b = a2 -> a1 [] b = a3 -> a2 [] b = a4 -> a3
                   [] b = b3 -> a2 [] b = b4 -> b3]
=============================================================================
