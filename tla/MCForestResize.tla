--------------------------- MODULE MCForestResize ---------------------------
(* ForestResize on small layouts. *)
EXTENDS ForestResize
=============================================================================
