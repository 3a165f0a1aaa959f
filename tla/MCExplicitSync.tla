--------------------------- MODULE MCExplicitSync ---------------------------
(***************************************************************************)
(* ExplicitSync with a window of one synchronised subsurface.              *)
(***************************************************************************)
EXTENDS ExplicitSync

CONSTANTS root, child
MCSurfaces == {root, child}
MCParent == [s \in MCSurfaces |-> root]
=============================================================================
