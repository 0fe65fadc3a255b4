---------------------------- MODULE MCQuadtree ----------------------------
(***************************************************************************)
(* Quadtree on a world of side 4 with two levels below the root: a corner, *)
(* the middle, which touches all quadrants, and the whole world.           *)
(***************************************************************************)
EXTENDS Quadtree, TLC

CONSTANTS s1, s2, g1, g2

Corner == [x |-> 0, y |-> 0, w |-> 1, h |-> 1]
Middle == [x |-> 1, y |-> 1, w |-> 2, h |-> 2]
FarCorner == [x |-> 3, y |-> 3, w |-> 1, h |-> 1]
World == [x |-> 0, y |-> 0, w |-> 4, h |-> 4]

MCRect == {Corner, FarCorner, World}
MCRectStraddling == {Corner, Middle, FarCorner}
MCOwner == (g1 :> s1) @@ (g2 :> s2)
=============================================================================
