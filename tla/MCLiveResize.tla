---------------------------- MODULE MCLiveResize ----------------------------
(***************************************************************************)
(* LiveResize with two windows.  One's client takes every size it is told. *)
(* The other's may choose its own, or be an X11 one, or close.  Sizes are  *)
(* only ever compared, so all begin at one of the two; where a client has  *)
(* one it prefers, at the other.                                           *)
(***************************************************************************)
EXTENDS LiveResize

CONSTANTS a, b
MCPanes == {a, b}
Obedient == [p \in MCPanes |-> {}]
Stubborn == [Obedient EXCEPT ![b] = {2}]
World(sync, x11, own, closing, placed, n) ==
    [first |-> 1, sync |-> sync, x11 |-> x11, own |-> own,
     closing |-> closing, placed |-> placed, changes |-> n]
MCWorlds ==
    {World(FALSE, {}, Stubborn, {}, {b}, 2),
     World(FALSE, {b}, Stubborn, {}, {}, 2),
     World(FALSE, {}, Obedient, {b}, {}, 2),
     World(TRUE, {}, Obedient, {}, {}, 2),
     World(TRUE, {b}, Stubborn, {}, {}, 1),
     World(TRUE, {}, Obedient, {b}, {a}, 1)}

\* resize.sync, three motions, and clients that take every size.
MCRoundWorlds == {World(TRUE, {}, Obedient, {}, {}, 3)}
=============================================================================
