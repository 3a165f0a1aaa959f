--------------------------- MODULE MCSessionLock ---------------------------
(***************************************************************************)
(* SessionLock with the sets TLC enumerates.                               *)
(***************************************************************************)
EXTENDS SessionLock, TLC

\* Monitors that are all there from the start are interchangeable, and so are
\* the lock objects.
Symmetry == Permutations(InitOutputs) \cup Permutations(Clients)
=============================================================================
