------------------------- MODULE MCBreakpointTracker -------------------------
(* The instances of BreakpointTracker that TLC checks. *)
EXTENDS BreakpointTracker

CONSTANTS p, q

\* The adapter reports paths as clients name them.
SamePaths == [path \in ClientPaths |-> path]

\* The two files are interchangeable.
FileSymmetry == Permutations({p, q})
=============================================================================
