--------------------------- MODULE MCEventPipeline ---------------------------
(* EventPipeline for TLC: two files, channels of one or two slots.          *)
EXTENDS EventPipeline, TLC

CONSTANTS p1, p2

MCPaths == {p1, p2}
OneFile == {p1}
None    == {}
OnlyP2  == {p2}

\* Files are interchangeable unless one of them is ignored.
FileSymmetry == Permutations(MCPaths)
=============================================================================
