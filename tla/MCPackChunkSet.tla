--------------------------- MODULE MCPackChunkSet ---------------------------
(* Small instances of PackChunkSet. *)
EXTENDS PackChunkSet, TLC

CONSTANTS p1, p2, b1, b2, bundle

OneProc == {p1}
TwoProcs == {p1, p2}
OneBundle == {bundle}
OneBinding == {b1}
TwoBindings == {b1, b2}

EqualProcs == Permutations(Procs) \cup Permutations(Bindings)

=============================================================================
