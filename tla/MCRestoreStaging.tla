-------------------------- MODULE MCRestoreStaging --------------------------
(* A small instance of RestoreStaging: two packages that share their first *)
(* file, state directories of two restores and of one link restore.        *)
EXTENDS RestoreStaging, TLC

CONSTANTS p1, p2, b1, b2, r1, r2, l1

MCProcs == {p1, p2}
OneProc == {p1}
MCBindings == {b1, b2}
MCDirs == {r1, r2, l1}
MCLinkDirs == {l1}
MCShared == {1}

Equal == Permutations(Procs) \cup Permutations(Bindings) \cup Permutations({r1, r2})

=============================================================================
