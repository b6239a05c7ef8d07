------------------------------ MODULE MCFiles ------------------------------
(* Model checking of Files: two tasks, two names, paths of one or two names. *)
EXTENDS Files, TLC

MCPaths == {<<"a">>, <<"b">>, <<"a", "b">>}

Symmetry == Permutations(Tasks) \cup Permutations(Chars)

=============================================================================
