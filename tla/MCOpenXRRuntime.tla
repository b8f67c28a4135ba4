-------------------------- MODULE MCOpenXRRuntime ---------------------------
(* Instances of OpenXRRuntime for TLC.                                      *)
EXTENDS OpenXRRuntime, TLC

CONSTANTS s1, s2, p1

OneSession == {s1}
TwoSessions == {s1, s2}

\* Three paths for a table of two; one string too long, one that is no path, and
\* the empty one.
MCNames == {<<"/", "a">>, <<"/", "b">>, <<"/">>, <<"/", "a", "b">>, <<"a">>, <<>>}

Symmetry == Permutations(TwoSessions)
=============================================================================
