------------------------------ MODULE MCStore ------------------------------
(* Instances of Store that TLC explores. *)
EXTENDS Store, TLC

CONSTANTS j1, j2, j3, b1

ThreeRows == {j1, j2, j3}
OneBlob   == {b1}

\* The last tick of a second and two of the next, four to the second: every
\* length of a fraction.
AroundASecond == {3, 4, 6}

Interchangeable == Permutations(RowIds)
=============================================================================
