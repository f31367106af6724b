----------------------------- MODULE MCKvStore -----------------------------
(***************************************************************************)
(* Two paths and two items: an item indexes either path once or twice, in  *)
(* arrays of one, two and four cells.  The empty list is that of an upload *)
(* whose body does not parse.                                              *)
(***************************************************************************)
EXTENDS KvStore, TLC

CONSTANTS p1, p2, i1, i2

MCPaths == {p1, p2}
MCItems == {i1, i2}
MCLists == {<<>>, <<i1>>, <<i2, i1>>, <<i1, i1>>}

\* Nothing distinguishes paths
Symmetry == Permutations(MCPaths)
=============================================================================
