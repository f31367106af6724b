----------------------------- MODULE MCKvFiles -----------------------------
(***************************************************************************)
(* Two paths; lists that the file keeps as they are, the empty list, and a *)
(* list of one item, semi (such as "a;a"), that the file turns into two.   *)
(***************************************************************************)
EXTENDS KvFiles, LineFormat

CONSTANTS a, semi

MCPieces == [i \in {a, semi, Blank} |-> IF i = semi THEN <<a, a>> ELSE <<i>>]
MCLists == {<<>>, <<Blank>>, <<semi>>, <<a, a>>}
MCReadBack == [list \in MCLists |-> Reread(list)]
=============================================================================
