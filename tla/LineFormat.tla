---------------------------- MODULE LineFormat ----------------------------
(***************************************************************************)
(* What a list becomes between Save, which joins its items with ";" in one *)
(* line and escapes nothing, and Restore, which splits the line.           *)
(***************************************************************************)
EXTENDS SequencesExt

CONSTANTS Pieces,  \* item -> its parts between the separators
          Blank    \* the empty string

\* The line of an empty list ends in the separator, and splits in two
Reread(list) ==
  IF list = <<>> THEN <<Blank>> ELSE FlattenSeq([j \in DOMAIN list |-> Pieces[list[j]]])
=============================================================================
