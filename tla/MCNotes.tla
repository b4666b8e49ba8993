------------------------------ MODULE MCNotes ------------------------------
(***************************************************************************)
(* Values for Notes: two bodies with the same first line, so that two      *)
(* records may differ and still project to the same row.  The processes    *)
(* are alike, so are the bodies, and, where every id is a key, the ids;    *)
(* every property checked is a safety property, so TLC may identify states *)
(* that differ by a renaming of any of them.                               *)
(***************************************************************************)
EXTENDS Notes, TLC

CONSTANT line

FirstLine(b) == IF b = NoBody THEN NoBody ELSE line

Alike == Permutations(Procs) \cup Permutations(Ids) \cup Permutations(Bodies)
=============================================================================
