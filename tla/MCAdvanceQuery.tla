--------------------------- MODULE MCAdvanceQuery ---------------------------
(* Two small subtrees for the AdvanceQuery runs. *)
EXTENDS AdvanceQuery

\* A bucket with two children, the first with one of its own.
TreeKids == <<<<2, 3>>, <<4>>, <<>>, <<>>>>
TreeMems == <<<<>>, <<1>>, <<2>>, <<3>>>>
=============================================================================
