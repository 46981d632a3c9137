------------------------- MODULE MCToolListChanges -------------------------
(* ToolListChanges with model values. *)
EXTENDS ToolListChanges
=============================================================================
