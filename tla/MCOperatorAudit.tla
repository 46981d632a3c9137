--------------------------- MODULE MCOperatorAudit ---------------------------
(* Up to four events of two kinds against limits of one to three rows, with *)
(* two foreign changes to the file.                                         *)
EXTENDS OperatorAudit
=============================================================================
