--------------------------- MODULE MCMatrixOutbox ---------------------------
(* MatrixOutbox for TLC. *)
EXTENDS MatrixOutbox
=============================================================================
