--------------------------- MODULE MCFileTransfer ---------------------------
(***************************************************************************)
(* FileTransfer for TLC: the files sent, and the files offered, are         *)
(* interchangeable.                                                         *)
(***************************************************************************)
EXTENDS FileTransfer, TLC

CONSTANTS a, b, c, x, y

Symm == Permutations(OutFile) \cup Permutations(InFile)
=============================================================================
