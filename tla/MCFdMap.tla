------------------------------ MODULE MCFdMap -------------------------------
(***************************************************************************)
(* Instances of FdMap for TLC.  Files are interchangeable.                 *)
(***************************************************************************)
EXTENDS FdMap, TLC

FileSymmetry == Permutations(File)
=============================================================================
