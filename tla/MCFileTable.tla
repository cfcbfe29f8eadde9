---------------------------- MODULE MCFileTable ----------------------------
(* Two processes, tables of two entries, and one file more than fit.       *)
EXTENDS FileTable, TLC

\* The files are interchangeable.
Symmetry == Permutations(Files)
=============================================================================
