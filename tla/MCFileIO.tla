------------------------------ MODULE MCFileIO ------------------------------
(* A file of three blocks of two bytes, and the library on its contents.   *)
EXTENDS Library
=============================================================================
