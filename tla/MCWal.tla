------------------------------- MODULE MCWal --------------------------------
(* Model-checking instances of Wal; the bounds are in the .cfg files.      *)
EXTENDS Wal
=============================================================================
