---------------------------- MODULE MCBufferPool ----------------------------
(* Model-checking instances of BufferPool; the bounds are in the .cfg.     *)
EXTENDS BufferPool
=============================================================================
