-------------------------- MODULE MCRWLockGeneric --------------------------
(* Three threads, each of which reads or writes, again and again. *)
EXTENDS RWLockGeneric
=============================================================================
