------------------------------- MODULE MCSi -------------------------------
(* Small instances of the store with a secondary index. *)
EXTENDS SecondaryIndex
===========================================================================
