---------------------------- MODULE MCSendRing ----------------------------
(* Small instances of the send ring: 4 groups of kMaxSignal buffers. *)
EXTENDS SendRing
===========================================================================
