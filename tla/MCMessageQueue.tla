--------------------------- MODULE MCMessageQueue ---------------------------
(* Small instances of MessageQueue for TLC; no symmetry, the run checks    *)
(* liveness too.                                                           *)
EXTENDS MessageQueue
=============================================================================
