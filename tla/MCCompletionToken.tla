-------------------------- MODULE MCCompletionToken --------------------------
(* Small instances of CompletionToken for TLC. *)
EXTENDS CompletionToken
==============================================================================
