---------------------------- MODULE MCGameUpdates ----------------------------
(* Small instances of GameUpdates for TLC. *)
EXTENDS GameUpdates

=============================================================================
