----------------------------- MODULE MCGameSend -----------------------------
(* Instances of GameSend for TLC: every size up to beyond the six fragments *)
(* of five bytes that may be sent.                                          *)
EXTENDS GameSend

Sizes == 0 .. 36
=============================================================================
