---------------------------- MODULE MCChatStream ----------------------------
(* Two requests of any kind, in one chat or two.                            *)
EXTENDS ChatStream
=============================================================================
