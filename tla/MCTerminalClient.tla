-------------------------- MODULE MCTerminalClient --------------------------
(* Three attempts to reconnect, two tokens and one start without a token. *)
EXTENDS TerminalClient
=============================================================================
