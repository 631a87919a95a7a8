-------------------------- MODULE MCTerminalServer --------------------------
(* One connection and three tokens, of which the first attaches to a container. *)
EXTENDS TerminalServer

CONSTANT s1

Conns == {s1}
Three == 1..3
First == {1}
Second == {2}
NoTokens == {}
=============================================================================
