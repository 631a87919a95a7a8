------------------------ MODULE MCEnvironmentCanvas ------------------------
(* Two cards on either kind of canvas. *)
EXTENDS EnvironmentCanvas

CONSTANTS c1, c2

TwoCards == {c1, c2}
BothViews == {"environment", "server"}
=============================================================================
