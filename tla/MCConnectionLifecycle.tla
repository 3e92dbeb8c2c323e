----------------------- MODULE MCConnectionLifecycle -----------------------
(* An instance of ConnectionLifecycle. *)
EXTENDS ConnectionLifecycle

CONSTANTS c1, c2

TwoConns == {c1, c2}
=============================================================================
