------------------------- MODULE MCServiceRegistry -------------------------
(* TLC instances of ServiceRegistry: a lifetime of 15 seconds is three ticks, *)
(* half the lose threshold, 7 seconds, is more than one.                     *)
EXTENDS ServiceRegistry

OneServer == {"p1"}
=============================================================================
