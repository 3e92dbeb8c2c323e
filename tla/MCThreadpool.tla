---------------------------- MODULE MCThreadpool ----------------------------
(* An instance of Threadpool. *)
EXTENDS Threadpool

\* One result per adjustment: to two threads, back to one, to two again, which
\* leaves a hole, and to more than the pool may have, which fills it.
FourRatios == <<1, 0, 1, 3>>
=============================================================================
