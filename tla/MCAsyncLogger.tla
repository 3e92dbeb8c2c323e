---------------------------- MODULE MCAsyncLogger ----------------------------
(* Two threads; buffers that hold one message of two bytes or two of one. *)
EXTENDS AsyncLogger

TwoThreads == {"t1", "t2"}
ThreeSizes == {1, 2, 3}
=============================================================================
