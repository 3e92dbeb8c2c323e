------------------------- MODULE MCRequestPipeline -------------------------
(* TLC instances of RequestPipeline. *)
EXTENDS RequestPipeline

\* One request per service, each with a client of its own: the two DB streams
\* share a group name, so the consumers of one are siblings of the other's.
PairRequests == {"l1", "g1"}
PairService == [r \in PairRequests |-> IF r = "l1" THEN "login" ELSE "game"]
PairClient == [r \in PairRequests |-> IF r = "l1" THEN "cl" ELSE "cg"]
BothConns == {"cl", "cg"}
NoRequests == {}
DBKeys == {"DB4LOGIN", "DB4GAME"}

\* Two readers compete for the login request; the game request is an upload,
\* which is acknowledged and not answered.
ThreeReaders == {"r1", "r2", "r3"}
TwoForLogin == [rd \in ThreeReaders |-> IF rd = "r3" THEN "game" ELSE "login"]
GameUploads == {"g1"}

\* One reader per service.
TwoReaders == {"r1", "r2"}
OneForEach == [rd \in TwoReaders |-> IF rd = "r1" THEN "login" ELSE "game"]
=============================================================================
