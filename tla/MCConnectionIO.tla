--------------------------- MODULE MCConnectionIO ---------------------------
(* An instance of ConnectionIO. *)
EXTENDS ConnectionIO

\* Three messages: one short, one with no payload, one longer than a chunk.
ThreeMessages == <<3, 2, 4>>
=============================================================================
