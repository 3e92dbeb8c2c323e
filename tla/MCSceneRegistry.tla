-------------------------- MODULE MCSceneRegistry --------------------------
(* Instances of SceneRegistry. *)
EXTENDS SceneRegistry, TLC

CONSTANTS s1, s2, p1, p2, k1, k2

\* Each listens at a port that either may connect from, and runs a scene.
ListenPorts == s1 :> p1 @@ s2 :> p2
ScenesSent == s1 :> {k1} @@ s2 :> {k2}

\* The servers may be exchanged, each with its port and its scene.
SceneSymmetry == {s1 :> s2 @@ s2 :> s1 @@ p1 :> p2 @@ p2 :> p1 @@ k1 :> k2 @@ k2 :> k1}
=============================================================================
