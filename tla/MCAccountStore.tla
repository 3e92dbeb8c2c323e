--------------------------- MODULE MCAccountStore ---------------------------
(* TLC instances of AccountStore. *)
EXTENDS AccountStore, TLC

TwoAccounts == {"a", "b"}
TwoNames == {"a", "b"}
OneActive == {"a"}
PlayedB == {<<"a", "b">>}

\* The threads of a gateman are interchangeable.
WorkerSymmetry == Permutations(LoginWorkers) \cup Permutations(GameWorkers)
=============================================================================
