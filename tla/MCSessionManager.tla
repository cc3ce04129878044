-------------------------- MODULE MCSessionManager --------------------------
(* Two workers; requests, keys and the clock are bounded by the cfg. *)
EXTENDS SessionManager, TLC

CONSTANTS w1, w2

MCWorkers == {w1, w2}
WorkerSymmetry == Permutations(MCWorkers)
=============================================================================
