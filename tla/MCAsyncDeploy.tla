--------------------------- MODULE MCAsyncDeploy ---------------------------
(* Small instances of AsyncDeploy for TLC. *)
EXTENDS AsyncDeploy, TLC

CONSTANTS w1, w2, none

MCDeployment == 1..2
MCWorker == {w1, w2}
WorkerSymmetry == Permutations(MCWorker)
=============================================================================
