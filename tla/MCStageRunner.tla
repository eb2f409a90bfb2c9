--------------------------- MODULE MCStageRunner ---------------------------
(* One stage with up to one retry per worker of the status topic. *)
EXTENDS StageRunner

MCRunner == 1 .. (MaxRetries + Cardinality(StatusWorker) + 1)
=============================================================================
