-------------------------- MODULE MCReleaseContext --------------------------
(* A small instance of ReleaseContext for TLC. *)
EXTENDS ReleaseContext

CONSTANTS p1, p2, w1, w2, w3, none

\* Two pipelines; requests 1 and 2 belong to the first, 3 to the second.
MCPipeline == {p1, p2}
MCRunner == 1..3
MCPipelineOf == [r \in MCRunner |-> IF r = 3 THEN p2 ELSE p1]
MCWorker == {w1, w2, w3}

=============================================================================
