--------------------------- MODULE MCWorkflowDag ---------------------------
(* A build goes to qa and test; test, with a pre and a post stage whose plugins  *)
(* copy the image, goes on to prod, whose pre stage waits for a user, and to     *)
(* live, deployed at once.  Three crashes, redeliveries and failed triggers may  *)
(* happen, one of them together with a repeated or forced look at an application,*)
(* or else a user triggers a stage or a stage is retried.                        *)
EXTENDS WorkflowDag

MCPipeline == {"qa", "test", "prod", "live"}
MCChildren == [p \in MCPipeline \cup {"ci"} |->
  CASE p = "ci" -> <<"qa", "test">> [] p = "test" -> <<"prod", "live">> [] OTHER -> <<>>]
MCCopier == {<<"prod", "PRE">>, <<"test", "POST">>}
MCManual == {<<"prod", "PRE">>, <<"test", "DEPLOY">>, <<"test", "POST">>}
MCFaults == [f \in {"crash", "redelivery", "trigger", "retry", "resend", "sync", "user"} |->
  CASE f \in {"crash", "redelivery", "trigger"} -> 1
    [] f \in {"resend", "sync"} -> 2
    [] f \in {"retry", "user"} -> 3]
=============================================================================
