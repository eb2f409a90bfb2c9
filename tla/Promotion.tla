----------------------------- MODULE Promotion -----------------------------
(***************************************************************************)
(* What an application workflow promises: an image moves along the graph   *)
(* of the deployment pipelines by itself only where the one before it has  *)
(* really succeeded with that image, or with the image it was copied from. *)
(*                                                                         *)
(* A run is one stage of one pipeline with one image; a build is the run   *)
(* of the Source.  Users may run any stage with any image that was built.  *)
(* How often a stage runs, in which order and after which failures is left *)
(* open.                                                                   *)
(***************************************************************************)
EXTENDS Naturals, Sequences

CONSTANTS
  Source,      \* the CI pipeline
  Pipeline,    \* the CD pipelines
  Children,    \* the CD pipelines that follow the source and each pipeline
  PreStage, PostStage,            \* the pipelines that have these stages
  AutoPre, AutoDeploy, AutoPost,  \* those whose stage is triggered automatically
  Copier       \* the stages, <<pipeline, stage>>, with a plugin that copies the image

VARIABLES
  automatic,  \* the runs that were triggered automatically
  manual,     \* the runs that a user triggered
  succeeded   \* the runs that succeeded

vars == <<automatic, manual, succeeded>>

Stage == {"PRE", "DEPLOY", "POST"}
Image == [build: Nat, copies: Seq(Pipeline \X Stage)]
Run == [pipeline: Pipeline, stage: Stage, image: Image]
       \cup [pipeline: {Source}, stage: {"BUILD"}, image: Image]

Copied(image, p, s) == [image EXCEPT !.copies = Append(@, <<p, s>>)]

\* What comes out of a run: its image, and its copy if the stage makes one.
Yields(d, image) ==
  \/ image = d.image
  \/ <<d.pipeline, d.stage>> \in Copier /\ image = Copied(d.image, d.pipeline, d.stage)

\* The stage of p that follows stage s of pipeline q.
Follows(q, s, p, t) ==
  \/ /\ p \in {Children[q][i] : i \in DOMAIN Children[q]}
     /\ s = IF q = Source THEN "BUILD" ELSE IF q \in PostStage THEN "POST" ELSE "DEPLOY"
     /\ t = IF p \in PreStage THEN "PRE" ELSE "DEPLOY"
  \/ p = q /\ s = "PRE" /\ t = "DEPLOY"
  \/ p = q /\ s = "DEPLOY" /\ t = "POST" /\ p \in PostStage

IsAutomatic(p, t) ==
  \/ t = "PRE" /\ p \in AutoPre
  \/ t = "DEPLOY" /\ p \in AutoDeploy
  \/ t = "POST" /\ p \in AutoPost

-----------------------------------------------------------------------------

Init == automatic = {} /\ manual = {} /\ succeeded = {}

\* Each action adds one run to one of the sets; the run is taken from the new value
\* of the set, so that TLC can find it.

Build ==
  /\ \E x \in succeeded' :
       /\ succeeded' = succeeded \cup {x}
       /\ x.pipeline = Source /\ x.image.copies = <<>>
  /\ UNCHANGED <<automatic, manual>>

Trigger ==
  /\ \E x \in automatic' :
       /\ automatic' = automatic \cup {x}
       /\ IsAutomatic(x.pipeline, x.stage)
       /\ \E d \in succeeded :
            Follows(d.pipeline, d.stage, x.pipeline, x.stage) /\ Yields(d, x.image)
  /\ UNCHANGED <<manual, succeeded>>

TriggerByUser ==
  /\ \E x \in manual' :
       /\ manual' = manual \cup {x}
       /\ x.pipeline \in Pipeline
       /\ \E d \in succeeded : d.pipeline = Source /\ d.image.build = x.image.build
  /\ UNCHANGED <<automatic, succeeded>>

Succeed ==
  /\ \E x \in automatic \cup manual : succeeded' = succeeded \cup {x}
  /\ UNCHANGED <<automatic, manual>>

Next == Build \/ Trigger \/ TriggerByUser \/ Succeed

Spec == Init /\ [][Next]_vars
=============================================================================
