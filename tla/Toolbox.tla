------------------------------- MODULE Toolbox --------------------------------
(***************************************************************************)
(* What a tool does in the file stores, and what the pipeline makes of a   *)
(* tool's output.  They share no state, the output being data: a behaviour *)
(* is the stores' or the pipeline's.                                       *)
(***************************************************************************)
EXTENDS CloudStorage, Pipeline

CONSTANT Parts  \* which of the two a run looks at

VARIABLE part

toolboxVars == <<part, vars, pipelineVars>>

ToolboxInit ==
  /\ part \in Parts
  /\ part # "stores" => /\ kind = CHOOSE k \in Kinds : TRUE
                        /\ items = Laid(kind, CHOOSE l \in Layouts : TRUE)
  /\ part # "pipeline" => config = CHOOSE c \in Configs : TRUE
  /\ Init /\ PipelineInit

ToolboxNext ==
  \/ part = "stores" /\ Next /\ UNCHANGED <<part, pipelineVars>>
  \/ part = "pipeline" /\ PipelineNext /\ UNCHANGED <<part, vars>>

ToolboxSpec == ToolboxInit /\ [][ToolboxNext]_toolboxVars
==============================================================================
