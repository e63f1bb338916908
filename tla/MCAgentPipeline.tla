-------------------------- MODULE MCAgentPipeline --------------------------
(* A universe of up to five rows in batches of three that split down to one,*)
(* a final comparison of at most three, and a deep research of the best two *)
(* of three candidates.  The configurations are the default one, with and   *)
(* without the fall back, and one without the deep research.                *)
EXTENDS AgentPipeline

MCConfigs == {[luna |-> TRUE, fallback |-> TRUE, deep |-> TRUE, force |-> TRUE],
              [luna |-> TRUE, fallback |-> FALSE, deep |-> FALSE, force |-> FALSE],
              [luna |-> FALSE, fallback |-> FALSE, deep |-> TRUE, force |-> FALSE]}

=============================================================================
