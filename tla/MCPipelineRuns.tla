--------------------------- MODULE MCPipelineRuns ---------------------------
(* PipelineRuns on small instances: see the .cfg files named Runs*.cfg.    *)
EXTENDS PipelineRuns, TLC

\* Workers and requests are interchangeable (used only in runs without
\* liveness properties).
Symmetry == Permutations(Workers) \union Permutations(Requests)

=============================================================================
