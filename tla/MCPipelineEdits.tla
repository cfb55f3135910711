--------------------------- MODULE MCPipelineEdits ---------------------------
(* PipelineEdits on small instances: see EditsAny.cfg.                     *)
EXTENDS PipelineEdits

\* Requests are interchangeable.
Symmetry == Permutations(Requests)

=============================================================================
