----------------------------- MODULE MCGitRepos -----------------------------
(* GitRepos with one local and one server repository: see GitAny.cfg.      *)
EXTENDS GitRepos, TLC

\* Actors and pipelines are interchangeable.
Symmetry == Permutations(Actors) \union Permutations(Pipelines)

=============================================================================
