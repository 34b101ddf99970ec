-------------------------- MODULE MCSandboxLifecycle --------------------------
(***************************************************************************)
(* Instances of SandboxLifecycle for TLC.                                  *)
(***************************************************************************)
EXTENDS SandboxLifecycle, TLC

\* Handlers are interchangeable, and so are runners.
Symmetry == Permutations(Clients) \cup Permutations(Runners)

================================================================================
