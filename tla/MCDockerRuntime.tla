-------------------------- MODULE MCDockerRuntime --------------------------
EXTENDS DockerRuntime, TLC

Symmetry == Permutations(Addresses)
=============================================================================
