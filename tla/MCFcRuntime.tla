---------------------------- MODULE MCFcRuntime ----------------------------
EXTENDS FcRuntime, TLC

\* Threads are interchangeable.
Symmetry == Permutations(Threads)

\* Bound: Shutdown meets the first incarnation and three operations, and no host
\* call fails before or after it.
ShutdownBound ==
    phase' # "up" => made' <= 1 /\ ops' >= MaxOps - 3 /\ faults' = MaxFaults
============================================================================
