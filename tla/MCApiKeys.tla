----------------------------- MODULE MCApiKeys -----------------------------
EXTENDS ApiKeys, TLC

\* All keys belong to one tenant.
OneTenant == [k \in Keys |-> CHOOSE t \in Tenants : TRUE]

\* All requests reach one replica; the other one only handles administration.
OneReplica == [r \in Requests |-> CHOOSE R \in Replicas : TRUE]
Symmetry == Permutations(Requests) \cup Permutations(Keys) \cup Permutations(Admins)
=============================================================================
