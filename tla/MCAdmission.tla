------------------------------ MODULE MCAdmission ------------------------------
\* Admission of one runner.
EXTENDS Admission, TLC

Symmetry == Permutations(Settings)
=============================================================================
