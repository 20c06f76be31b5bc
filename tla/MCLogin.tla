------------------------------ MODULE MCLogin -------------------------------
\* An instance of Login with interchangeable sessions and passwords.
EXTENDS Login, TLC

Interchangeable == Permutations(Session) \cup Permutations(Password)
=============================================================================
