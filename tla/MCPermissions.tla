---------------------------- MODULE MCPermissions ---------------------------
EXTENDS Permissions, TLC

\* Requests and updates are interchangeable.
Symmetry == Permutations(Requests) \union Permutations(Updates)
=============================================================================
