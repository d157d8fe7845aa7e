-------------------------- MODULE MCSitePublishing --------------------------
EXTENDS SitePublishing, TLC

\* Nodes and administrators are interchangeable.
Symmetry == Permutations(Nodes) \cup Permutations(Admins)

=============================================================================
