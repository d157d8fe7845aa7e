------------------------ MODULE MCCertificateOrders ------------------------
EXTENDS CertificateOrders, TLC

Symmetry == Permutations(Workers) \cup Permutations(Admins)

=============================================================================
