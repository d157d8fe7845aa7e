---------------------------- MODULE MCTokenStore ----------------------------
EXTENDS TokenStore

=============================================================================
