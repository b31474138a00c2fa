--------------------------- MODULE MCAuthorityLease ---------------------------
\* An instance of AuthorityLease for TLC.
EXTENDS AuthorityLease

ShortAndLongGrace == {1, 20}
TwoTicks == {2}
=============================================================================
