-------------------------- MODULE MCServerVersions --------------------------
EXTENDS ServerVersions, TLC
CONSTANTS s1, s2, s3
=============================================================================
