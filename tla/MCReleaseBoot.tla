-------------------------- MODULE MCReleaseBoot --------------------------
EXTENDS ReleaseBoot
=============================================================================
