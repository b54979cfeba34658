------------------------------ MODULE MCPathMtu ------------------------------
EXTENDS PathMtu

MCLadder == <<2, 4, 6>>
=============================================================================
