------------------------------ MODULE MCRunHosting ------------------------------
EXTENDS RunHosting
=============================================================================
