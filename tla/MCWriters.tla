------------------------------ MODULE MCWriters ------------------------------
EXTENDS Writers

\* Every program.
AllWriters == DOMAIN Programs
=============================================================================
