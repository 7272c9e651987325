----------------------- MODULE MCKeybaseConfirmation -----------------------
EXTENDS KeybaseConfirmation

CONSTANTS n1, p1, i1

=============================================================================
