------------------------------ MODULE MCGRCC2 ------------------------------
EXTENDS GRCC2, Programs
=============================================================================
