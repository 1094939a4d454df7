------------------------------ MODULE MCGRCsim ------------------------------
EXTENDS GRCsim, Programs
=============================================================================
