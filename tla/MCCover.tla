------------------------------ MODULE MCCover ------------------------------
EXTENDS GRCsimCover, Programs
ASSUME Supported
=============================================================================
