-------------------------------- MODULE MCDfs --------------------------------
EXTENDS Dfs, Programs
=============================================================================
