----------------------------- MODULE MCDeadCode -----------------------------
EXTENDS DeadCode, Programs
=============================================================================
