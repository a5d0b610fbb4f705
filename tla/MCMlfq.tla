------------------------------- MODULE MCMlfq -------------------------------
EXTENDS Mlfq
=============================================================================
