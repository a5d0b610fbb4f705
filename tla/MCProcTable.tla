----------------------------- MODULE MCProcTable -----------------------------
EXTENDS ProcTable
=============================================================================
