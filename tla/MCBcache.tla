------------------------------ MODULE MCBcache ------------------------------
EXTENDS Bcache
=============================================================================
