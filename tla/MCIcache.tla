----------------------------- MODULE MCIcache -----------------------------
EXTENDS Icache, TLC

Symmetry == Permutations(Proc) \cup Permutations(Name)
=============================================================================
