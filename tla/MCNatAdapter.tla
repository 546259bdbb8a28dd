---------------------------- MODULE MCNatAdapter ----------------------------
\* Model-checking instances of NatAdapter.
EXTENDS NatAdapter, TLC

SysctlFaults == {"read", "sysctl"}
NoFaults == {}
V4Only == {FALSE}

Threads == Permutations(Calls)
=============================================================================
