------------------------------ MODULE MCIpPool ------------------------------
\* An instance of IpPool: every prefix length of a small address space, with and
\* without host bits in the CIDR, at its bottom, in the middle and at its top.
EXTENDS IpPool

AllCidrs == [addr : {0, 5, 14}, len : 1..Bits]
HostLens == {Bits}
=============================================================================
