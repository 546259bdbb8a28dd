------------------------- MODULE MCNatAdapterSerial -------------------------
\* Model-checking instances of NatAdapterSerial.
EXTENDS NatAdapterSerial

AllFaults == NatFaults
Either == BOOLEAN

\* What steps and the port go by: not the histories bootFwd and misread.
PortView == <<host, lock, call, before>>
=============================================================================
