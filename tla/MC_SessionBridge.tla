-------------------------- MODULE MC_SessionBridge --------------------------
EXTENDS SessionBridge

CONSTANTS k1, k2

MCCalls == {k1, k2}
=============================================================================
