--------------------------- MODULE MC_PendingGate ---------------------------
EXTENDS PendingGate

CONSTANTS r1, r2

MCRequests == {r1, r2}
=============================================================================
