---------------------------- MODULE MC_VMBridge ----------------------------
EXTENDS L2Probe

CONSTANTS l1, l2, c1, c2

MCLaunches   == {l1, l2}
MCFaulty     == {l1}
MCConns      == {c1}
MCGenerators == {2}
=============================================================================
