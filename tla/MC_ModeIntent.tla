---------------------------- MODULE MC_ModeIntent ----------------------------
EXTENDS ModeIntent

CONSTANTS i1, i2, p1, p2, p3

MCIntents   == {i1, i2}
MCConsumers == {p1, p2, p3}
=============================================================================
