---------------------------- MODULE MCConsoleSink ----------------------------
EXTENDS ConsoleSink, TLC

CONSTANTS g1, g2
=============================================================================
