------------------------------- MODULE MCAddr -------------------------------
EXTENDS AddrSystem

CONSTANTS c1, c2, c3
============================================================================
