---------------------------- MODULE MCStudentIpc ----------------------------
EXTENDS StudentIpc

CONSTANTS k1, k2, p1, p2
============================================================================
