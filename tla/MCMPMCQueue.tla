----------------------------- MODULE MCMPMCQueue -----------------------------
EXTENDS MPMCQueue

CONSTANTS m1, m2, m3, m4, m5, p1, p2
=============================================================================
