---------------------------- MODULE MCJobControl ----------------------------
EXTENDS JobControl, TLC
=============================================================================
