---------------------------- MODULE MCRunLedger ----------------------------
EXTENDS RunLedger
=============================================================================
