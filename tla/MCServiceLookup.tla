--------------------------- MODULE MCServiceLookup ---------------------------
EXTENDS ServiceLookup
=============================================================================
