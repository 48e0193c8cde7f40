---------------------------- MODULE MCServiceWait ----------------------------
EXTENDS ServiceWait
=============================================================================
