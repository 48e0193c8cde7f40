------------------------------ MODULE MCUninstall ------------------------------
EXTENDS Uninstall

CONSTANTS t1, t2

MCNames == {t1, t2}

=============================================================================
