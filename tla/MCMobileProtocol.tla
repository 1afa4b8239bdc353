--------------------------- MODULE MCMobileProtocol ---------------------------
EXTENDS MobileProtocol, TLC
================================================================================
