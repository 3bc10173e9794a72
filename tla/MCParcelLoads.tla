----------------------------- MODULE MCParcelLoads ---------------------------
EXTENDS ParcelLoads
=============================================================================
