----------------------------- MODULE MCEventSync -----------------------------
EXTENDS EventSync
=============================================================================
