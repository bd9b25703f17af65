------------------------------- MODULE MCPairing -------------------------------
EXTENDS Pairing
================================================================================
