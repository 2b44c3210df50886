----------------------------- MODULE MCPreflight -----------------------------
EXTENDS Preflight
=============================================================================
