--------------------------- MODULE MCPrefetchBuffer ---------------------------
EXTENDS PrefetchBuffer
=============================================================================
