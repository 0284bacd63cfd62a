--------------------------- MODULE MCPrefetcher ---------------------------
EXTENDS Prefetcher
=============================================================================
