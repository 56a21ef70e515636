--------------------------- MODULE MCPrefetcher ---------------------------
(* Four windows, the last one half as long as the others; a client may     *)
(* name twice as many.                                                     *)
EXTENDS Prefetcher
=============================================================================
