--------------------------- MODULE MCCachedFetch ---------------------------
(* Two processes, one followed request, one write.                             *)
EXTENDS CachedFetch

CONSTANTS A, B

Requests == {<<A, 1>>}
=============================================================================
