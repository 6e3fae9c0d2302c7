--------------------------- MODULE MCBufferCache ---------------------------
(* Clients are interchangeable, and so are sectors: slots, which the scans *)
(* of cache.c order, are numbers.                                          *)
EXTENDS BufferCache, TLC

Symmetry == Permutations(Client) \cup Permutations(Sector)
=============================================================================
