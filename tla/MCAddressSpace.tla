-------------------------- MODULE MCAddressSpace --------------------------
(* Processes are interchangeable: pages, which the allocator orders, are  *)
(* numbers.                                                               *)
EXTENDS AddressSpace, TLC

Symmetry == Permutations(Proc)
=============================================================================
