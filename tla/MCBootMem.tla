------------------------------ MODULE MCBootMem ------------------------------
(* A machine with pages of 16 bytes and four pages to the megabyte.        *)
EXTENDS BootMem, TLC
CONSTANTS a, b, c, d
Sym == Permutations(Holders)
==============================================================================
