--------------------------- MODULE MCLockfreeAlloc ---------------------------
(* Superblocks of three blocks and two credits for three threads.          *)
EXTENDS LockfreeAlloc, TLC
CONSTANTS a, b, c, x, y, z
==============================================================================
