---------------------------- MODULE MCCheckedStack ----------------------------
(* Units of two bytes, chunks four bytes larger than the request.          *)
EXTENDS CheckedStack, TLC
CONSTANTS x, y
===============================================================================
