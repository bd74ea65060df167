----------------------------- MODULE MCMallocHook -----------------------------
EXTENDS MallocHook, TLC
CONSTANTS a, b, c
===============================================================================
