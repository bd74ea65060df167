------------------------------- MODULE MCBtrace -------------------------------
EXTENDS Btrace, TLC
CONSTANTS p, q
SomeSignals == <<"SIGINT", "SIGFPE", "SIGSEGV">>
===============================================================================
