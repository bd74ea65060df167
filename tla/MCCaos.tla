------------------------------- MODULE MCCaos -------------------------------
EXTENDS Caos
==============================================================================
