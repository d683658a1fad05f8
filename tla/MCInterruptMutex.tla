-------------------------- MODULE MCInterruptMutex --------------------------
EXTENDS InterruptMutex
=============================================================================
