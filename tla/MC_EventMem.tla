----------------------------- MODULE MC_EventMem -----------------------------
EXTENDS EventMem
=============================================================================
