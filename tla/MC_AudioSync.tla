---------------------------- MODULE MC_AudioSync ----------------------------
EXTENDS AudioSync
=============================================================================
