----------------------------- MODULE MC_Control -----------------------------
EXTENDS Control
=============================================================================
