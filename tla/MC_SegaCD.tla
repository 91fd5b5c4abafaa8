----------------------------- MODULE MC_SegaCD -----------------------------
EXTENDS SegaCD
=============================================================================
