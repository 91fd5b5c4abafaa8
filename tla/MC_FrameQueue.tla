---------------------------- MODULE MC_FrameQueue ----------------------------
EXTENDS FrameQueue
=============================================================================
