--------------------------- MODULE MCReplayBuffer ---------------------------
EXTENDS ReplayBuffer
=============================================================================
