-------------------------- MODULE MCReplaySession --------------------------
EXTENDS ReplaySession
=============================================================================
