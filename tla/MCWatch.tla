------------------------------- MODULE MCWatch -------------------------------
EXTENDS WatchHistory
=============================================================================
