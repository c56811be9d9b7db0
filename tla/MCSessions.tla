---------------------------- MODULE MCSessions ----------------------------
EXTENDS PeerSessions
=============================================================================
