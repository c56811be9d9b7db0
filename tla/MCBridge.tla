------------------------------ MODULE MCBridge ------------------------------
EXTENDS BridgeRelay
=============================================================================
