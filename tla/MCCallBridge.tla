---------------------------- MODULE MCCallBridge ----------------------------
EXTENDS CallBridge
=============================================================================
