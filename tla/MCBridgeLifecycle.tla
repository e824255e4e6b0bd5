-------------------------- MODULE MCBridgeLifecycle --------------------------
EXTENDS SensingHandler

CONSTANTS p1, p2, SIGINT, SIGTERM
=============================================================================
