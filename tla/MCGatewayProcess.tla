-------------------------- MODULE MCGatewayProcess --------------------------
EXTENDS GatewayProcess

CONSTANTS h1, h2, main_thread, health, ecu0, bridge

\* A module and the bridge, or nothing: what is not configured is asked for all
\* the same.
Configured == {{ecu0, bridge}, {}}
=============================================================================
