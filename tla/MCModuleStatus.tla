--------------------------- MODULE MCModuleStatus ---------------------------
EXTENDS ModuleStatus, TLC

CONSTANTS ecu0, nas, typo, r1

\* One of the services that should be active, and one that comes and goes.
SensorAndTransfer == {"drs_sensor", "drs_transfer_service"}

\* As in the sample configuration the NAS does not have its services watched;
\* unlike there it has PTP, so that two modules do.
NoServicesOnNas == ecu0 :> {"disk", "ptp", "services"} @@ nas :> {"disk", "ptp"}
=============================================================================
