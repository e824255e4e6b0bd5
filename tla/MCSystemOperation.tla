------------------------- MODULE MCSystemOperation -------------------------
EXTENDS SystemOperationInv

CONSTANTS ecu0, ecu1, nas, r1, r2, none

\* Shutdown is switched off on the NAS.
NasKeepsRunning == {<<"shutdown", nas>>}
NothingDisabled == {}

RefusedAndMinute == {-1, 60}
HalfMinute == {30}
=============================================================================
