----------------------------- MODULE MCDashboard -----------------------------
EXTENDS Dashboard

CONSTANTS p1, p2
=============================================================================
