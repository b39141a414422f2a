-------------------------- MODULE MCSpotRecovery --------------------------
EXTENDS SpotRepatriation
=============================================================================
