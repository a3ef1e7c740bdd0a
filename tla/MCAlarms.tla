------------------------------- MODULE MCAlarms -------------------------------
EXTENDS Alarms

MCDelays == {0, 1}
MCPeriods == {0, 2}
=============================================================================
