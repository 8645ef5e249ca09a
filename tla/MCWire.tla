------------------------------- MODULE MCWire -------------------------------
EXTENDS Wire

MCPulses == [level : {0, 1}, us : {4, 30, 120}]
=============================================================================
