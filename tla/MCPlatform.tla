----------------------------- MODULE MCPlatform -----------------------------
EXTENDS Platform, TLC
CONSTANTS c1, c2, r1, r2

MCMenu   == [r \in Requests |-> IF r = r1 THEN {"set"} ELSE {"set", "wsget"}]
MCTarget == [r \in Requests |-> IF r = r1 THEN 1 ELSE 0]
MCAsker  == [r \in Requests |-> c1]
=============================================================================
