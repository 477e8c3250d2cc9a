-------------------------- MODULE MCRdbPersistence --------------------------
EXTENDS RdbPersistence
CONSTANTS c1, r1, r2
MCReqOf == [r \in Replicas |-> IF r = r1 THEN "none" ELSE "functions"]
=============================================================================
