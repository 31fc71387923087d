---------------------------- MODULE MCBlockBuilding ----------------------------
EXTENDS BlockBuilding, TLC

CONSTANTS t1, t2, t3, u1, u2, u3

MCInputs == [tx \in Tx |-> CASE tx = t1 -> {u1} [] tx = t2 -> {u1, u2} [] OTHER -> {u3}]
MCGasPrice == [tx \in Tx |-> IF tx = t1 THEN 1 ELSE 2]
=============================================================================
