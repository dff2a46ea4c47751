----------------------------- MODULE MCCostResult -----------------------------
EXTENDS CostResult

CONSTANTS c1, c2, y1, m1, m2

Order == <<m1, m2>>
=============================================================================
