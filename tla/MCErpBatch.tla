------------------------------ MODULE MCErpBatch ------------------------------
EXTENDS ErpBatch

CONSTANT h1
=============================================================================
