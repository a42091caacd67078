----------------------------- MODULE MCPoolIndex -----------------------------
EXTENDS PoolIndex
=============================================================================
