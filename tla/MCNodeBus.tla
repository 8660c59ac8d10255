----------------------------- MODULE MCNodeBus ------------------------------
EXTENDS NodeBus
=============================================================================
