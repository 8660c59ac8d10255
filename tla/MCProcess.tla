----------------------------- MODULE MCProcess ------------------------------
EXTENDS Process, TLC

ProcessorSymmetry == Permutations(Processors)
=============================================================================
