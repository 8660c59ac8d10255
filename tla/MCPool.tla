------------------------------- MODULE MCPool -------------------------------
EXTENDS Pool
=============================================================================
