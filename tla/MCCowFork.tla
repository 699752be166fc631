------------------------------ MODULE MCCowFork ------------------------------
EXTENDS CowFork
=============================================================================
