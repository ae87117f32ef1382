---------------------------- MODULE MCTransfers ----------------------------
EXTENDS Transfers

Symmetry == Permutations(Client)
=============================================================================
