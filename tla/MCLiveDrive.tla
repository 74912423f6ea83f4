---------------------------- MODULE MCLiveDrive ----------------------------
EXTENDS LiveDrive, TLC
MCSymmetry == Permutations(Callers)
MCKeyOf == [e \in Evaluations |-> "key"]
=============================================================================
