----------------------------- MODULE MCRestore -----------------------------
EXTENDS Restore, TLC

\* Of the two services each storage lacks the newest revision of one.
MCStored == <<<<{1, 2}, {1}>>, <<{1}, {1, 2}>>>>

\* Commands are alike.
Symmetry == Permutations(Commands)
=============================================================================
