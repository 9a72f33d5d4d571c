----------------------------- MODULE MCTaskPool -----------------------------
EXTENDS TaskPool, TLC

CONSTANT MaxJobs  \* bound: jobs in flight at once in the states explored further

FewJobs == Cardinality({j \in Jobs : job[j].pc # "idle"}) <= MaxJobs

Symmetry == Permutations(Tasks)
=============================================================================
