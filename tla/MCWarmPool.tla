----------------------------- MODULE MCWarmPool -----------------------------
EXTENDS WarmPool, TLC

Symmetry == Permutations(Sandbox) \cup Permutations(Member)
            \cup Permutations(Node) \cup Permutations(Worker)
=============================================================================
