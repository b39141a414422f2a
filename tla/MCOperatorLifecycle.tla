------------------------ MODULE MCOperatorLifecycle ------------------------
EXTENDS OperatorLifecycle, TLC

CONSTANTS w1, w2, n1, n2

\* The kinds of fault a run allows, each of them once.
CONSTANT Kinds

MCBudget == [f \in Fault |-> IF f \in Kinds THEN 1 ELSE 0]
=============================================================================
