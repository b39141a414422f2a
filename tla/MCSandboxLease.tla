--------------------------- MODULE MCSandboxLease ---------------------------
EXTENDS SandboxLease, TLC

CONSTANTS o1, o2, o3

\* Two hosts run fast, one slow, each at the bound of the clock error.
MCOffset == o1 :> 1 @@ o2 :> -1 @@ o3 :> 1
=============================================================================
