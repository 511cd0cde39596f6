----------------------------- MODULE MCDebtList -----------------------------
(* Instances of DebtList for TLC.                                            *)
EXTENDS DebtList, TLC

CONSTANTS t1, t2, t3

\* No thread has used an ArcSwap yet.
ColdStart == <<>>
\* t1 has claimed the only node.
OneOwner == <<t1>>

\* Threads are alike as long as none owns a node at the start.
ThreadSymmetry == Permutations(Threads)
=============================================================================
