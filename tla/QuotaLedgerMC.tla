---------------------------- MODULE QuotaLedgerMC ----------------------------
\* Instances of QuotaLedger for TLC: two requests, one or two replicas, a key
\* that can afford one and a half of them.
EXTENDS QuotaLedger, TLC

CONSTANTS r1, r2, p1, p2

TwoRequests == {r1, r2}
TwoProcs    == {p1, p2}
OneProc     == {p1}

Symmetry == Permutations(TwoRequests) \cup Permutations(TwoProcs)
=============================================================================
