---------------------------- MODULE WorkingCopyMC ----------------------------
\* Instances of WorkingCopy for TLC: a file of the project and one that is not
\* there yet, two contents, two names.
EXTENDS WorkingCopy

CONSTANTS f1, f2, c1, c2, n1, n2

TwoFiles == {f1, f2}
TwoContents == {c1, c2}
OneName  == {n1}
TwoNames == {n1, n2}

OneThere == [f \in TwoFiles |-> IF f = f1 THEN c1 ELSE Absent]

Even   == [c \in TwoContents |-> 1]
Uneven == [c \in TwoContents |-> IF c = c1 THEN 1 ELSE 3]
=============================================================================
