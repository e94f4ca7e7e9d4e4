---- MODULE MCSds ----
EXTENDS Sds, TLC
\* All five types within a few bytes; an int holds 4.
MCLimit == <<2, 3, 4, 9>>
CharSymmetry == Permutations(Chars)
====
