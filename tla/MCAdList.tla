------------------------------- MODULE MCAdList -------------------------------
EXTENDS AdList, TLC

\* malloc may return any free cell, values are only compared, and no operation
\* tells one list from another.
CellSymmetry == {p @@ q @@ r : p \in Permutations(Nodes), q \in Permutations(Values),
                               r \in Permutations(Lists)}
==============================================================================
