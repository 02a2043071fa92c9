-------------------------------- MODULE MCSfs --------------------------------
\* Instances of Sfs for TLC.
EXTENDS Sfs, TLC

CONSTANTS f1, f2, d1, d2

\* To the start, over the direct block beyond the end, to the end, and below 0.
MCSeeks == {<<0, "SET">>, <<5, "SET">>, <<0, "END">>, <<-9, "CUR">>}

Symmetry == Permutations({f1, f2}) \cup Permutations({d1, d2})
=============================================================================
