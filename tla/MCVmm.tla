-------------------------------- MODULE MCVmm --------------------------------
\* Instances of Vmm for TLC.
EXTENDS Vmm

CONSTANTS p1, p2, null

TwoProcs == {p1, p2}

\* Text only, which the heap cannot be joined to; text and data that touch; and
\* a program whose segments share a page.
Text == <<Area(2, 3, "rx")>>
TextData == <<Area(1, 2, "rx"), Area(2, 3, "rw")>>
SharedPage == <<Area(1, 2, "rx"), Area(1, 3, "rw")>>
SomePrograms == {Text, TextData, SharedPage}

ProcSymmetry == Permutations(TwoProcs)
=============================================================================
