---------------------------- MODULE MCSessions ----------------------------
EXTENDS Sessions, TLC

\* Requests are interchangeable: nothing names one.
RequestSymmetry == Permutations(Requests)

===========================================================================
