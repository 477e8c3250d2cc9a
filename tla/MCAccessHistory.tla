-------------------------- MODULE MCAccessHistory --------------------------
EXTENDS AccessHistory, TLC
\* An uninitialised counter: past the array, or any value that fits.
MCGarbageCounts == {ArraySize + 1}
MCNoGarbage == {0}
KeySymmetry == Permutations(Names)

\* Objects meet only in the step that renames or copies one: a state with an
\* object under every key is checked and not gone on from.
MCAKeyIsFree == \E k \in Names : ~Live(k)
=============================================================================
