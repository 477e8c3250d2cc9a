---------------------------- MODULE MCStringStore ----------------------------
EXTENDS StringStore, TLC
MCTexts == {<<"1">>, <<"a", "a">>}
KeySymmetry == Permutations(Keys)
=============================================================================
