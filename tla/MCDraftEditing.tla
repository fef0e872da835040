---------------------------- MODULE MCDraftEditing ----------------------------
EXTENDS DraftEditing, TLC
Symmetry == Permutations(Tabs)
=============================================================================
