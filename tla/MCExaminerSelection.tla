------------------------ MODULE MCExaminerSelection ------------------------
EXTENDS ExaminerSelection, TLC
Symmetry == Permutations(Rows) \cup Permutations(Tabs)
=============================================================================
