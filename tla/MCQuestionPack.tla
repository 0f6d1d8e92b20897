--------------------------- MODULE MCQuestionPack ---------------------------
EXTENDS QuestionPack

MCCounts == [easy |-> 2, hard |-> 1]

Symm == Permutations(Users) \cup Permutations(Calls) \cup Permutations(Curated)
          \cup Permutations(Generated)
=============================================================================
