--------------------------- MODULE MCKnowledgeStore ---------------------------
EXTENDS KnowledgeStore

Alike == Permutations(Process) \cup Permutations(Id)
=============================================================================
