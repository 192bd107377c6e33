------------------------ MODULE MCConversationTurns ------------------------
EXTENDS ConversationProperties, TLC
CONSTANTS w1, w2, m1, m2, m3, ask, stop
Symmetry == Permutations(Worker) \cup Permutations(MessageId)
=============================================================================
