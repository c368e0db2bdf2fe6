------------------------- MODULE MCConversationRuns ------------------------
(* Runs and requests of a session are interchangeable.                     *)
EXTENDS ConversationRuns, TLC

Symmetry == Permutations(Runs) \cup Permutations(Requests)
=============================================================================
