------------------------ MODULE MCLocalPullRequests ------------------------
(* Pull requests and jobs are interchangeable.                             *)
EXTENDS LocalPullRequests, TLC

Symmetry == Permutations(PRs) \cup Permutations(Jobs)
=============================================================================
