------------------------- MODULE MCNetworkConfirm ---------------------------
(* NetworkConfirm on a few requests and configurations.                    *)
EXTENDS NetworkConfirm, TLC

Symmetry == Permutations(Requests) \cup Permutations(Confirms) \cup Permutations(Configs)
=============================================================================
