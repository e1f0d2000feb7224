------------------------ MODULE MCResponsePipeline ------------------------
(* Two processes; two lineages of signals, each with two conclusions.      *)
EXTENDS ResponsePipeline

CONSTANTS p1, p2, l1, l2, c1, c2, s1

MCSymmetry == Permutations(Process)
=============================================================================
