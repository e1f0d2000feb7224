-------------------------------- MODULE Sums --------------------------------
(***************************************************************************)
(* Sums of integers in a sequence and of counts over a set.                *)
(***************************************************************************)
EXTENDS Integers, Sequences, FiniteSets

(* The sum of the first n elements, for every n.                           *)
RunningSum(seq) ==
    LET sum[n \in 0 .. Len(seq)] == IF n = 0 THEN 0 ELSE sum[n - 1] + seq[n]
    IN  sum

Total(seq) == RunningSum(seq)[Len(seq)]

(* The natural numbers of a function are as many as there are points below *)
(* its graph.                                                              *)
SumOfCounts(f) == Cardinality(UNION {{x} \X (1 .. f[x]) : x \in DOMAIN f})
=============================================================================
