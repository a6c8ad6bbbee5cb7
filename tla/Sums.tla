-------------------------------- MODULE Sums --------------------------------
(* The sum of a function into the naturals, as the number of cells below its *)
(* graph: in this form its laws can be proved (RxAllocProofs).               *)
EXTENDS Integers, FiniteSets

Cells(f) == UNION {{x} \X (1..f[x]) : x \in DOMAIN f}
Total(f) == Cardinality(Cells(f))

=============================================================================
