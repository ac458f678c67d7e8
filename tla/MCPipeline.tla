----------------------------- MODULE MCPipeline -----------------------------
(* Instances of Pipeline for TLC. *)
EXTENDS PipelineLedger, RunReport, TLC

\* Items of different sizes, so that a byte counted for the wrong item shows.
MCSize == [i \in Items |-> IF i = 0 THEN 2 ELSE 1]

\* Small sizes, one of them none, where no sum of bytes is checked.
MCTiny == [i \in Items |-> IF i = 0 THEN 1 ELSE 0]

\* Completes speaks of runs that are never cancelled, so its run need not
\* follow the others: no fair action cancels one.
NotCancelled == ~cancelled

Symmetry == Permutations(Workers)
=============================================================================
