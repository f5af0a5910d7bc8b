--------------------------------- MODULE Sums ---------------------------------
(* sum() of Python, for the values f of a set S. *)
EXTENDS Integers, Sequences, FiniteSets, FiniteSetsExt, SequencesExt

SumOver(f, S) == FoldFunctionOnSet(+, 0, f, S)

=============================================================================
