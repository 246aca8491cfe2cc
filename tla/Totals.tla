-------------------------------- MODULE Totals --------------------------------
(***************************************************************************)
(* Sums of functions, for the properties that count units and waiters.      *)
(***************************************************************************)
EXTENDS Integers, Functions

\* The sum of the values of a function with a finite domain.
Total(f) == FoldFunction(+, 0, f)
===============================================================================
