---------------------------------- MODULE Sums ----------------------------------
(* Sums of the values of a function over its domain. *)
EXTENDS Integers, FiniteSetsExt

Sum(f) == MapThenSumSet(LAMBDA x : f[x], DOMAIN f)
=================================================================================
