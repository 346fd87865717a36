------------------------------- MODULE DataLimit -------------------------------
(***************************************************************************)
(* The data limit of a user, in bytes in the row and in gigabytes with     *)
(* five decimals in the dialog.  What the dialog shows is a whole number of *)
(* grid steps, of which there are Grid in a gigabyte.                      *)
(***************************************************************************)
EXTENDS Integers

CONSTANTS
    Gb,    \* bytes of a gigabyte: 1073741824
    Grid   \* steps of a gigabyte: 100000

ASSUME DataLimitAssumption ==
    /\ Gb \in Nat
    /\ Grid \in Nat \ {0}
    /\ Gb >= 2 * Grid

\* Mutant: the last decimal is cut off, not rounded.
ShownCut(bytes) == (bytes * Grid) \div Gb

\* toFixed(5) rounds to the nearest step and a tie upwards.
Shown(bytes) == (2 * bytes * Grid + Gb) \div (2 * Gb)

\* The server cuts off the fraction of a byte.
Stored(steps) == (steps * Gb) \div Grid
================================================================================
