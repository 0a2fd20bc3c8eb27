------------------------------- MODULE Totals -------------------------------
(***************************************************************************)
(* The sum of the values of a function with a finite domain: chips over    *)
(* players, shares over pots, results over hands.                          *)
(***************************************************************************)
EXTENDS Integers, FiniteSetsExt

Total(f) == MapThenSumSet(LAMBDA x : f[x], DOMAIN f)
=============================================================================
