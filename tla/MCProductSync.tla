---------------------------- MODULE MCProductSync ----------------------------
(* Small instances of ProductSync: two consumers and two products, one job *)
(* and the scheduled delta.                                                *)
EXTENDS ProductSync, TLC

CONSTANTS s1, s2, p1, p2, j1

(* Sound for the run without temporal properties.                          *)
Symmetry == Permutations({s1, s2}) \cup Permutations({p1, p2})
=============================================================================
