---------------------------- MODULE MCTokenBudget ----------------------------
(* TokenBudget for TLC: the artifacts.                                     *)
EXTENDS TokenBudget

\* No known capacity, a fixed one and a growing one above the default.
Artifacts == {[maximum |-> 0, dynamic |-> TRUE],
              [maximum |-> 5, dynamic |-> FALSE],
              [maximum |-> 9, dynamic |-> TRUE]}
=============================================================================
