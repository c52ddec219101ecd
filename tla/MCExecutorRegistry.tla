------------------------- MODULE MCExecutorRegistry -------------------------
(* Model-checking instance of ExecutorRegistry. *)
EXTENDS ExecutorRegistry, TLC

CONSTANTS m, a, b

\* The forked executors are interchangeable.
Forks == Permutations({a, b})
=============================================================================
