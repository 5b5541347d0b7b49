---------------------------- MODULE JobRunnerMC ----------------------------
(* JobRunner for TLC: job ids and request goroutines are interchangeable.  *)
EXTENDS JobRunner, TLC

Symmetry == Permutations(Jobs) \cup Permutations(Callers)

\* One ending per kind of context; OpenFails and CreateFails add error.
FewEndings == { Outcome("success", "success"),
                Outcome("cancelled", "cancelled"),
                Outcome("cancelled", "timed_out") }

AllEndings == UNION {Outcomes(c) : c \in CtxStates}
=============================================================================
