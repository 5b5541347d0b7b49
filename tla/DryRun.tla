------------------------------- MODULE DryRun -------------------------------
(***************************************************************************)
(* "What would this repository run, on this ref?": resolveBinding and      *)
(* resolvePlan of api/resolve.go, as a function of the job the worker      *)
(* would get.  An answer exists only when GitHub, git and the disk did     *)
(* what they were asked; the size of the checkout is reported beside the   *)
(* decision and does not change it.                                        *)
(***************************************************************************)
EXTENDS Pipeline

Decisions == {"run", "skip", "fail"}

\* resolvePathFilter looks at the files of the head commit only.
FilterSkips(job) == job.paths /\ ~job.truncated /\ ~job.headMatches

\* The three places that set DecisionFail before the plan is resolved or because
\* of it: Validate's problems, an image ValidImage refuses, an error of Resolve.
FileFails(job) ==
    \/ job.file.kind = "broken"
    \/ job.file.timeout = BadTimeout
    \/ job.file.runtime = "illegal"

\* resolvePlan: a dry run is never of a fork commit.
DryPlan(job) == Resolve([job EXCEPT !.fork = FALSE])

\* Mutant: on_empty_pipeline is not looked at.
DecisionEmptySkips(job) ==
    LET plan == DryPlan(job)
        fails == \/ FileFails(job)
                 \/ plan.kind = "invalid"
                 \/ plan.kind = "plan" /\ plan.runtime = "illegal"
    IN IF fails THEN "fail"
       ELSE IF FilterSkips(job) \/ plan.kind = "nothing" THEN "skip"
       ELSE "run"

Decision(job) ==
    LET plan == DryPlan(job)
        fails == \/ FileFails(job)
                 \/ plan.kind = "invalid"
                 \/ plan.kind = "nothing" /\ job.emptyFails
                 \/ plan.kind = "plan" /\ plan.runtime = "illegal"
    IN IF fails THEN "fail"
       ELSE IF FilterSkips(job) \/ plan.kind = "nothing" THEN "skip"
       ELSE "run"
=============================================================================
