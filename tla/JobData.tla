------------------------------ MODULE JobData ------------------------------
(***************************************************************************)
(* The values a job row and a Check Run take: the closed sets of           *)
(* store/models.go and the way one execution of runJob may end.            *)
(***************************************************************************)

\* store.JobQueued and store.JobInProgress: the rows that hold their delivery id.
InFlight == {"queued", "in_progress"}

\* The other members of store.JobStatuses.
Terminal == {"success", "failure", "skipped", "cancelled", "error"}

JobStatuses == InFlight \cup Terminal

\* What runJob sends GitHub as a conclusion.
Conclusions == {"success", "failure", "skipped", "cancelled", "timed_out"}

\* The default of the column, an empty string.
NoConclusion == "none"

\* A context is live, was cancelled (CancelJob, shutdown) or outlived its
\* deadline.  The last two are final: ctx.Err() never changes again.
CtxStates == {"live", "cancelled", "deadline"}

(***************************************************************************)
(* How the body of runJob ends, given the state of the job's context when  *)
(* it chooses what to write: the row's status with the conclusion sent to  *)
(* GitHub.  A dead context never ends in success, because the last switch  *)
(* looks at ctx.Err() first; but it may end in error (a token that could   *)
(* not be minted, an engine that did not answer), in a skip or in a size   *)
(* failure, which are decided without looking at the context.  A step that *)
(* outlives the pipeline file's own timeout ends a live job as timed_out.  *)
(***************************************************************************)
Outcome(status, conclusion) == [status |-> status, conclusion |-> conclusion]

CtxBlind == { Outcome("error", "failure"),
              Outcome("failure", "failure"),
              Outcome("skipped", "skipped") }

\* Mutant: the final switch does not look at the context.
OutcomesOfAnyCtx(ctx) == CtxBlind \cup { Outcome("success", "success") }

Outcomes(ctx) ==
    CtxBlind \cup
        CASE ctx = "live"      -> { Outcome("success", "success"),
                                    Outcome("cancelled", "timed_out") }
          [] ctx = "cancelled" -> { Outcome("cancelled", "cancelled"),
                                    Outcome("cancelled", "timed_out") }
          [] ctx = "deadline"  -> { Outcome("cancelled", "timed_out") }
=============================================================================
