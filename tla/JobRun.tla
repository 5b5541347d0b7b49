------------------------------- MODULE JobRun -------------------------------
(***************************************************************************)
(* One execution of runJob (queue/runner.go), from the Check Run that is   *)
(* open to the end of the goroutine: the path filter, the workspace        *)
(* (workspace/workspace.go), the plan (Pipeline), the executors            *)
(* (executor/executor.go, executor/docker.go) and the row and the          *)
(* conclusion it ends with.  JobRunner takes all of this as the one step   *)
(* Decide; RowIsAnOutcome is what Decide assumes of it.                    *)
(*                                                                         *)
(* Time is a clock that stands still while a timer is due or a process is  *)
(* being killed: the seconds killGroup waits are not counted.              *)
(***************************************************************************)
EXTENDS Integers, FiniteSets, JobData, DryRun

CONSTANTS
    JobInputs,      \* what a job may bring: see InputType
    JobTimeout,     \* what resolveTimeout gave the job's context
    MaxTime,        \* bound of the clock
    MaxStoreFaults  \* bound: UPDATEs of the row that fail

InputType ==
    [skip : BOOLEAN,           \* the webhook enqueued it with a skip reason
     paths : BOOLEAN,          \* the binding has a path filter
     base : BOOLEAN,           \* the job knows the base of its push or pull request
     rangeMatches : BOOLEAN,   \* a file changed since the base passes the filter
     headMatches : BOOLEAN,    \* a file of the head commit does
     truncated : BOOLEAN,      \* GitHub cuts the list of files
     pull : BOOLEAN,           \* PullNumber is set
     fork : BOOLEAN,
     emptyFails : BOOLEAN,     \* on_empty_pipeline: fail
     file : [kind : {"missing", "broken", "spec"}, commands : Commands,
             timeout : Nat \cup {BadTimeout}, runtime : Runtimes],
     overrides : Commands,
     project : [languages : SUBSET {"node", "go", "rust", "python"}, parses : BOOLEAN,
                scripts : SUBSET {Test, Build}, pytest : BOOLEAN],
     timeout : {JobTimeout},
     defaultRuntime : Runtimes]

ASSUME InputsAssumption == JobInputs \subseteq InputType
ASSUME TimesAssumption ==
    /\ JobTimeout \in Nat \ {0}
    /\ MaxTime \in Nat
    /\ MaxStoreFaults \in Nat

VARIABLES
    job,
    pc,
    ctx,          \* the job's context
    stepCtx,      \* the context of the plan's own timeout, when planEnds # 0
    planEnds,     \* its deadline
    now,
    token,        \* an installation token was minted
    tree,         \* the workspace directory exists
    checkout,     \* "none", the job's commit, or another one
    plan,
    running,      \* the step whose process runs, or NoStep
    results,
    row,          \* what FinishJob wrote
    closing,      \* the argument of the call of complete that comes next
    carried,      \* the conclusion the PATCH carried
    faulted,      \* something outside the repository went wrong
    storeFaults

clocks == <<ctx, stepCtx, planEnds, now>>
disk == <<tree, checkout>>
steps == <<plan, running, results>>
report == <<row, closing, carried>>
runVars == <<job, pc, clocks, token, disk, steps, report, faulted, storeFaults>>

PCs == {"skip", "binding", "filter", "prepare", "token", "clone", "size", "resolve", "runtime",
        "steps", "complete", "cleanup", "done"}
NoStep == 0
NotRun == "none"
StepResults == {NotRun, "ok", "failed", "oversize", "timed_out", "cancelled", "skipped"}

NoRow == Outcome(NotRun, NoConclusion)

RunInit ==
    /\ job \in JobInputs
    /\ pc = "skip"
    /\ ctx = "live"
    /\ stepCtx = "live"
    /\ planEnds = 0
    /\ now = 0
    /\ token = FALSE
    /\ tree = FALSE
    /\ checkout = "none"
    /\ plan = NoPlan
    /\ running = NoStep
    /\ results = [s \in StepIds |-> NotRun]
    /\ row = NoRow
    /\ closing = NoConclusion
    /\ carried = NoConclusion
    /\ faulted = FALSE
    /\ storeFaults = 0

Live == ctx = "live"
Goto(p) == pc' = p

\* GitHub, git, the engine or the disk did not do what was asked.
Fault == faulted' = TRUE

-----------------------------------------------------------------------------
(* The end of every return path: FinishJob, then complete, then the        *)
(* deferred Cleanup.                                                       *)

\* FinishJob's error is only logged.
Finish(outcome, conclusion) ==
    /\ \/ row' = outcome /\ UNCHANGED storeFaults
       \/ /\ storeFaults < MaxStoreFaults
          /\ storeFaults' = storeFaults + 1
          /\ UNCHANGED row
    /\ closing' = conclusion
    /\ Goto("complete")
    /\ UNCHANGED carried

Fail == Finish(Outcome("error", "failure"), "failure")
Skip == Finish(Outcome("skipped", "skipped"), "skipped")

NoReport == UNCHANGED <<report, storeFaults>>

AnyTimedOut == \E s \in StepIds : results[s] = "timed_out"

Interrupted(timedOut) == IF ctx = "deadline" \/ timedOut THEN "timed_out" ELSE "cancelled"

\* The argument of complete: a literal, conclusionForCtx or conclusionForResults.
Conclusion(arg) ==
    CASE arg = "ctx"     -> Interrupted(FALSE)
      [] arg = "results" -> Interrupted(AnyTimedOut)
      [] OTHER           -> arg

Complete ==
    /\ pc = "complete"
    /\ carried' = Conclusion(closing)
    /\ Goto(IF tree THEN "cleanup" ELSE "done")
    /\ UNCHANGED <<job, clocks, token, disk, steps, row, closing, faulted, storeFaults>>

\* workspace.Cleanup; its error is only logged.
Cleanup ==
    /\ pc = "cleanup"
    /\ \/ tree' = FALSE /\ UNCHANGED faulted
       \/ Fault /\ UNCHANGED tree
    /\ Goto("done")
    /\ UNCHANGED <<job, clocks, token, checkout, steps, report, storeFaults>>

-----------------------------------------------------------------------------
(* Before the workspace.                                                   *)

PreflightSkip ==
    /\ pc = "skip"
    /\ IF job.skip THEN Skip ELSE Goto("binding") /\ NoReport
    /\ UNCHANGED <<job, clocks, token, disk, steps, faulted>>

\* A binding that is gone or cannot be read is an empty one: no filter, no
\* commands, and the pipeline file of the settings.
ReadBinding ==
    /\ pc = "binding"
    /\ \/ UNCHANGED <<job, faulted>>
       \/ /\ Fault
          /\ \E file \in {job.file, MissingFile} :
                job' = [job EXCEPT !.paths = FALSE, !.overrides = Unset, !.emptyFails = FALSE,
                                   !.file = file]
    /\ Goto(IF job'.paths THEN "filter" ELSE "prepare")
    /\ NoReport
    /\ UNCHANGED <<clocks, token, disk, steps>>

\* CompareFiles when the base is known, CommitFiles otherwise
FilterMatches == IF job.base THEN job.rangeMatches ELSE job.headMatches

\* A token may come from the cache, whatever the context.
FilterNoToken ==
    /\ pc = "filter"
    /\ Fault
    /\ Fail
    /\ UNCHANGED <<job, clocks, token, disk, steps>>

FilterFailsOpen ==
    /\ pc = "filter"
    /\ \/ Live /\ job.truncated /\ UNCHANGED faulted
       \/ Fault
    /\ token' = TRUE
    /\ Goto("prepare")
    /\ NoReport
    /\ UNCHANGED <<job, clocks, disk, steps>>

FilterDecides ==
    /\ pc = "filter"
    /\ Live
    /\ ~job.truncated
    /\ token' = TRUE
    /\ IF FilterMatches THEN Goto("prepare") /\ NoReport ELSE Skip
    /\ UNCHANGED <<job, clocks, disk, steps, faulted>>

-----------------------------------------------------------------------------
(* The checkout.                                                           *)

Prepare ==
    /\ pc = "prepare"
    /\ \/ tree' = TRUE /\ Goto("token") /\ NoReport /\ UNCHANGED faulted
       \/ Fault /\ Fail /\ UNCHANGED tree
    /\ UNCHANGED <<job, clocks, token, checkout, steps>>

InstallationToken ==
    /\ pc = "token"
    /\ \/ token' = TRUE /\ Goto("clone") /\ NoReport /\ UNCHANGED faulted
       \/ ~token /\ Fault /\ Fail /\ UNCHANGED token
    /\ UNCHANGED <<job, clocks, disk, steps>>

Clone ==
    /\ pc = "clone"
    /\ Live
    /\ checkout' = "commit"
    /\ Goto("size")
    /\ NoReport
    /\ UNCHANGED <<job, clocks, token, tree, steps, faulted>>

\* The SHA could not be fetched; FETCH_HEAD is the head of the pull request now.
ClonePullHead ==
    /\ pc = "clone"
    /\ Live
    /\ job.pull
    /\ Fault
    /\ checkout' \in {"commit", "another"}
    /\ Goto("size")
    /\ NoReport
    /\ UNCHANGED <<job, clocks, token, tree, steps>>

\* Mutant: an interrupted clone ends the row and forgets the Check Run.
CloneFailsSilently ==
    /\ pc = "clone"
    /\ Fault
    /\ IF Live THEN Fail
               ELSE /\ row' = Outcome("cancelled", Interrupted(FALSE))
                    /\ Goto("cleanup")
                    /\ UNCHANGED <<closing, carried, storeFaults>>
    /\ UNCHANGED <<job, clocks, token, disk, steps>>

\* git was killed with the context, or failed by itself.
CloneFails ==
    /\ pc = "clone"
    /\ Fault
    /\ IF Live THEN Fail ELSE Finish(Outcome("cancelled", Interrupted(FALSE)), "ctx")
    /\ UNCHANGED <<job, clocks, token, disk, steps>>

Oversize == Finish(Outcome("failure", "failure"), "failure")

CheckSize ==
    /\ pc = "size"
    /\ \/ Goto("resolve") /\ NoReport /\ UNCHANGED faulted
       \/ Fault /\ Oversize
    /\ UNCHANGED <<job, clocks, token, disk, steps>>

-----------------------------------------------------------------------------
(* The plan and its executor.                                              *)

ResolvePlan ==
    /\ pc = "resolve"
    /\ LET resolved == Resolve(job) IN
       CASE resolved.kind = "plan"    -> plan' = resolved /\ Goto("runtime") /\ NoReport
         [] resolved.kind = "invalid" -> Fail /\ UNCHANGED plan
         [] resolved.kind = "nothing" -> (IF job.emptyFails THEN Fail ELSE Skip) /\ UNCHANGED plan
    /\ UNCHANGED <<job, clocks, token, disk, running, results, faulted>>

RuntimeFails ==
    /\ pc = "runtime"
    /\ \/ plan.runtime = "illegal" /\ UNCHANGED faulted
       \/ plan.runtime = "image" /\ Fault
    /\ Fail
    /\ UNCHANGED <<job, clocks, token, disk, steps>>

\* A plan with a timeout of its own gets a context that is cancelled with the job's.
StartPlan ==
    /\ pc = "runtime"
    /\ plan.runtime # "illegal"
    /\ plan.runtime = "image" => Live
    /\ planEnds' = IF plan.timeout = JobTimeout THEN 0 ELSE now + plan.timeout
    /\ Goto("steps")
    /\ NoReport
    /\ UNCHANGED <<job, ctx, stepCtx, now, token, disk, steps, faulted>>

-----------------------------------------------------------------------------
(* The steps.                                                              *)

Remaining == {s \in plan.steps : results[s] = NotRun}
Failed == \E s \in plan.steps : results[s] \notin {NotRun, "ok"}

\* What exec.Run was given.
StepCtx == IF planEnds = 0 THEN ctx ELSE stepCtx

\* exec.Run starts a process even when its context is dead.
StartStep ==
    /\ pc = "steps"
    /\ running = NoStep
    /\ ~Failed
    /\ running' \in Remaining
    /\ \A s \in Remaining : running' <= s
    /\ NoReport
    /\ UNCHANGED <<job, pc, clocks, token, disk, plan, results, faulted>>

StepEnds(result) ==
    /\ results' = [results EXCEPT ![running] = result]
    /\ running' = NoStep
    /\ NoReport
    /\ UNCHANGED <<job, pc, clocks, token, disk, plan, faulted>>

\* The process ends, and the tree may be too large after it.  Only the docker
\* executor looks at the context again before it believes the exit code.
StepFinishes ==
    /\ running # NoStep
    /\ plan.runtime = "image" => StepCtx = "live"
    /\ \E result \in {"ok", "failed", "oversize"} : StepEnds(result)

\* Mutant: only the deadline kills the process group.
StepKilledAtDeadline ==
    /\ running # NoStep
    /\ StepCtx = "deadline"
    /\ StepEnds("timed_out")

StepKilled ==
    /\ running # NoStep
    /\ StepCtx # "live"
    /\ StepEnds(IF StepCtx = "deadline" THEN "timed_out" ELSE "cancelled")

SkipTheRest ==
    /\ pc = "steps"
    /\ running = NoStep
    /\ Failed
    /\ Remaining # {}
    /\ results' = [s \in StepIds |-> IF s \in Remaining THEN "skipped" ELSE results[s]]
    /\ NoReport
    /\ UNCHANGED <<job, pc, clocks, token, disk, plan, running, faulted>>

StepsOver == pc = "steps" /\ running = NoStep /\ Remaining = {}

\* Mutant: the context is not looked at.
FinalSwitchOnResults ==
    /\ StepsOver
    /\ CASE AnyTimedOut            -> Finish(Outcome("cancelled", "timed_out"), "results")
         [] ~AnyTimedOut /\ Failed -> Finish(Outcome("failure", "failure"), "failure")
         [] ~Failed                -> Finish(Outcome("success", "success"), "success")
    /\ UNCHANGED <<job, clocks, token, disk, steps, faulted>>

\* Mutant: a step that was killed is always taken for a cancelled one.
FinalSwitchCancels ==
    /\ StepsOver
    /\ IF ~Live \/ AnyTimedOut THEN Finish(Outcome("cancelled", "cancelled"), "cancelled")
       ELSE IF Failed THEN Finish(Outcome("failure", "failure"), "failure")
       ELSE Finish(Outcome("success", "success"), "success")
    /\ UNCHANGED <<job, clocks, token, disk, steps, faulted>>

FinalSwitch ==
    /\ StepsOver
    /\ LET interrupted == ~Live \/ AnyTimedOut IN
       CASE interrupted            -> Finish(Outcome("cancelled", Interrupted(AnyTimedOut)), "results")
         [] ~interrupted /\ Failed -> Finish(Outcome("failure", "failure"), "failure")
         [] ~interrupted /\ ~Failed -> Finish(Outcome("success", "success"), "success")
    /\ UNCHANGED <<job, clocks, token, disk, steps, faulted>>

-----------------------------------------------------------------------------
(* Time, and whoever cancels.                                              *)

Others == <<job, pc, token, disk, steps, report, faulted, storeFaults>>

JobTimerDue == Live /\ now >= JobTimeout
PlanTimerDue == planEnds # 0 /\ stepCtx = "live" /\ now >= planEnds

\* Mutant: the goroutine that waits for ctx.Done() is gone.
NeverPropagates == FALSE

Propagates == planEnds # 0 /\ stepCtx = "live" /\ ~Live

Killing == running # NoStep /\ StepCtx # "live"

Tick ==
    /\ pc # "done"
    /\ now < MaxTime
    /\ ~(JobTimerDue \/ PlanTimerDue \/ Propagates \/ Killing)
    /\ now' = now + 1
    /\ UNCHANGED <<ctx, stepCtx, planEnds, Others>>

Expire ==
    /\ pc # "done"
    /\ JobTimerDue
    /\ ctx' = "deadline"
    /\ UNCHANGED <<stepCtx, planEnds, now, Others>>

PlanExpires ==
    /\ pc # "done"
    /\ PlanTimerDue
    /\ stepCtx' = "deadline"
    /\ UNCHANGED <<ctx, planEnds, now, Others>>

\* The goroutine that waits for ctx.Done() and cancels the plan's context.
Propagate ==
    /\ pc # "done"
    /\ Propagates
    /\ stepCtx' = "cancelled"
    /\ UNCHANGED <<ctx, planEnds, now, Others>>

\* CancelJob, or the process context on shutdown.
Cancel ==
    /\ pc # "done"
    /\ Live
    /\ ctx' = "cancelled"
    /\ UNCHANGED <<stepCtx, planEnds, now, Others>>

-----------------------------------------------------------------------------
\* Steps of the goroutine that wait for nothing outside the process, or, while a
\* build is being killed, for a few seconds at most.
Local ==
    \/ PreflightSkip \/ ReadBinding \/ Prepare \/ CheckSize \/ ResolvePlan
    \/ StartStep \/ StepKilled \/ SkipTheRest \/ FinalSwitch \/ Cleanup

\* Steps that wait for GitHub, git or the engine.
Remote ==
    \/ FilterNoToken \/ FilterFailsOpen \/ FilterDecides
    \/ InstallationToken \/ Clone \/ ClonePullHead \/ CloneFails
    \/ RuntimeFails \/ StartPlan
    \/ Complete

Clock == Tick \/ Expire \/ PlanExpires \/ Propagate

RunNext == Local \/ Remote \/ StepFinishes \/ Clock \/ Cancel

RunSpec == RunInit /\ [][RunNext]_runVars

\* Time passes and timers fire; a call that hangs returns once its context is dead.
\* A build need not end by itself.
RunFairSpec == RunSpec /\ WF_runVars(Local) /\ WF_runVars(Clock) /\ WF_runVars(~Live /\ Remote)

-----------------------------------------------------------------------------
(* Properties.                                                             *)

PlanType == [kind : {"plan", "nothing"}, source : {"none", "file", "binding", "inferred"},
             steps : SUBSET StepIds, timeout : Nat, runtime : Runtimes]

StateTypeOK ==
    /\ job \in InputType
    /\ pc \in PCs
    /\ ctx \in CtxStates
    /\ stepCtx \in CtxStates
    /\ now \in Nat
    /\ planEnds \in Nat
    /\ token \in BOOLEAN
    /\ tree \in BOOLEAN
    /\ faulted \in BOOLEAN
    /\ checkout \in {"none", "commit", "another"}
    /\ plan \in PlanType
    /\ pc \in {"runtime", "steps"} => plan.kind = "plan"
    /\ running \in {NoStep} \cup plan.steps
    /\ results \in [StepIds -> StepResults]

ReportTypeOK ==
    /\ storeFaults \in Nat
    /\ row.status \in {NotRun} \cup Terminal
    /\ row.conclusion \in {NoConclusion} \cup Conclusions
    /\ closing \in {NoConclusion, "ctx", "results"} \cup Conclusions
    /\ carried \in {NoConclusion} \cup Conclusions

\* Every variable holds a value of its Go type; steps run only under a resolved plan.
RunTypeOK == StateTypeOK /\ ReportTypeOK

\* The conclusion on the row and the one on the Check Run are the same, although
\* they are computed by different functions at different times: the context may
\* die between finishCancelled and complete, and a plan's own timeout leaves the
\* job's context alive.
RowMatchesCheck ==
    row # NoRow /\ carried # NoConclusion => row.conclusion = carried

\* What runJob writes is what JobRunner's Decide allows in that state of the
\* context: an interrupted job never succeeds.
RowIsAnOutcome == [][row' # row => row' \in Outcomes(ctx)]_runVars

\* Every return path writes the row and the Check Run, with one conclusion, and
\* removes the workspace, but where the call that would do it failed.
EveryRunReports ==
    /\ RowMatchesCheck
    /\ pc = "done" => /\ carried # NoConclusion
                      /\ row = NoRow => storeFaults > 0
                      /\ tree => faulted

\* A build that ran out of time says timed_out, and one that somebody stopped says
\* cancelled, whichever of the two contexts died first.
TimeoutsAreToldFromCancels ==
    /\ row.conclusion = "timed_out" =>
            now >= JobTimeout \/ (planEnds # 0 /\ now >= planEnds)
    /\ row.conclusion = "cancelled" => ctx = "cancelled"

\* No time passes for a build after somebody cancelled it, or after the timeout it
\* was given, the plan's or, without one, the job's: the plan's context is cut off
\* from the job's and wired to it again by hand.
StoppedBuildsTakeNoTime ==
    [][now' # now /\ running # NoStep =>
            /\ ctx # "cancelled"
            /\ now < IF planEnds = 0 THEN JobTimeout ELSE planEnds]_runVars

\* A dry run answers what the worker does, for a job without a path filter that is
\* not a fork's, when nothing outside the repository fails: a plan is executed, an
\* empty one is skipped or fails, a broken file fails.  Only a plan without steps
\* is answered differently when its image is illegal.
DryRunPredictsRun ==
    pc = "done" /\ Live /\ ~faulted /\ storeFaults = 0
    /\ ~job.skip /\ ~job.paths /\ ~job.fork
    /\ ~(job.file.runtime = "illegal" /\ DryPlan(job).kind = "nothing") =>
        CASE Decision(job) = "run"  -> /\ row.status \in {"success", "failure", "cancelled"}
                                       /\ plan = DryPlan(job)
          [] Decision(job) = "skip" -> row.status = "skipped"
          [] Decision(job) = "fail" -> row.status = "error"

\* Every run that has begun ends, whatever hangs: its context expires.
RunEnds == pc # "skip" ~> pc = "done"

(* A claim of the repository that the code does not keep.                  *)

\* "The pipeline file can still lower (or raise) it", "tighten (or extend) here"
\* (queue/runner.go), of the timeout: the steps of a plan that raises it, and that
\* was started in time, are not stopped before it is over, if nobody cancels the job.
RaisedTimeoutIsInForce ==
    planEnds # 0 /\ plan.timeout > JobTimeout /\ planEnds - plan.timeout < JobTimeout
    /\ ctx # "cancelled" =>
        \A s \in plan.steps : results[s] \in {"timed_out", "cancelled"} => now >= planEnds
=============================================================================
