---------------------------- MODULE JobRunProofs ----------------------------
(***************************************************************************)
(* Proofs about JobRun for every set of jobs, every timeout and every      *)
(* bound: type correctness, the inductive invariant and the safety         *)
(* properties that follow from it.                                         *)
(***************************************************************************)
EXTENDS JobRun, TLAPS

USE InputsAssumption, TimesAssumption

-----------------------------------------------------------------------------
(* The plan.                                                               *)

\* Some detector is the first that matches.
LEMMA WinnerIsADetector ==
    ASSUME NEW project, project.languages \in SUBSET {"node", "go", "rust", "python"},
           project.languages # {}
    PROVE  Winner(project) \in {"node", "go", "rust", "python"}
<1> DEFINE Matches(i) == Detectors[i] \in project.languages
           First(i) == Matches(i) /\ \A k \in 1..4 : k < i => ~Matches(k)
<1>1. Detectors[1] = "node" /\ Detectors[2] = "go" /\ Detectors[3] = "rust"
      /\ Detectors[4] = "python"
  BY DEF Detectors
<1>2. 1..4 = {1, 2, 3, 4}
  OBVIOUS
<1>3. \E i \in 1..4 : Matches(i)
  BY <1>1, <1>2
<1>4. \E i \in 1..4 : First(i)
  BY <1>2, <1>3
<1>5. (CHOOSE i \in 1..4 : First(i)) \in 1..4
  BY <1>4
<1> QED
  BY <1>1, <1>2, <1>5 DEF Winner

\* What Resolve returns without an error is a plan: steps of the three it may have, a timeout
\* that is not negative.
LEMMA ResolveType ==
    ASSUME NEW in \in InputType
    PROVE  /\ Resolve(in).kind \in {"plan", "nothing", "invalid"}
           /\ Resolve(in).kind = "plan" => Resolve(in) \in PlanType
<1>1. ASSUME NEW source \in {"file", "binding", "inferred"}, NEW S \in SUBSET StepIds,
             in.file.timeout # BadTimeout
      PROVE  Plan(in, source, S) \in PlanType /\ Plan(in, source, S).kind = "plan"
  <2>1. Timeout(in) \in Nat
    BY <1>1 DEF Timeout, InputType, NoTimeout
  <2>2. Runtime(in) \in Runtimes
    BY DEF Runtime, InputType, Runtimes
  <2> QED
    BY <2>1, <2>2 DEF Plan, PlanType
<1>2. \A commands : Named(commands) \in SUBSET StepIds
  BY DEF Named
<1>3. in.project.languages # {} => Inferred(in.project) \in SUBSET StepIds
  BY WinnerIsADetector DEF InputType, Inferred, StepIds, Install, Test, Build
<1>4. Invalid.kind = "invalid" /\ NoPlan.kind = "nothing"
  BY DEF Invalid, NoPlan
<1>5. CASE in.file.kind = "broken" \/ in.file.timeout = BadTimeout
  BY <1>4, <1>5 DEF Resolve
<1>6. CASE ~(in.file.kind = "broken" \/ in.file.timeout = BadTimeout)
  BY <1>1, <1>2, <1>3, <1>4, <1>6 DEF Resolve
<1> QED
  BY <1>5, <1>6

-----------------------------------------------------------------------------
(* Type correctness.                                                       *)

Ending == {"complete", "cleanup", "done"}

\* What FinishJob and the step to complete leave behind.
LEMMA FinishFacts ==
    ASSUME NEW out, NEW arg, Finish(out, arg)
    PROVE  /\ pc' = "complete" /\ closing' = arg /\ carried' = carried
           /\ \/ row' = out /\ storeFaults' = storeFaults
              \/ row' = row /\ storeFaults' = storeFaults + 1
  BY DEF Finish, Goto

\* A row that any return path writes is a finished one.
LEMMA OutcomeTypes ==
    /\ NoRow.status = NotRun /\ NoRow.conclusion = NoConclusion
    /\ NoConclusion \notin Conclusions
    /\ \A s, c : Outcome(s, c).status = s /\ Outcome(s, c).conclusion = c
  BY DEF NoRow, Outcome, NoConclusion, Conclusions

\* A step runs only between StartPlan and the final switch.
StepsRunInSteps == running # NoStep => pc = "steps"

LEMMA InitTypeOK == RunInit => RunTypeOK /\ StepsRunInSteps
<1> SUFFICES ASSUME RunInit PROVE RunTypeOK /\ StepsRunInSteps
  OBVIOUS
<1>1. NoPlan \in PlanType
  BY DEF NoPlan, PlanType, StepIds, Runtimes, NoTimeout
<1>2. [s \in StepIds |-> NotRun] \in [StepIds -> StepResults]
  BY DEF StepResults, NotRun
<1>3. StateTypeOK
  BY <1>1, <1>2 DEF RunInit, StateTypeOK, PCs, CtxStates
<1>4. ReportTypeOK
  BY OutcomeTypes DEF RunInit, ReportTypeOK
<1> QED
  BY <1>3, <1>4 DEF RunInit, RunTypeOK, StepsRunInSteps

\* Every return path writes one of these rows and closes with one of these words.
LEMMA FinishTypes ==
    ASSUME ReportTypeOK, NEW out, NEW arg, Finish(out, arg),
           out.status \in Terminal, out.conclusion \in Conclusions,
           arg \in {"ctx", "results"} \cup Conclusions
    PROVE  ReportTypeOK'
  BY FinishFacts DEF ReportTypeOK

\* The returns before the final switch, and a step that returns nothing.
Returns == Fail \/ Skip \/ Oversize \/ Finish(Outcome("cancelled", Interrupted(FALSE)), "ctx")

LEMMA ReturnTypes ==
    ASSUME ReportTypeOK, Returns
    PROVE  ReportTypeOK' /\ pc' = "complete"
<1>1. CASE Fail \/ Skip \/ Oversize
  BY <1>1, FinishTypes, FinishFacts, OutcomeTypes DEF Fail, Skip, Oversize, Terminal, Conclusions
<1>2. CASE Finish(Outcome("cancelled", Interrupted(FALSE)), "ctx")
  <2> DEFINE out == Outcome("cancelled", Interrupted(FALSE))
  <2>1. out.status \in Terminal /\ out.conclusion \in Conclusions
    BY DEF Outcome, Interrupted, Terminal, Conclusions
  <2> HIDE DEF out
  <2> QED
    BY <1>2, <2>1, FinishTypes, FinishFacts DEF out
<1> QED
  BY <1>1, <1>2 DEF Returns

LEMMA QuietReport == ASSUME ReportTypeOK, NoReport PROVE ReportTypeOK'
  BY DEF ReportTypeOK, NoReport, report

\* A binding that reads as an empty one leaves a job of the same type.
LEMMA EmptyBindingType ==
    ASSUME job \in InputType, NEW file \in {job.file, MissingFile}
    PROVE  [job EXCEPT !.paths = FALSE, !.overrides = Unset, !.emptyFails = FALSE,
                       !.file = file] \in InputType
<1>1. Unset \in Commands
  BY DEF Unset, Commands, CommandForms
<1>2. MissingFile \in [kind : {"missing", "broken", "spec"}, commands : Commands,
                       timeout : Nat \cup {BadTimeout}, runtime : Runtimes]
  BY <1>1 DEF MissingFile, NoTimeout, Runtimes
<1> QED
  BY <1>1, <1>2 DEF InputType

LEMMA PreflightTypes ==
    ASSUME RunTypeOK, StepsRunInSteps,
           PreflightSkip \/ ReadBinding \/ FilterNoToken \/ FilterFailsOpen \/ FilterDecides
    PROVE  RunTypeOK' /\ StepsRunInSteps'
<1> USE DEF RunTypeOK, StateTypeOK, clocks, disk, steps, PCs, Goto, Fault
<1>0. StateTypeOK /\ ReportTypeOK
  OBVIOUS
<1>1. CASE PreflightSkip
  <2>1. CASE job.skip
    BY <1>0, <1>1, <2>1, ReturnTypes DEF PreflightSkip, Returns, StepsRunInSteps
  <2>2. CASE ~job.skip
    BY <1>0, <1>1, <2>2, QuietReport DEF PreflightSkip, StepsRunInSteps
  <2> QED
    BY <2>1, <2>2
<1>2. CASE ReadBinding
  <2>1. job' \in InputType /\ faulted' \in BOOLEAN
    BY <1>0, <1>2, EmptyBindingType DEF ReadBinding
  <2> QED
    BY <1>0, <1>2, <2>1, QuietReport DEF ReadBinding, StepsRunInSteps
<1>3. CASE FilterNoToken
  BY <1>0, <1>3, ReturnTypes DEF FilterNoToken, Returns, StepsRunInSteps
<1>4. CASE FilterFailsOpen
  BY <1>0, <1>4, QuietReport DEF FilterFailsOpen, StepsRunInSteps
<1>5. CASE FilterDecides
  <2>1. CASE FilterMatches
    BY <1>0, <1>5, <2>1, QuietReport DEF FilterDecides, StepsRunInSteps
  <2>2. CASE ~FilterMatches
    BY <1>0, <1>5, <2>2, ReturnTypes DEF FilterDecides, Returns, StepsRunInSteps
  <2> QED
    BY <2>1, <2>2
<1> QED
  BY <1>1, <1>2, <1>3, <1>4, <1>5

LEMMA CheckoutTypes ==
    ASSUME RunTypeOK, StepsRunInSteps,
           Prepare \/ InstallationToken \/ Clone \/ ClonePullHead \/ CloneFails \/ CheckSize
    PROVE  RunTypeOK' /\ StepsRunInSteps'
<1> USE DEF RunTypeOK, StateTypeOK, clocks, disk, steps, PCs, Goto, Fault
<1>0. StateTypeOK /\ ReportTypeOK
  OBVIOUS
<1>1. CASE Prepare
  BY <1>0, <1>1, QuietReport, ReturnTypes DEF Prepare, Returns, StepsRunInSteps
<1>2. CASE InstallationToken
  BY <1>0, <1>2, QuietReport, ReturnTypes DEF InstallationToken, Returns, StepsRunInSteps
<1>3. CASE Clone
  BY <1>0, <1>3, QuietReport DEF Clone, StepsRunInSteps
<1>4. CASE ClonePullHead
  BY <1>0, <1>4, QuietReport DEF ClonePullHead, StepsRunInSteps
<1>5. CASE CloneFails
  BY <1>0, <1>5, ReturnTypes DEF CloneFails, Returns, StepsRunInSteps
<1>6. CASE CheckSize
  BY <1>0, <1>6, QuietReport, ReturnTypes DEF CheckSize, Returns, StepsRunInSteps
<1> QED
  BY <1>1, <1>2, <1>3, <1>4, <1>5, <1>6

LEMMA PlanTypes ==
    ASSUME RunTypeOK, StepsRunInSteps, ResolvePlan \/ RuntimeFails \/ StartPlan
    PROVE  RunTypeOK' /\ StepsRunInSteps'
<1> USE DEF RunTypeOK, StateTypeOK, clocks, disk, steps, PCs, Goto, Fault
<1>0. StateTypeOK /\ ReportTypeOK
  OBVIOUS
<1>1. CASE ResolvePlan
  <2>1. CASE Resolve(job).kind = "plan"
    <3>1. plan' = Resolve(job) /\ pc' = "runtime" /\ NoReport
      BY <1>1, <2>1 DEF ResolvePlan
    <3> QED
      BY <1>0, <1>1, <2>1, <3>1, ResolveType, QuietReport DEF ResolvePlan, StepsRunInSteps
  <2>2. CASE Resolve(job).kind # "plan"
    <3>1. Returns /\ plan' = plan
      BY <1>0, <1>1, <2>2, ResolveType DEF ResolvePlan, Returns
    <3> QED
      BY <1>0, <1>1, <3>1, ReturnTypes DEF ResolvePlan, StepsRunInSteps
  <2> QED
    BY <2>1, <2>2
<1>2. CASE RuntimeFails
  BY <1>0, <1>2, ReturnTypes DEF RuntimeFails, Returns, StepsRunInSteps
<1>3. CASE StartPlan
  <2>1. planEnds' \in Nat
    BY <1>0, <1>3 DEF StartPlan, PlanType
  <2> QED
    BY <1>0, <1>3, <2>1, QuietReport DEF StartPlan, StepsRunInSteps
<1> QED
  BY <1>1, <1>2, <1>3

LEMMA StepTypes ==
    ASSUME RunTypeOK, StepsRunInSteps,
           StartStep \/ StepFinishes \/ StepKilled \/ SkipTheRest \/ FinalSwitch
    PROVE  RunTypeOK' /\ StepsRunInSteps'
<1> USE DEF RunTypeOK, StateTypeOK, clocks, disk, steps, PCs
<1>0. plan.steps \subseteq StepIds /\ NoStep \notin StepIds
  BY DEF PlanType, NoStep, StepIds, Install, Test, Build
<1>1. CASE StartStep
  BY <1>1, QuietReport DEF StartStep, Remaining, StepsRunInSteps
<1>2. ASSUME NEW result \in StepResults, running # NoStep, StepEnds(result)
      PROVE  RunTypeOK' /\ StepsRunInSteps'
  <2>1. results' \in [StepIds -> StepResults]
    BY <1>0, <1>2 DEF StepEnds
  <2> QED
    BY <1>2, <2>1, QuietReport DEF StepEnds, StepsRunInSteps
<1>3. CASE StepFinishes
  BY <1>2, <1>3 DEF StepFinishes, StepResults
<1>4. CASE StepKilled
  BY <1>2, <1>4 DEF StepKilled, StepResults
<1>5. CASE SkipTheRest
  <2>1. results' \in [StepIds -> StepResults]
    BY <1>5 DEF SkipTheRest, StepResults
  <2> QED
    BY <1>5, <2>1, QuietReport DEF SkipTheRest, StepsRunInSteps
<1>6. CASE FinalSwitch
  <2>1. PICK out, arg : /\ Finish(out, arg)
                        /\ out.status \in Terminal /\ out.conclusion \in Conclusions
                        /\ arg \in {"ctx", "results"} \cup Conclusions
    BY <1>6 DEF FinalSwitch, Outcome, Interrupted, Terminal, Conclusions
  <2>2. ReportTypeOK' /\ pc' = "complete"
    BY <2>1, FinishTypes, FinishFacts
  <2> QED
    BY <1>6, <2>2 DEF FinalSwitch, StepsOver, StepsRunInSteps
<1> QED
  BY <1>1, <1>3, <1>4, <1>5, <1>6

LEMMA EndTypes ==
    ASSUME RunTypeOK, StepsRunInSteps, Complete \/ Cleanup
    PROVE  RunTypeOK' /\ StepsRunInSteps'
<1> USE DEF RunTypeOK, StateTypeOK, ReportTypeOK, clocks, disk, steps, report, PCs, Goto, Fault
<1>1. CASE Complete
  <2>1. carried' \in {NoConclusion} \cup Conclusions
    BY <1>1 DEF Complete, Conclusion, Interrupted, Conclusions
  <2> QED
    BY <1>1, <2>1 DEF Complete, StepsRunInSteps
<1>2. CASE Cleanup
  BY <1>2 DEF Cleanup, StepsRunInSteps
<1> QED
  BY <1>1, <1>2

LEMMA ClockTypes ==
    ASSUME RunTypeOK, StepsRunInSteps, Clock \/ Cancel
    PROVE  RunTypeOK' /\ StepsRunInSteps'
<1> USE DEF RunTypeOK, StateTypeOK, ReportTypeOK, Others, disk, steps, report, CtxStates
<1>1. CASE Tick
  BY <1>1 DEF Tick, StepsRunInSteps
<1>2. CASE Expire \/ PlanExpires \/ Propagate \/ Cancel
  BY <1>2 DEF Expire, PlanExpires, Propagate, Cancel, StepsRunInSteps
<1> QED
  BY <1>1, <1>2 DEF Clock

LEMMA NextTypes ==
    ASSUME RunTypeOK, StepsRunInSteps, [RunNext]_runVars
    PROVE  RunTypeOK' /\ StepsRunInSteps'
<1>1. CASE RunNext
  BY <1>1, PreflightTypes, CheckoutTypes, PlanTypes, StepTypes, EndTypes, ClockTypes
     DEF RunNext, Local, Remote
<1>2. CASE UNCHANGED runVars
  BY <1>2 DEF runVars, clocks, disk, steps, report, RunTypeOK, StateTypeOK, ReportTypeOK, StepsRunInSteps
<1> QED
  BY <1>1, <1>2

\* Every variable of runJob holds a value of its Go type in every execution, and
\* a step runs only between the resolution of the plan and the final switch.
THEOREM TypeCorrect == RunSpec => [](RunTypeOK /\ StepsRunInSteps)
<1>1. RunInit => RunTypeOK /\ StepsRunInSteps
  BY InitTypeOK
<1>2. RunTypeOK /\ StepsRunInSteps /\ [RunNext]_runVars => (RunTypeOK /\ StepsRunInSteps)'
  BY NextTypes
<1> QED
  BY <1>1, <1>2, PTL DEF RunSpec

-----------------------------------------------------------------------------
(* The shapes of a step.  Every step goes on quietly, returns, closes the  *)
(* Check Run, cleans up, or is the clock's or somebody else's.             *)

\* The goroutine goes on, and at most a step that overran its context is timed_out.
Quiet ==
    /\ pc \notin Ending /\ pc' \notin Ending
    /\ pc = "steps" => pc' = "steps"
    /\ NoReport
    /\ UNCHANGED <<ctx, stepCtx, now>>
    /\ planEnds' = planEnds \/ (pc = "runtime" /\ pc' = "steps")
    /\ AnyTimedOut' => AnyTimedOut \/ StepCtx = "deadline"

\* A return path: what it writes is an outcome, and the word complete is called with
\* says the same.
Return(out, arg) ==
    /\ pc \notin Ending
    /\ Finish(out, arg)
    /\ UNCHANGED <<clocks, results>>
    /\ out \in Outcomes(ctx)
    /\ arg \in {"ctx", "results", "failure", "skipped", "success"}
    /\ out.conclusion = Conclusion(arg)
    /\ arg = "ctx" => ~Live
    /\ arg = "results" => ~Live \/ AnyTimedOut

\* The clock, whoever cancels, or nothing.
Outside ==
    /\ UNCHANGED <<pc, tree, results, report, faulted, storeFaults>>
    /\ UNCHANGED clocks \/ Clock \/ Cancel

Shape == Quiet \/ (\E out, arg : Return(out, arg)) \/ Complete \/ Cleanup \/ Outside

LEMMA ReturnShapes ==
    ASSUME RunTypeOK, pc \notin Ending, UNCHANGED <<clocks, results>>
    PROVE  /\ Fail \/ Skip \/ Oversize => \E out, arg : Return(out, arg)
           /\ ~Live /\ Finish(Outcome("cancelled", Interrupted(FALSE)), "ctx") =>
                  \E out, arg : Return(out, arg)
<1> USE DEF Outcomes, CtxBlind, Outcome, Conclusion
<1>1. ASSUME Fail PROVE \E out, arg : Return(out, arg)
  <2>1. Return(Outcome("error", "failure"), "failure")
    BY <1>1 DEF Fail, Return
  <2> QED
    BY <2>1
<1>2. ASSUME Skip PROVE \E out, arg : Return(out, arg)
  <2>1. Return(Outcome("skipped", "skipped"), "skipped")
    BY <1>2 DEF Skip, Return
  <2> QED
    BY <2>1
<1>3. ASSUME Oversize PROVE \E out, arg : Return(out, arg)
  <2>1. Return(Outcome("failure", "failure"), "failure")
    BY <1>3 DEF Oversize, Return
  <2> QED
    BY <2>1
<1>4. ASSUME ~Live, Finish(Outcome("cancelled", Interrupted(FALSE)), "ctx")
      PROVE  \E out, arg : Return(out, arg)
  <2>1. Return(Outcome("cancelled", Interrupted(FALSE)), "ctx")
    BY <1>4 DEF Return, Live, Interrupted, RunTypeOK, StateTypeOK, CtxStates
  <2> QED
    BY <2>1
<1> QED
  BY <1>1, <1>2, <1>3, <1>4

LEMMA PreflightShapes ==
    ASSUME RunTypeOK,
           PreflightSkip \/ ReadBinding \/ FilterNoToken \/ FilterFailsOpen \/ FilterDecides
    PROVE  Shape
<1> USE DEF Ending, clocks, steps, Goto, Shape
<1>1. CASE PreflightSkip
  BY <1>1, ReturnShapes DEF PreflightSkip, Quiet, AnyTimedOut
<1>2. CASE ReadBinding
  BY <1>2 DEF ReadBinding, Quiet, AnyTimedOut
<1>3. CASE FilterNoToken
  BY <1>3, ReturnShapes DEF FilterNoToken
<1>4. CASE FilterFailsOpen
  BY <1>4 DEF FilterFailsOpen, Quiet, AnyTimedOut
<1>5. CASE FilterDecides
  BY <1>5, ReturnShapes DEF FilterDecides, Quiet, AnyTimedOut
<1> QED
  BY <1>1, <1>2, <1>3, <1>4, <1>5

LEMMA CheckoutShapes ==
    ASSUME RunTypeOK,
           Prepare \/ InstallationToken \/ Clone \/ ClonePullHead \/ CloneFails \/ CheckSize
    PROVE  Shape
<1> USE DEF Ending, clocks, steps, Goto, Shape
<1>1. CASE Prepare
  BY <1>1, ReturnShapes DEF Prepare, Quiet, AnyTimedOut
<1>2. CASE InstallationToken
  BY <1>2, ReturnShapes DEF InstallationToken, Quiet, AnyTimedOut
<1>3. CASE Clone \/ ClonePullHead
  BY <1>3 DEF Clone, ClonePullHead, Quiet, AnyTimedOut
<1>4. CASE CloneFails
  BY <1>4, ReturnShapes DEF CloneFails
<1>5. CASE CheckSize
  BY <1>5, ReturnShapes DEF CheckSize, Quiet, AnyTimedOut
<1> QED
  BY <1>1, <1>2, <1>3, <1>4, <1>5

LEMMA PlanShapes ==
    ASSUME RunTypeOK, ResolvePlan \/ RuntimeFails \/ StartPlan
    PROVE  Shape
<1> USE DEF Ending, clocks, steps, Goto, Shape
<1>1. CASE ResolvePlan
  <2>1. Resolve(job).kind \in {"plan", "nothing", "invalid"}
    BY ResolveType DEF RunTypeOK, StateTypeOK
  <2>2. CASE Resolve(job).kind = "plan"
    BY <1>1, <2>2 DEF ResolvePlan, Quiet, AnyTimedOut
  <2>3. CASE Resolve(job).kind # "plan"
    BY <1>1, <2>1, <2>3, ReturnShapes DEF ResolvePlan
  <2> QED
    BY <2>2, <2>3
<1>2. CASE RuntimeFails
  BY <1>2, ReturnShapes DEF RuntimeFails
<1>3. CASE StartPlan
  BY <1>3 DEF StartPlan, Quiet, AnyTimedOut
<1> QED
  BY <1>1, <1>2, <1>3

LEMMA StepShapes ==
    ASSUME RunTypeOK, StepsRunInSteps,
           StartStep \/ StepFinishes \/ StepKilled \/ SkipTheRest \/ FinalSwitch
    PROVE  Shape
<1> USE DEF Ending, clocks, steps, Shape
<1>1. CASE StartStep
  BY <1>1 DEF StartStep, Quiet, AnyTimedOut
<1>2. ASSUME NEW result, result = "timed_out" => StepCtx = "deadline",
             running # NoStep, StepEnds(result)
      PROVE  Quiet
  <2>1. \A s \in StepIds : results'[s] = results[s] \/ results'[s] = result
    BY <1>2 DEF StepEnds, RunTypeOK, StateTypeOK
  <2> QED
    BY <1>2, <2>1 DEF StepEnds, Quiet, AnyTimedOut, StepsRunInSteps
<1>3. CASE StepFinishes
  BY <1>2, <1>3 DEF StepFinishes
<1>4. CASE StepKilled
  BY <1>2, <1>4 DEF StepKilled
<1>5. CASE SkipTheRest
  <2>1. \A s \in StepIds : results'[s] = results[s] \/ results'[s] = "skipped"
    BY <1>5 DEF SkipTheRest
  <2> QED
    BY <1>5, <2>1 DEF SkipTheRest, Quiet, AnyTimedOut
<1>6. CASE FinalSwitch
  <2> USE <1>6 DEF FinalSwitch, StepsOver
  <2>1. CASE ~Live \/ AnyTimedOut
    <3>1. Return(Outcome("cancelled", Interrupted(AnyTimedOut)), "results")
      BY <2>1 DEF Return, Outcomes, Outcome, Conclusion, Interrupted, Live, RunTypeOK, StateTypeOK,
                  CtxStates
    <3> QED
      BY <3>1
  <2>2. CASE Live /\ ~AnyTimedOut /\ Failed
    <3>1. Return(Outcome("failure", "failure"), "failure")
      BY <2>2 DEF Return, Outcomes, CtxBlind, Outcome, Conclusion
    <3> QED
      BY <3>1
  <2>3. CASE Live /\ ~AnyTimedOut /\ ~Failed
    <3>1. Return(Outcome("success", "success"), "success")
      BY <2>3 DEF Return, Outcomes, Outcome, Conclusion, Live
    <3> QED
      BY <3>1
  <2> QED
    BY <2>1, <2>2, <2>3
<1> QED
  BY <1>1, <1>3, <1>4, <1>5, <1>6

LEMMA ClockShapes ==
    ASSUME Clock \/ Cancel \/ UNCHANGED runVars
    PROVE  Shape
  BY DEF Clock, Tick, Expire, PlanExpires, Propagate, Cancel, Others, runVars, clocks, disk, steps,
         report, Outside, Shape

LEMMA NextShapes ==
    ASSUME RunTypeOK, StepsRunInSteps, [RunNext]_runVars
    PROVE  Shape
  BY PreflightShapes, CheckoutShapes, PlanShapes, StepShapes, ClockShapes
     DEF RunNext, Local, Remote, Shape

\* What runJob writes in a row is what JobRunner's Decide allows: a job whose context is dead
\* never succeeds, and a live one is never written as cancelled.
THEOREM RowsAreOutcomes == RunSpec => RowIsAnOutcome
<1>1. RunTypeOK /\ StepsRunInSteps /\ [RunNext]_runVars => [row' # row => row' \in Outcomes(ctx)]_runVars
  <2> SUFFICES ASSUME RunTypeOK, StepsRunInSteps, [RunNext]_runVars, row' # row
               PROVE  row' \in Outcomes(ctx)
    OBVIOUS
  <2>1. CASE \E out, arg : Return(out, arg)
    BY <2>1, FinishFacts DEF Return
  <2>2. CASE Quiet \/ Complete \/ Cleanup \/ Outside
    BY <2>2 DEF Quiet, NoReport, Complete, Cleanup, Outside, report
  <2> QED
    BY <2>1, <2>2, NextShapes DEF Shape
<1> QED
  BY <1>1, TypeCorrect, PTL DEF RunSpec, RowIsAnOutcome

-----------------------------------------------------------------------------
(* The report: the row, the word complete is called with and the PATCH.    *)

ReportsInv ==
    /\ row # NoRow \/ closing # NoConclusion => pc \in Ending
    /\ carried # NoConclusion <=> pc \in {"cleanup", "done"}
    /\ pc \in Ending /\ row = NoRow => storeFaults > 0
    /\ pc = "complete" => closing # NoConclusion /\ (row # NoRow => row.conclusion = Conclusion(closing))
    /\ closing = "ctx" => ~Live
    /\ closing = "results" => ~Live \/ AnyTimedOut
    /\ pc = "done" /\ tree => faulted
    /\ RowMatchesCheck

\* What complete computes is never empty, and does not change when the context of a
\* job that looked at it dies.
LEMMA ConclusionFacts ==
    ASSUME RunTypeOK, closing # NoConclusion
    PROVE  Conclusion(closing) # NoConclusion
  BY DEF RunTypeOK, ReportTypeOK, Conclusion, Interrupted, Conclusions, NoConclusion

LEMMA ConclusionIsStable ==
    ASSUME RunTypeOK, Outside, closing = "ctx" => ~Live, closing = "results" => ~Live \/ AnyTimedOut
    PROVE  /\ Conclusion(closing)' = Conclusion(closing)
           /\ ~Live => ctx' = ctx
           /\ AnyTimedOut' = AnyTimedOut
<1>1. ~Live => ctx' = ctx
  BY DEF Outside, clocks, Clock, Tick, Expire, PlanExpires, Propagate, Cancel, JobTimerDue, Live
<1>2. AnyTimedOut' = AnyTimedOut /\ closing' = closing
  BY DEF Outside, AnyTimedOut, report
<1> QED
  BY <1>1, <1>2 DEF Conclusion, Interrupted

LEMMA ReportsStep ==
    ASSUME RunTypeOK, StepsRunInSteps, ReportsInv, [RunNext]_runVars
    PROVE  ReportsInv'
<1> USE DEF Ending
<1>1. CASE Quiet
  BY <1>1 DEF Quiet, NoReport, report, ReportsInv, RowMatchesCheck, NoConclusion
<1>2. CASE \E out, arg : Return(out, arg)
  <2>1. PICK out, arg : Return(out, arg)
    BY <1>2
  <2>2. /\ pc' = "complete" /\ closing' = arg /\ carried' = NoConclusion
        /\ row' = out \/ (row' = NoRow /\ storeFaults' > 0)
    BY <2>1, FinishFacts DEF Return, ReportsInv, RunTypeOK, ReportTypeOK
  <2>3. AnyTimedOut' = AnyTimedOut /\ Live' = Live /\ Conclusion(arg)' = Conclusion(arg)
    BY <2>1 DEF Return, clocks, AnyTimedOut, Live, Conclusion, Interrupted
  <2>4. arg # NoConclusion
    BY <2>1 DEF Return, NoConclusion
  <2>5. out # NoRow
    BY <2>1 DEF Return, Outcomes, CtxBlind, Outcome, NoRow, NotRun, RunTypeOK, StateTypeOK, CtxStates
  <2>6. Conclusion(closing)' = Conclusion(arg)
    BY <2>2, <2>3 DEF Conclusion, Interrupted
  <2> QED
    BY <2>1, <2>2, <2>3, <2>4, <2>5, <2>6 DEF Return, ReportsInv, RowMatchesCheck
<1>3. CASE Complete
  <2>1. Conclusion(closing) # NoConclusion
    BY <1>3, ConclusionFacts DEF Complete, ReportsInv
  <2>2. Live' = Live /\ AnyTimedOut' = AnyTimedOut
    BY <1>3 DEF Complete, clocks, steps, Live, AnyTimedOut
  <2> QED
    BY <1>3, <2>1, <2>2 DEF Complete, Goto, disk, ReportsInv, RowMatchesCheck
<1>4. CASE Cleanup
  <2>1. Live' = Live /\ AnyTimedOut' = AnyTimedOut
    BY <1>4 DEF Cleanup, clocks, steps, Live, AnyTimedOut
  <2> QED
    BY <1>4, <2>1 DEF Cleanup, Goto, Fault, report, ReportsInv, RowMatchesCheck
<1>5. CASE Outside
  <2>1. Conclusion(closing)' = Conclusion(closing) /\ (~Live => ~Live') /\ AnyTimedOut' = AnyTimedOut
    BY <1>5, ConclusionIsStable DEF ReportsInv, Live
  <2> QED
    BY <1>5, <2>1 DEF Outside, report, ReportsInv, RowMatchesCheck
<1> QED
  BY <1>1, <1>2, <1>3, <1>4, <1>5, NextShapes DEF Shape

\* The row and the Check Run always end with the same conclusion, and no return path
\* forgets the row, the Check Run or the workspace.
THEOREM ReportsAgree == RunSpec => []EveryRunReports
<1>1. RunInit => ReportsInv
  BY DEF RunInit, ReportsInv, Ending, RowMatchesCheck, NoConclusion
<1>2. RunTypeOK /\ StepsRunInSteps /\ ReportsInv /\ [RunNext]_runVars => ReportsInv'
  BY ReportsStep
<1>3. ReportsInv => EveryRunReports
  BY DEF ReportsInv, EveryRunReports, Ending
<1> QED
  BY <1>1, <1>2, <1>3, TypeCorrect, PTL DEF RunSpec

-----------------------------------------------------------------------------
(* Time.                                                                   *)

Overdue == now >= JobTimeout \/ (planEnds # 0 /\ now >= planEnds)

TimesInv ==
    /\ planEnds # 0 => pc \in {"steps"} \cup Ending
    /\ ctx = "deadline" => now >= JobTimeout
    /\ stepCtx = "deadline" => planEnds # 0 /\ now >= planEnds
    /\ AnyTimedOut => Overdue
    /\ TimeoutsAreToldFromCancels

LEMMA TimesStep ==
    ASSUME RunTypeOK, StepsRunInSteps, TimesInv, [RunNext]_runVars
    PROVE  TimesInv'
<1> USE DEF TimesInv, TimeoutsAreToldFromCancels, Overdue, Ending
<1>1. CASE Quiet
  BY <1>1 DEF Quiet, NoReport, report, StepCtx, RunTypeOK, StateTypeOK
<1>2. CASE \E out, arg : Return(out, arg)
  <2>1. PICK out, arg : Return(out, arg)
    BY <1>2
  <2>2. pc' = "complete" /\ row' \in {row, out}
    BY <2>1, FinishFacts DEF Return
  <2>3. /\ out.conclusion = "timed_out" => ctx = "deadline" \/ AnyTimedOut
        /\ out.conclusion = "cancelled" => ctx = "cancelled"
    BY <2>1 DEF Return, Conclusion, Interrupted, Live, RunTypeOK, StateTypeOK, CtxStates
  <2>4. AnyTimedOut' = AnyTimedOut
    BY <2>1 DEF Return, AnyTimedOut
  <2> QED
    BY <2>1, <2>2, <2>3, <2>4 DEF Return, clocks
<1>3. CASE Complete \/ Cleanup
  BY <1>3 DEF Complete, Cleanup, Goto, clocks, steps, report, AnyTimedOut
<1>4. CASE Outside
  <2>1. AnyTimedOut' = AnyTimedOut
    BY <1>4 DEF Outside, AnyTimedOut
  <2>2. CASE UNCHANGED clocks
    BY <1>4, <2>1, <2>2 DEF Outside, report, clocks
  <2>3. CASE Tick
    BY <1>4, <2>1, <2>3 DEF Outside, report, Tick, RunTypeOK, StateTypeOK
  <2>4. CASE Expire \/ PlanExpires \/ Propagate \/ Cancel
    BY <1>4, <2>1, <2>4 DEF Outside, report, Expire, PlanExpires, Propagate, Cancel, JobTimerDue,
                            PlanTimerDue, Live
  <2> QED
    BY <1>4, <2>2, <2>3, <2>4 DEF Outside, Clock
<1> QED
  BY <1>1, <1>2, <1>3, <1>4, NextShapes DEF Shape

\* A build that ran out of time says timed_out and one that somebody stopped says cancelled.
THEOREM TimeoutsAreTold == RunSpec => []TimeoutsAreToldFromCancels
<1>1. RunInit => TimesInv
  BY OutcomeTypes DEF RunInit, TimesInv, AnyTimedOut, NotRun, TimeoutsAreToldFromCancels, NoConclusion
<1>2. RunTypeOK /\ StepsRunInSteps /\ TimesInv /\ [RunNext]_runVars => TimesInv'
  BY TimesStep
<1>3. TimesInv => TimeoutsAreToldFromCancels
  BY DEF TimesInv
<1> QED
  BY <1>1, <1>2, <1>3, TypeCorrect, PTL DEF RunSpec

\* No time passes for a build after a cancel, or after the timeout it was given.
THEOREM StopsAreImmediate == RunSpec => StoppedBuildsTakeNoTime
<1>1. RunTypeOK /\ StepsRunInSteps /\ [RunNext]_runVars =>
        [now' # now /\ running # NoStep =>
            /\ ctx # "cancelled"
            /\ now < IF planEnds = 0 THEN JobTimeout ELSE planEnds]_runVars
  <2> SUFFICES ASSUME RunTypeOK, StepsRunInSteps, [RunNext]_runVars, now' # now, running # NoStep
               PROVE  /\ ctx # "cancelled"
                      /\ now < IF planEnds = 0 THEN JobTimeout ELSE planEnds
    OBVIOUS
  <2>1. Tick
    BY NextShapes DEF Shape, Quiet, Return, Complete, Cleanup, Outside, clocks, Clock, Expire,
                      PlanExpires, Propagate, Cancel
  <2> QED
    BY <2>1 DEF Tick, JobTimerDue, PlanTimerDue, Propagates, Killing, StepCtx, Live, RunTypeOK,
                StateTypeOK
<1> QED
  BY <1>1, TypeCorrect, PTL DEF RunSpec, StoppedBuildsTakeNoTime

-----------------------------------------------------------------------------
(* The dry run: DryInv.  Nothing outside the repository has failed and     *)
(* nobody has stopped the job, which has no path filter and is no fork's.  *)

Clean ==
    /\ Live /\ ~faulted /\ storeFaults = 0
    /\ ~job.skip /\ ~job.paths /\ ~job.fork

\* How the row answers to what Resolve made of the checkout.
Answered ==
    LET resolved == Resolve(job) IN
    /\ resolved.kind = "plan" =>
          /\ plan = resolved
          /\ IF plan.runtime = "illegal" THEN row.status = "error"
             ELSE row.status \in {"success", "failure", "cancelled"}
    /\ resolved.kind = "nothing" => row.status = IF job.emptyFails THEN "error" ELSE "skipped"
    /\ resolved.kind = "invalid" => row.status = "error"

DryInv ==
    Clean =>
        /\ pc # "filter"
        /\ pc \in {"runtime", "steps"} => plan = Resolve(job) /\ plan.kind = "plan"
        /\ pc = "steps" => plan.runtime # "illegal"
        /\ pc \in Ending => Answered

\* A job that is clean was so before, and its row is written where it ends.
LEMMA CleanStep ==
    ASSUME RunTypeOK, [RunNext]_runVars, Clean'
    PROVE  /\ Clean /\ job' = job /\ ~Fault
           /\ \A out, arg : Finish(out, arg) => row' = out /\ pc' = "complete"
<1>1. ~faulted' /\ storeFaults' = 0 /\ storeFaults \in Nat /\ ctx' = "live"
  BY DEF Clean, RunTypeOK, ReportTypeOK, Live
<1>2. \A out, arg : Finish(out, arg) => row' = out /\ pc' = "complete"
  BY <1>1, FinishFacts
<1>3. ~Fault
  BY <1>1 DEF Fault
<1>4. job' = job
  BY <1>3 DEF RunNext, Local, Remote, Clock, runVars, PreflightSkip, ReadBinding, Prepare, CheckSize, ResolvePlan,
         StartStep, StepKilled, StepEnds, SkipTheRest, FinalSwitch, Cleanup, FilterNoToken, FilterFailsOpen,
         FilterDecides, InstallationToken, Clone, ClonePullHead, CloneFails, RuntimeFails, StartPlan,
         Complete, StepFinishes, Tick, Expire, PlanExpires, Propagate, Cancel, Others
<1>5. ctx = "live"
  BY <1>1 DEF RunNext, Local, Remote, Clock, runVars, PreflightSkip, ReadBinding, Prepare, CheckSize, ResolvePlan,
         StartStep, StepKilled, StepEnds, SkipTheRest, FinalSwitch, Cleanup, FilterNoToken, FilterFailsOpen,
         FilterDecides, InstallationToken, Clone, ClonePullHead, CloneFails, RuntimeFails, StartPlan,
         Complete, StepFinishes, Tick, Expire, PlanExpires, Propagate, Cancel, Others, clocks
<1>6. ~faulted
  BY <1>1, <1>3 DEF RunNext, Local, Remote, Clock, runVars, PreflightSkip, ReadBinding, Prepare, CheckSize, ResolvePlan,
         StartStep, StepKilled, StepEnds, SkipTheRest, FinalSwitch, Cleanup, FilterNoToken, FilterFailsOpen,
         FilterDecides, InstallationToken, Clone, ClonePullHead, CloneFails, RuntimeFails, StartPlan,
         Complete, StepFinishes, Tick, Expire, PlanExpires, Propagate, Cancel, Others
<1>7. storeFaults' = storeFaults
  <2>1. Fail \/ Skip \/ Oversize \/ NoReport => storeFaults' \in {storeFaults, storeFaults + 1}
    BY FinishFacts DEF Fail, Skip, Oversize, NoReport
  <2>2. CASE PreflightSkip \/ ReadBinding \/ Prepare \/ CheckSize \/ ResolvePlan \/ StartStep \/ StepKilled
               \/ SkipTheRest \/ FilterNoToken \/ FilterFailsOpen \/ FilterDecides \/ InstallationToken
               \/ Clone \/ ClonePullHead \/ RuntimeFails \/ StartPlan \/ StepFinishes
    <3>1. Fail \/ Skip \/ Oversize \/ NoReport
      BY <2>2, ResolveType
         DEF PreflightSkip, ReadBinding, Prepare, CheckSize, ResolvePlan, StartStep, StepKilled, StepEnds,
             SkipTheRest, FilterNoToken, FilterFailsOpen, FilterDecides, InstallationToken, Clone,
             ClonePullHead, RuntimeFails, StartPlan, StepFinishes, RunTypeOK, StateTypeOK
    <3>. QED BY <1>1, <2>1, <3>1
  <2>3. CASE CloneFails
    BY <1>3, <2>3 DEF CloneFails
  <2>4. CASE FinalSwitch
    <3>1. \E out, arg : Finish(out, arg)
      BY <2>4 DEF FinalSwitch
    <3>. QED BY <1>1, <3>1, FinishFacts
  <2>5. CASE Cleanup \/ Complete \/ Clock \/ Cancel \/ UNCHANGED runVars
    BY <2>5 DEF Cleanup, Complete, Clock, Tick, Expire, PlanExpires, Propagate, Cancel, Others, runVars
  <2>. QED BY <2>2, <2>3, <2>4, <2>5 DEF RunNext, Local, Remote
<1>. QED BY <1>1, <1>2, <1>3, <1>4, <1>5, <1>6, <1>7 DEF Clean, Live

LEMMA DryStep == RunTypeOK /\ DryInv /\ [RunNext]_runVars => DryInv'
<1>. SUFFICES ASSUME RunTypeOK, DryInv, [RunNext]_runVars, Clean'
              PROVE  /\ pc' # "filter"
                     /\ pc' \in {"runtime", "steps"} => plan' = Resolve(job) /\ plan'.kind = "plan"
                     /\ pc' = "steps" => plan'.runtime # "illegal"
                     /\ pc' \in Ending => Answered'
  BY CleanStep DEF DryInv
<1>. DEFINE Goal == /\ pc' # "filter"
                    /\ pc' \in {"runtime", "steps"} => plan' = Resolve(job) /\ plan'.kind = "plan"
                    /\ pc' = "steps" => plan'.runtime # "illegal"
                    /\ pc' \in Ending => Answered'
<1>1. Clean /\ job' = job /\ ~Fault
      /\ \A out, arg : Finish(out, arg) => row' = out /\ pc' = "complete"
  BY CleanStep
<1>2. /\ pc # "filter"
      /\ pc \in {"runtime", "steps"} => plan = Resolve(job) /\ plan.kind = "plan"
      /\ pc = "steps" => plan.runtime # "illegal"
      /\ pc \in Ending => Answered
  BY <1>1 DEF DryInv
<1>3. /\ Fail => row'.status = "error" /\ pc' = "complete"
      /\ Skip => row'.status = "skipped" /\ pc' = "complete"
  BY <1>1, OutcomeTypes DEF Fail, Skip
<1>4. CASE UNCHANGED <<pc, plan, row>>
  BY <1>1, <1>2, <1>4 DEF Answered
<1>5. CASE PreflightSkip \/ ReadBinding \/ Prepare \/ CheckSize \/ InstallationToken \/ Clone
              \/ ClonePullHead \/ CloneFails \/ FilterNoToken \/ FilterFailsOpen \/ FilterDecides
  BY <1>1, <1>2, <1>5 DEF PreflightSkip, ReadBinding, Prepare, CheckSize, InstallationToken, Clone,
          ClonePullHead, CloneFails, FilterNoToken, FilterFailsOpen, FilterDecides, Goto, Ending, Clean
<1>6. CASE ResolvePlan
  <2>1. Resolve(job).kind \in {"plan", "nothing", "invalid"}
    BY ResolveType DEF RunTypeOK, StateTypeOK
  <2>2. CASE Resolve(job).kind = "plan"
    BY <1>6, <2>2 DEF ResolvePlan, Goto, Ending
  <2>3. CASE Resolve(job).kind = "invalid"
    BY <1>1, <1>3, <1>6, <2>3 DEF ResolvePlan, Answered, Ending
  <2>4. CASE Resolve(job).kind = "nothing"
    BY <1>1, <1>3, <1>6, <2>4 DEF ResolvePlan, Answered, Ending
  <2>. QED BY <2>1, <2>2, <2>3, <2>4
<1>7. CASE RuntimeFails
  BY <1>1, <1>2, <1>3, <1>7 DEF RuntimeFails, steps, Answered, Ending
<1>8. CASE StartPlan
  BY <1>1, <1>2, <1>8 DEF StartPlan, steps, Goto, Ending
<1>9. CASE FinalSwitch
  <2>1. pc = "steps" /\ plan' = plan
    BY <1>9 DEF FinalSwitch, StepsOver, steps
  <2>2. PICK out, arg : Finish(out, arg) /\ out.status \in {"cancelled", "failure", "success"}
    <3>1. CASE ~Live \/ AnyTimedOut
      BY <1>9, <3>1, OutcomeTypes DEF FinalSwitch
    <3>2. CASE Live /\ ~AnyTimedOut /\ Failed
      BY <1>9, <3>2, OutcomeTypes DEF FinalSwitch
    <3>3. CASE Live /\ ~AnyTimedOut /\ ~Failed
      BY <1>9, <3>3, OutcomeTypes DEF FinalSwitch
    <3>. QED BY <3>1, <3>2, <3>3
  <2>3. pc' = "complete" /\ row'.status \in {"cancelled", "failure", "success"}
    BY <1>1, <2>2
  <2>. QED BY <1>1, <1>2, <2>1, <2>3 DEF Answered, Ending
<1>10. CASE Complete \/ Cleanup
  BY <1>1, <1>2, <1>10 DEF Complete, Cleanup, Goto, Ending, Answered, steps, report
<1>11. CASE StartStep \/ StepKilled \/ SkipTheRest \/ StepFinishes \/ Clock \/ Cancel \/ UNCHANGED runVars
  <2>1. UNCHANGED <<pc, plan, row>>
    BY <1>11 DEF StartStep, StepKilled, StepEnds, SkipTheRest, StepFinishes, Clock, Tick, Expire, PlanExpires,
                 Propagate, Cancel, Others, runVars, steps, report, NoReport
  <2>. QED BY <1>4, <2>1
<1>. QED BY <1>5, <1>6, <1>7, <1>8, <1>9, <1>10, <1>11 DEF RunNext, Local, Remote

\* The plan of a job that is no fork's is the dry run's.
LEMMA DryPlanIsThePlan ==
    ASSUME job \in InputType, ~job.fork
    PROVE  /\ DryPlan(job) = Resolve(job)
           /\ FileFails(job) => \/ Resolve(job).kind = "invalid"
                                \/ Resolve(job).kind = "plan" /\ Resolve(job).runtime = "illegal"
                                \/ Resolve(job).kind = "nothing" /\ job.file.runtime = "illegal"
<1>1. [job EXCEPT !.fork = FALSE] = job
  BY DEF InputType
<1>2. Invalid.kind = "invalid" /\ NoPlan.kind = "nothing"
  BY DEF Invalid, NoPlan
<1>3. CASE job.file.kind = "broken" \/ job.file.timeout = BadTimeout
  BY <1>1, <1>2, <1>3 DEF DryPlan, Resolve
<1>4. CASE ~(job.file.kind = "broken" \/ job.file.timeout = BadTimeout)
  <2>1. job.file.runtime = "illegal" =>
            \A source, S : Plan(job, source, S).kind = "plan" /\ Plan(job, source, S).runtime = "illegal"
    BY DEF Plan, Runtime
  <2>2. job.file.runtime = "illegal" =>
            Resolve(job) \in {Invalid, NoPlan} \/ \E source, S : Resolve(job) = Plan(job, source, S)
    BY <1>4 DEF Resolve
  <2>3. DryPlan(job) = Resolve(job)
    BY <1>1 DEF DryPlan
  <2>4. FileFails(job) => job.file.runtime = "illegal"
    BY <1>4 DEF FileFails
  <2>. QED BY <1>2, <2>1, <2>2, <2>3, <2>4
<1>. QED BY <1>3, <1>4

\* What the dry run says is what the worker does: both resolve the same plan,
\* and each way it can end is the one the decision names.
THEOREM DryRunsPredictRuns == RunSpec => []DryRunPredictsRun
<1>1. RunInit => DryInv
  BY DEF RunInit, DryInv, Ending
<1>2. RunTypeOK /\ DryInv => DryRunPredictsRun
  <2>. SUFFICES ASSUME RunTypeOK, DryInv, pc = "done", Clean,
                       ~(job.file.runtime = "illegal" /\ DryPlan(job).kind = "nothing")
                PROVE  CASE Decision(job) = "run"  -> /\ row.status \in {"success", "failure", "cancelled"}
                                                      /\ plan = DryPlan(job)
                         [] Decision(job) = "skip" -> row.status = "skipped"
                         [] Decision(job) = "fail" -> row.status = "error"
    BY DEF DryRunPredictsRun, Clean
  <2>1. Answered /\ job \in InputType /\ ~job.fork /\ ~job.paths
    BY DEF DryInv, Ending, Clean, RunTypeOK, StateTypeOK
  <2>2. Resolve(job).kind \in {"plan", "nothing", "invalid"} /\ DryPlan(job) = Resolve(job)
    BY <2>1, ResolveType, DryPlanIsThePlan
  <2>3. ~FilterSkips(job)
    BY <2>1 DEF FilterSkips
  <2>4. FileFails(job) => \/ Resolve(job).kind = "invalid"
                          \/ Resolve(job).kind = "plan" /\ Resolve(job).runtime = "illegal"
    BY <2>1, <2>2, DryPlanIsThePlan
  <2>5. CASE Resolve(job).kind = "invalid"
    BY <2>1, <2>2, <2>5 DEF Answered, Decision
  <2>6. CASE Resolve(job).kind = "nothing"
    BY <2>1, <2>2, <2>4, <2>6 DEF Answered, Decision
  <2>7. CASE Resolve(job).kind = "plan"
    BY <2>1, <2>2, <2>3, <2>4, <2>7 DEF Answered, Decision
  <2>. QED BY <2>2, <2>5, <2>6, <2>7
<1>. QED BY <1>1, <1>2, DryStep, TypeCorrect, PTL DEF RunSpec
=============================================================================
