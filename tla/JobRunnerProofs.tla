-------------------------- MODULE JobRunnerProofs --------------------------
(***************************************************************************)
(* Proofs about JobRunner for any set of jobs and callers, any limit and   *)
(* any bounds: type correctness, the inductive invariant and the safety    *)
(* properties that follow from it; then that JobRunner implements JobPool, *)
(* the pool the queue promises, and JobTable, the view Webhook is checked  *)
(* against: every step is a step of the abstract specification or leaves   *)
(* its variables alone.                                                    *)
(***************************************************************************)
EXTENDS JobRunner, FiniteSetTheorems, TLAPS

USE NoJobAssumption, BoundsAssumption

(***************************************************************************)
(* What runJob writes is always a finished status with its conclusion.     *)
(***************************************************************************)
LEMMA OutcomeFields ==
    ASSUME NEW c \in CtxStates, NEW out \in Outcomes(c)
    PROVE  /\ out.status \in Terminal
           /\ out.conclusion \in Conclusions
  BY DEF CtxStates, Outcomes, CtxBlind, Outcome, Terminal, Conclusions

LEMMA OurFaultFields ==
    /\ OurFault.status = "error" /\ OurFault.conclusion = "failure"
    /\ Superseded.status = "cancelled" /\ Superseded.conclusion = "cancelled"
  BY DEF OurFault, Superseded, Outcome

-----------------------------------------------------------------------------
(* Type correctness.                                                       *)

LEMMA InitTypeOK == Init => TypeOK
<1> SUFFICES ASSUME Init PROVE TypeOK
  OBVIOUS
<1> USE DEF Init
<1>1. RowsTypeOK
  BY DEF RowsTypeOK
<1>2. RunsTypeOK
  BY DEF RunsTypeOK, PCs, CtxStates
<1>3. LoopTypeOK
  BY DEF LoopTypeOK, LoopPCs
<1>4. CallsTypeOK
  BY DEF CallsTypeOK, CallPCs
<1>5. GitHubTypeOK
  BY DEF GitHubTypeOK
<1>6. BoundsTypeOK
  BY DEF BoundsTypeOK
<1> QED
  BY <1>1, <1>2, <1>3, <1>4, <1>5, <1>6 DEF TypeOK

\* What FinishJob and the other helpers leave behind.
LEMMA WriteEndTypes ==
    ASSUME TypeOK, NEW j \in Jobs, NEW out, WriteEnd(j, out),
           out.status \in Terminal, out.conclusion \in Conclusions
    PROVE  /\ status' \in [Jobs -> {"absent"} \cup JobStatuses]
           /\ conclusion' \in [Jobs -> {NoConclusion} \cup Conclusions]
           /\ storeFaults' \in Nat
  BY DEF TypeOK, RowsTypeOK, BoundsTypeOK, WriteEnd, StoreFault, JobStatuses

LEMMA ProcessTypes ==
    ASSUME TypeOK, Process
    PROVE  TypeOK'
<1> USE DEF TypeOK, rows, runs, calls, github, faults
<1>1. CASE Launch
  BY <1>1 DEF Launch, LoopPCs, RowsTypeOK, RunsTypeOK, LoopTypeOK, CallsTypeOK, GitHubTypeOK,
              BoundsTypeOK
<1>2. CASE Requeue
  BY <1>2 DEF Requeue, StoreFault, JobStatuses, InFlight, LoopPCs, process, RowsTypeOK, RunsTypeOK,
              LoopTypeOK, CallsTypeOK, GitHubTypeOK, BoundsTypeOK
<1>3. CASE Shutdown
  BY <1>3 DEF Shutdown, CtxStates, loopVars, RowsTypeOK, RunsTypeOK, LoopTypeOK, CallsTypeOK,
              GitHubTypeOK, BoundsTypeOK
<1>4. CASE Exit \/ Crash
  <2> USE <1>4 DEF Exit, Crash, ProcessEnds
  <2>1. RowsTypeOK' /\ GitHubTypeOK' /\ BoundsTypeOK'
    BY DEF RowsTypeOK, GitHubTypeOK, BoundsTypeOK
  <2>2. RunsTypeOK'
    BY DEF RunsTypeOK, PCs, CtxStates
  <2>3. LoopTypeOK'
    BY DEF LoopTypeOK, LoopPCs
  <2>4. CallsTypeOK'
    BY DEF CallsTypeOK, CallPCs
  <2> QED
    BY <2>1, <2>2, <2>3, <2>4
<1> QED
  BY <1>1, <1>2, <1>3, <1>4 DEF Process

LEMMA LoopTypes ==
    ASSUME TypeOK, Loop
    PROVE  TypeOK'
<1> USE DEF TypeOK, rows, runs, process, calls, github, faults, RowsTypeOK, RunsTypeOK, LoopTypeOK,
            CallsTypeOK, GitHubTypeOK, BoundsTypeOK
<1>1. CASE DrainEnter \/ SelectDone \/ SelectTick
  BY <1>1 DEF DrainEnter, SelectDone, SelectTick, LoopPCs
<1>2. CASE DrainLimit
  BY <1>2 DEF DrainLimit, StoreFault, LoopPCs
<1>3. ASSUME NEW j \in Jobs, Claim(j)
      PROVE  TypeOK'
  BY <1>3 DEF Claim, Oldest, Queued, LoopPCs, JobStatuses, InFlight
<1>4. CASE ClaimNothing
  BY <1>4 DEF ClaimNothing, StoreFault, LoopPCs
<1>5. CASE StartJob
  BY <1>5 DEF StartJob, LoopPCs, PCs, CtxStates
<1>6. CASE SelectNotify
  BY <1>6 DEF SelectNotify, LoopPCs
<1> QED
  BY <1>1, <1>2, <1>3, <1>4, <1>5, <1>6 DEF Loop

LEMMA GoroutineTypes ==
    ASSUME TypeOK, NEW j \in Jobs, Goroutine(j)
    PROVE  TypeOK'
<1> USE DEF TypeOK, rows, runs, loopVars, process, calls, github, faults, Goto, RowsTypeOK, RunsTypeOK,
            LoopTypeOK, CallsTypeOK, GitHubTypeOK, BoundsTypeOK
<1>1. CASE Open(j)
  BY <1>1 DEF Open, PCs
<1>2. CASE OpenFails(j)
  <2>1. status' \in [Jobs -> {"absent"} \cup JobStatuses] /\ storeFaults' \in Nat
        /\ conclusion' \in [Jobs -> {NoConclusion} \cup Conclusions]
    BY <1>2, WriteEndTypes, OurFaultFields DEF OpenFails, Terminal, Conclusions
  <2> QED
    BY <1>2, <2>1 DEF OpenFails, PCs
<1>3. CASE ReopenCheckRun(j)
  BY <1>3 DEF ReopenCheckRun, Reopened, PCs
<1>4. CASE ReopenFails(j)
  BY <1>4 DEF ReopenFails, Reopened, ApiFault, PCs
<1>5. ASSUME NEW c \in Checks, CreateCheckRun(j, c)
      PROVE  TypeOK'
  BY <1>5 DEF CreateCheckRun, Created, PCs
<1>6. CASE CreateFails(j)
  <2>1. status' \in [Jobs -> {"absent"} \cup JobStatuses] /\ storeFaults' \in Nat
        /\ conclusion' \in [Jobs -> {NoConclusion} \cup Conclusions]
    BY <1>6, WriteEndTypes, OurFaultFields DEF CreateFails, Terminal, Conclusions
  <2>2. GitHubTypeOK' /\ apiFaults' \in Nat
    BY <1>6 DEF CreateFails, Created, ApiFault
  <2> QED
    BY <1>6, <2>1, <2>2 DEF CreateFails, PCs
<1>7. CASE SetJobCheckRun(j)
  BY <1>7 DEF SetJobCheckRun, StoreFault, PCs
<1>8. ASSUME NEW out \in Endings, Decide(j, out)
      PROVE  TypeOK'
  <2>1. out.status \in Terminal /\ out.conclusion \in Conclusions
    BY <1>8, OutcomeFields DEF Decide
  <2>2. status' \in [Jobs -> {"absent"} \cup JobStatuses] /\ storeFaults' \in Nat
        /\ conclusion' \in [Jobs -> {NoConclusion} \cup Conclusions]
    BY <1>8, <2>1, WriteEndTypes DEF Decide
  <2> QED
    BY <1>8, <2>1, <2>2 DEF Decide, PCs
<1>9. CASE CompleteCheckRun(j)
  BY <1>9 DEF CompleteCheckRun, Completed, PCs
<1>10. CASE CompleteFails(j)
  BY <1>10 DEF CompleteFails, Completed, ApiFault, PCs
<1>11. CASE Unwind(j)
  BY <1>11 DEF Unwind, PCs, CtxStates
<1>12. CASE Expire(j)
  BY <1>12 DEF Expire, CtxStates
<1> QED
  BY <1>1, <1>2, <1>3, <1>4, <1>5, <1>6, <1>7, <1>8, <1>9, <1>10, <1>11, <1>12
  DEF Goroutine, Work, Local

LEMMA CallTypes ==
    ASSUME TypeOK, NEW h \in Callers, Request(h) \/ Serve(h)
    PROVE  TypeOK'
<1> USE DEF TypeOK, rows, runs, loopVars, process, calls, github, faults, Return, RowsTypeOK,
            RunsTypeOK, LoopTypeOK, CallsTypeOK, GitHubTypeOK, BoundsTypeOK
<1>1. ASSUME NEW j \in Jobs, EnqueueJob(h, j)
      PROVE  TypeOK'
  BY <1>1 DEF EnqueueJob, StoreFault, CallPCs, JobStatuses, InFlight
<1>2. ASSUME NEW j \in Jobs, CancelJob(h, j)
      PROVE  TypeOK'
  BY <1>2 DEF CancelJob, CallPCs
<1>3. CASE Notify(h)
  BY <1>3 DEF Notify, CallPCs
<1>4. CASE CancelRunning(h)
  BY <1>4 DEF CancelRunning, CallPCs, CtxStates
<1>5. CASE CancelNotRunning(h)
  BY <1>5 DEF CancelNotRunning, CallPCs
<1>6. CASE CancelRead(h)
  BY <1>6 DEF CancelRead, StoreFault, CallPCs
<1>7. CASE CancelFinish(h)
  <2>1. status' \in [Jobs -> {"absent"} \cup JobStatuses] /\ storeFaults' \in Nat
        /\ conclusion' \in [Jobs -> {NoConclusion} \cup Conclusions]
    BY <1>7, WriteEndTypes, OurFaultFields DEF CancelFinish, Terminal, Conclusions
  <2> QED
    BY <1>7, <2>1 DEF CancelFinish, CallPCs
<1> QED
  BY <1>1, <1>2, <1>3, <1>4, <1>5, <1>6, <1>7 DEF Request, Serve

LEMMA StutterTypes ==
    ASSUME TypeOK, UNCHANGED vars
    PROVE  TypeOK'
  BY DEF vars, TypeOK, rows, runs, loopVars, process, calls, github, faults, RowsTypeOK, RunsTypeOK,
         LoopTypeOK, CallsTypeOK, GitHubTypeOK, BoundsTypeOK

\* Every variable keeps its type, for any jobs, callers, limit and bounds.
THEOREM TypeCorrect == Spec => []TypeOK
<1>1. Init => TypeOK
  BY InitTypeOK
<1>2. TypeOK /\ [Next]_vars => TypeOK'
  BY ProcessTypes, LoopTypes, GoroutineTypes, CallTypes, StutterTypes DEF Next
<1> QED
  BY <1>1, <1>2, PTL DEF Spec

-----------------------------------------------------------------------------
(***************************************************************************)
(* The inductive invariant.  None of the safety properties is inductive    *)
(* alone: the slot bound needs to know where drain is, single ownership    *)
(* needs Runner.running to be exactly the live goroutines, and a Check Run *)
(* id is only known to be its job's if unused ids belong to nobody.        *)
(***************************************************************************)

\* Runner.running holds exactly the live goroutines, there is none while the
\* process is down or has yet to requeue, and nothing held is up for a claim.
Ownership ==
    /\ running = Executing
    /\ claimed \notin Executing
    /\ loop \in {"down", "boot"} => Executing = {}
    /\ OwnedJobsAreNotQueued

\* What drain saw in Active() is still true when it claims and registers.
SlotsBound ==
    /\ Cardinality(running) <= Limit
    /\ loop \in {"claim", "start"} => Cardinality(running) < Limit

\* A goroutine past its last write has written an ending.
EndingsAreWritten ==
    storeFaults = 0 => \A j \in Jobs : pc[j] \in {"complete", "unwind"} => status[j] \in Terminal

\* The ids GitHub has not given out belong to nobody.
UnusedChecks == \A c \in Checks : checkState[c] = "absent" => checkJob[c] = NoJob

\* Where runJob's local id comes from, stage by stage.
CheckIds ==
    \A j \in Jobs :
        /\ pc[j] = "open" => runCheck[j] = checkRunID[j]
        /\ pc[j] = "create" => checkRunID[j] = NoCheck \/ ctx[j] # "live" \/ apiFaults > 0
        /\ pc[j] = "record" => runCheck[j] # NoCheck

\* A request cancels a job whose row it has seen, and rows are not un-inserted.
TargetsExist ==
    \A h \in Callers :
        call[h] \in {"lookup", "read", "finish"} => status[target[h]] # "absent"

Inv ==
    /\ TypeOK
    /\ Ownership
    /\ SlotsBound
    /\ EndingsAreWritten
    /\ ClaimedRowsAreOwned
    /\ UnusedChecks
    /\ ChecksBelongToTheirJob
    /\ CheckIds
    /\ TargetsExist

-----------------------------------------------------------------------------
(* Facts the steps below share.                                            *)

LEMMA LimitIsPositive == Limit \in Int /\ Limit >= 1
  BY DEF Limit

\* FinishJob writes one row, with a finished status unless its UPDATE failed.
LEMMA WriteEndRow ==
    ASSUME TypeOK, NEW j \in Jobs, NEW out, WriteEnd(j, out), out.status \in Terminal
    PROVE  /\ \A k \in Jobs : k # j => status'[k] = status[k]
           /\ status'[j] \in Terminal \/ (status'[j] = status[j] /\ storeFaults' > 0)
           /\ storeFaults' = 0 => storeFaults = 0
  BY DEF WriteEnd, StoreFault, TypeOK, RowsTypeOK, BoundsTypeOK

LEMMA TerminalIsNotInFlight ==
    \A s \in Terminal : s \notin {"absent", "queued", "in_progress"}
  BY DEF Terminal

\* Runner.running is finite, so its cardinality is a number.
LEMMA RunningIsFinite ==
    ASSUME TypeOK
    PROVE  IsFiniteSet(running) /\ Cardinality(running) \in Nat
  BY JobsAssumption, FS_Subset, FS_CardinalityType DEF TypeOK, RunsTypeOK

LEMMA InitInv == Init => Inv
<1> SUFFICES ASSUME Init PROVE Inv
  OBVIOUS
<1>1. TypeOK
  BY InitTypeOK
<1>2. Ownership
  BY DEF Init, Ownership, Executing, Owned, OwnedJobsAreNotQueued
<1>3. SlotsBound
  BY FS_EmptySet, LimitIsPositive DEF Init, SlotsBound
<1>4. EndingsAreWritten /\ ClaimedRowsAreOwned /\ UnusedChecks /\ ChecksBelongToTheirJob /\ CheckIds
      /\ TargetsExist
  BY DEF Init, EndingsAreWritten, ClaimedRowsAreOwned, UnusedChecks, ChecksBelongToTheirJob, CheckIds,
         TargetsExist, NoCheck
<1> QED
  BY <1>1, <1>2, <1>3, <1>4 DEF Inv

-----------------------------------------------------------------------------
(* Each part of the invariant is preserved.                                *)

\* Ownership.
LEMMA OwnershipStep ==
    ASSUME Inv, [Next]_vars, TypeOK'
    PROVE  Ownership'
<1> USE DEF Inv, Ownership, Executing, Owned, OwnedJobsAreNotQueued, TypeOK
<1>1. CASE Launch
  BY <1>1 DEF Launch, runs, rows
<1>2. CASE Requeue
  BY <1>2 DEF Requeue, runs, process, LoopTypeOK
<1>3. CASE Shutdown
  BY <1>3 DEF Shutdown, runs, rows, loopVars
<1>4. CASE Exit \/ Crash
  BY <1>4 DEF Exit, Crash, ProcessEnds
<1>5. CASE DrainEnter \/ DrainLimit \/ ClaimNothing \/ SelectDone \/ SelectTick
  BY <1>5 DEF DrainEnter, DrainLimit, ClaimNothing, SelectDone, SelectTick, runs, rows, process
<1>6. ASSUME NEW j \in Jobs, Claim(j)
      PROVE  Ownership'
  BY <1>6 DEF Claim, Oldest, Queued, runs, process, RowsTypeOK, LoopTypeOK
<1>7. CASE StartJob
  BY <1>7 DEF StartJob, rows, RunsTypeOK, LoopTypeOK
<1>8. CASE SelectNotify
  BY <1>8 DEF SelectNotify, rows, runs
<1>9. ASSUME NEW j \in Jobs, Goroutine(j)
      PROVE  Ownership'
  <2> USE DEF RunsTypeOK, LoopTypeOK, Goto, runs, rows, loopVars, process
  <2>1. CASE Open(j) \/ ReopenCheckRun(j) \/ ReopenFails(j) \/ CompleteCheckRun(j) \/ CompleteFails(j)
    BY <2>1 DEF Open, ReopenCheckRun, ReopenFails, CompleteCheckRun, CompleteFails
  <2>2. CASE OpenFails(j)
    BY <2>2, WriteEndRow, OurFaultFields, TerminalIsNotInFlight DEF OpenFails, Terminal
  <2>3. ASSUME NEW c \in Checks, CreateCheckRun(j, c)
        PROVE  Ownership'
    BY <2>3 DEF CreateCheckRun
  <2>4. CASE CreateFails(j)
    BY <2>4, WriteEndRow, OurFaultFields, TerminalIsNotInFlight DEF CreateFails, Terminal
  <2>5. CASE SetJobCheckRun(j)
    BY <2>5 DEF SetJobCheckRun
  <2>6. ASSUME NEW out \in Endings, Decide(j, out)
        PROVE  Ownership'
    BY <2>6, OutcomeFields, WriteEndRow, TerminalIsNotInFlight DEF Decide
  <2>7. CASE Unwind(j)
    BY <2>7 DEF Unwind
  <2>8. CASE Expire(j)
    BY <2>8 DEF Expire
  <2> QED
    BY <1>9, <2>1, <2>2, <2>3, <2>4, <2>5, <2>6, <2>7, <2>8 DEF Goroutine, Work, Local
<1>10. ASSUME NEW h \in Callers, Request(h) \/ Serve(h)
       PROVE  Ownership'
  <2> USE DEF runs, rows, loopVars, process
  <2>1. ASSUME NEW j \in Jobs, EnqueueJob(h, j)
        PROVE  Ownership'
    BY <2>1 DEF EnqueueJob, RowsTypeOK
  <2>2. ASSUME NEW j \in Jobs, CancelJob(h, j)
        PROVE  Ownership'
    BY <2>2 DEF CancelJob
  <2>3. CASE Notify(h) \/ CancelRunning(h) \/ CancelNotRunning(h) \/ CancelRead(h)
    BY <2>3 DEF Notify, CancelRunning, CancelNotRunning, CancelRead
  <2>4. CASE CancelFinish(h)
    <3>1. target[h] \in Jobs
      BY <2>4 DEF CancelFinish, CallsTypeOK
    <3>2. /\ \A k \in Jobs : k # target[h] => status'[k] = status[k]
          /\ status'[target[h]] \in Terminal \/ status'[target[h]] = status[target[h]]
      BY <2>4, <3>1, WriteEndRow, OurFaultFields DEF CancelFinish, Terminal
    <3>3. Owned' = Owned /\ Owned \subseteq Jobs /\ UNCHANGED <<running, pc, claimed, loop>>
      BY <2>4 DEF CancelFinish, LoopTypeOK
    <3>4. OwnedJobsAreNotQueued'
      BY <3>2, <3>3, TerminalIsNotInFlight
    <3> QED
      BY <3>3, <3>4
  <2> QED
    BY <1>10, <2>1, <2>2, <2>3, <2>4 DEF Request, Serve
<1>11. CASE UNCHANGED vars
  BY <1>11 DEF vars, rows, runs, loopVars, process
<1> QED
  BY <1>1, <1>2, <1>3, <1>4, <1>5, <1>6, <1>7, <1>8, <1>9, <1>10, <1>11 DEF Next, Process, Loop

\* The slots.
LEMMA SlotsStep ==
    ASSUME Inv, [Next]_vars, TypeOK'
    PROVE  SlotsBound'
<1> USE DEF Inv, SlotsBound
<1>1. Limit' = Limit
  BY DEF Limit
<1>2. CASE UNCHANGED <<running, loop>>
  BY <1>1, <1>2
<1>3. CASE Launch \/ Requeue
  BY <1>1, <1>3 DEF Launch, Requeue, process
<1>4. CASE Exit \/ Crash
  BY <1>1, <1>4, FS_EmptySet, LimitIsPositive DEF Exit, Crash, ProcessEnds
<1>5. CASE DrainEnter \/ ClaimNothing \/ SelectDone \/ SelectNotify \/ SelectTick
  BY <1>1, <1>5 DEF DrainEnter, ClaimNothing, SelectDone, SelectNotify, SelectTick, process
<1>6. CASE DrainLimit
  BY <1>1, <1>6, RunningIsFinite, LimitIsPositive DEF DrainLimit, process
<1>7. ASSUME NEW j \in Jobs, Claim(j)
      PROVE  SlotsBound'
  BY <1>1, <1>7 DEF Claim, process
<1>8. CASE StartJob
  <2>1. claimed \notin running
    BY DEF Ownership
  <2>2. Cardinality(running') = Cardinality(running) + 1
    BY <1>8, <2>1, RunningIsFinite, FS_AddElement DEF StartJob
  <2> QED
    BY <1>1, <1>8, <2>2, RunningIsFinite, LimitIsPositive DEF StartJob
<1>9. ASSUME NEW j \in Jobs, Unwind(j)
      PROVE  SlotsBound'
  <2>0. running' \in SUBSET running
    BY <1>9 DEF Unwind
  <2>1. Cardinality(running') <= Cardinality(running) /\ Cardinality(running') \in Nat
    BY <2>0, RunningIsFinite, FS_Subset, FS_CardinalityType
  <2> QED
    BY <1>1, <1>9, <2>1, RunningIsFinite, LimitIsPositive DEF Unwind, loopVars
<1>10. ASSUME NEW j \in Jobs, Goroutine(j), ~Unwind(j)
       PROVE  UNCHANGED <<running, loop>>
  BY <1>10 DEF Goroutine, Work, Local, Open, OpenFails, ReopenCheckRun, ReopenFails, CreateCheckRun,
               CreateFails, SetJobCheckRun, Decide, CompleteCheckRun, CompleteFails, Expire, loopVars,
               process
<1>11. ASSUME NEW h \in Callers, Request(h) \/ Serve(h)
       PROVE  UNCHANGED <<running, loop>>
  BY <1>11 DEF Request, Serve, EnqueueJob, CancelJob, Notify, CancelRunning, CancelNotRunning,
               CancelRead, CancelFinish, loopVars, process
<1>12. CASE Shutdown \/ UNCHANGED vars
  BY <1>1, <1>12 DEF Shutdown, vars, loopVars, process
<1> QED
  BY <1>2, <1>3, <1>4, <1>5, <1>6, <1>7, <1>8, <1>9, <1>10, <1>11, <1>12 DEF Next, Process, Loop

\* The rows of the goroutines that have ended, and of those that are gone.
LEMMA RowsStep ==
    ASSUME Inv, [Next]_vars, TypeOK', Ownership'
    PROVE  EndingsAreWritten' /\ ClaimedRowsAreOwned'
<1> SUFFICES ASSUME storeFaults' = 0
             PROVE  /\ \A j \in Jobs : pc'[j] \in {"complete", "unwind"} => status'[j] \in Terminal
                    /\ loop' \notin {"down", "boot"} =>
                         \A j \in Jobs : status'[j] = "in_progress" => j \in Owned'
  BY DEF EndingsAreWritten, ClaimedRowsAreOwned
<1> USE DEF Inv, TypeOK, Executing, Owned, rows, runs, loopVars, process
<1>0. storeFaults = 0
  BY DEF BoundsTypeOK, Next, Process, Loop, Goroutine, Work, Local, Request, Serve, vars, faults,
         StoreFault, Launch, Requeue, Shutdown, Exit, Crash, ProcessEnds, DrainEnter, DrainLimit, Claim,
         ClaimNothing, StartJob, SelectDone, SelectNotify, SelectTick, Open, OpenFails, WriteEnd,
         ReopenCheckRun, ReopenFails, CreateCheckRun, CreateFails, SetJobCheckRun, Decide,
         CompleteCheckRun, CompleteFails, Unwind, Expire, EnqueueJob, CancelJob, Notify, CancelRunning,
         CancelNotRunning, CancelRead, CancelFinish
<1>a. /\ \A j \in Jobs : pc[j] \in {"complete", "unwind"} => status[j] \in Terminal
      /\ loop \notin {"down", "boot"} => \A j \in Jobs : status[j] = "in_progress" => j \in Owned
  BY <1>0 DEF EndingsAreWritten, ClaimedRowsAreOwned
<1>1. CASE Launch
  BY <1>1, <1>a DEF Launch
<1>2. CASE Requeue
  BY <1>2, <1>a DEF Requeue, StoreFault, RowsTypeOK, BoundsTypeOK, Ownership
<1>3. CASE Shutdown
  BY <1>3, <1>a DEF Shutdown
<1>4. CASE Exit \/ Crash
  BY <1>4 DEF Exit, Crash, ProcessEnds
<1>5. CASE DrainEnter \/ DrainLimit \/ ClaimNothing \/ SelectDone \/ SelectTick \/ SelectNotify
  BY <1>5, <1>a DEF DrainEnter, DrainLimit, ClaimNothing, SelectDone, SelectTick, SelectNotify
<1>6. ASSUME NEW j \in Jobs, Claim(j)
      PROVE  /\ \A k \in Jobs : pc'[k] \in {"complete", "unwind"} => status'[k] \in Terminal
             /\ \A k \in Jobs : status'[k] = "in_progress" => k \in Owned'
  <2>1. status[j] = "queued" /\ pc[j] = "none" /\ claimed = NoJob
    BY <1>6 DEF Claim, Oldest, Queued, Ownership, OwnedJobsAreNotQueued, LoopTypeOK
  <2> QED
    BY <1>6, <1>a, <2>1 DEF Claim, RowsTypeOK
<1>7. CASE StartJob
  BY <1>7, <1>a DEF StartJob, RunsTypeOK, LoopTypeOK
<1>8. ASSUME NEW j \in Jobs, Goroutine(j)
      PROVE  /\ \A k \in Jobs : pc'[k] \in {"complete", "unwind"} => status'[k] \in Terminal
             /\ loop' \notin {"down", "boot"} =>
                  \A k \in Jobs : status'[k] = "in_progress" => k \in Owned'
  <2> USE DEF RunsTypeOK, Goto
  <2>1. CASE Open(j) \/ ReopenCheckRun(j) \/ ReopenFails(j) \/ SetJobCheckRun(j)
    BY <2>1, <1>a DEF Open, ReopenCheckRun, ReopenFails, SetJobCheckRun
  <2>2. ASSUME NEW c \in Checks, CreateCheckRun(j, c)
        PROVE  pc' = [pc EXCEPT ![j] = "record"] /\ UNCHANGED <<status, loop, claimed>>
    BY <2>2 DEF CreateCheckRun
  <2>3. ASSUME NEW out, WriteEnd(j, out), out.status \in Terminal
        PROVE  status'[j] \in Terminal /\ \A k \in Jobs : k # j => status'[k] = status[k]
    BY <2>3, <1>0 DEF WriteEnd, StoreFault, RowsTypeOK, BoundsTypeOK
  <2>4. CASE OpenFails(j)
    BY <2>4, <2>3, <1>a, OurFaultFields, TerminalIsNotInFlight DEF OpenFails, Terminal
  <2>5. CASE CreateFails(j)
    BY <2>5, <2>3, <1>a, OurFaultFields, TerminalIsNotInFlight DEF CreateFails, Terminal
  <2>6. ASSUME NEW out \in Endings, Decide(j, out)
        PROVE  /\ \A k \in Jobs : pc'[k] \in {"complete", "unwind"} => status'[k] \in Terminal
               /\ loop' \notin {"down", "boot"} =>
                    \A k \in Jobs : status'[k] = "in_progress" => k \in Owned'
    BY <2>6, <2>3, <1>a, OutcomeFields, TerminalIsNotInFlight DEF Decide
  <2>7. CASE CompleteCheckRun(j) \/ CompleteFails(j)
    BY <2>7, <1>a DEF CompleteCheckRun, CompleteFails
  <2>8. CASE Unwind(j)
    BY <2>8, <1>a, TerminalIsNotInFlight DEF Unwind
  <2>9. CASE Expire(j)
    BY <2>9, <1>a DEF Expire
  <2> QED
    BY <1>8, <1>a, <2>1, <2>2, <2>4, <2>5, <2>6, <2>7, <2>8, <2>9 DEF Goroutine, Work, Local
<1>9. ASSUME NEW h \in Callers, Request(h) \/ Serve(h)
      PROVE  /\ \A k \in Jobs : pc'[k] \in {"complete", "unwind"} => status'[k] \in Terminal
             /\ loop' \notin {"down", "boot"} =>
                  \A k \in Jobs : status'[k] = "in_progress" => k \in Owned'
  <2>1. ASSUME NEW j \in Jobs, EnqueueJob(h, j)
        PROVE  /\ \A k \in Jobs : pc'[k] \in {"complete", "unwind"} => status'[k] \in Terminal
               /\ loop' \notin {"down", "boot"} =>
                    \A k \in Jobs : status'[k] = "in_progress" => k \in Owned'
    BY <2>1, <1>a, TerminalIsNotInFlight DEF EnqueueJob, RowsTypeOK
  <2>2. ASSUME NEW j \in Jobs, CancelJob(h, j)
        PROVE  UNCHANGED <<status, pc, loop, claimed>>
    BY <2>2 DEF CancelJob
  <2>3. CASE Notify(h) \/ CancelRunning(h) \/ CancelNotRunning(h) \/ CancelRead(h)
    BY <2>3, <1>a DEF Notify, CancelRunning, CancelNotRunning, CancelRead
  <2>4. CASE CancelFinish(h)
    <3>1. target[h] \in Jobs
      BY <2>4 DEF CancelFinish, CallsTypeOK
    <3>2. /\ \A k \in Jobs : k # target[h] => status'[k] = status[k]
          /\ status'[target[h]] \in Terminal
      BY <2>4, <3>1, <1>0, OurFaultFields
      DEF CancelFinish, WriteEnd, StoreFault, RowsTypeOK, BoundsTypeOK, Terminal
    <3>3. UNCHANGED <<pc, loop, claimed>>
      BY <2>4 DEF CancelFinish
    <3> QED
      BY <3>1, <3>2, <3>3, <1>a, TerminalIsNotInFlight
  <2> QED
    BY <1>9, <1>a, <2>1, <2>2, <2>3, <2>4 DEF Request, Serve
<1>10. CASE UNCHANGED vars
  BY <1>10, <1>a DEF vars
<1> QED
  BY <1>1, <1>2, <1>3, <1>4, <1>5, <1>6, <1>7, <1>8, <1>9, <1>10 DEF Next, Process, Loop

\* The Check Runs.  Only CreateCheckRun gives an id an owner, and that id was
\* unused, so no row and no goroutine names it for another job.
LEMMA ChecksStep ==
    ASSUME Inv, [Next]_vars, TypeOK'
    PROVE  UnusedChecks' /\ ChecksBelongToTheirJob'
<1> USE DEF Inv, TypeOK, UnusedChecks, ChecksBelongToTheirJob, rows, runs, loopVars, process, calls, github,
            faults, RowsTypeOK, RunsTypeOK, GitHubTypeOK
<1>1. ASSUME NEW j \in Jobs, NEW c \in Checks, Created(c, j), UNCHANGED checkRunID,
             runCheck' = runCheck \/ runCheck' = [runCheck EXCEPT ![j] = c]
      PROVE  UnusedChecks' /\ ChecksBelongToTheirJob'
  <2>1. \A k \in Jobs : checkRunID[k] # c /\ runCheck[k] # c
    <3>1. checkJob[c] = NoJob
      BY <1>1 DEF Created
    <3>2. c # NoCheck
      BY DEF Checks, NoCheck
    <3>3. \A k \in Jobs : k # NoJob
      BY NoJobAssumption
    <3> QED
      BY <3>1, <3>2, <3>3
  <2>2. /\ checkJob' = [checkJob EXCEPT ![c] = j]
        /\ checkState' = [checkState EXCEPT ![c] = "in_progress"]
    BY <1>1 DEF Created
  <2> QED
    BY <1>1, <2>1, <2>2 DEF NoCheck
<1>2. CASE UNCHANGED <<checkRunID, runCheck, checkJob, checkState>>
  BY <1>2
<1>3. CASE Launch \/ Requeue \/ Shutdown
  BY <1>3 DEF Launch, Requeue, Shutdown
<1>4. CASE Exit \/ Crash
  BY <1>4 DEF Exit, Crash, ProcessEnds
<1>5. CASE Loop /\ ~StartJob
  BY <1>5 DEF Loop, DrainEnter, DrainLimit, Claim, ClaimNothing, SelectDone, SelectNotify, SelectTick
<1>6. CASE StartJob
  BY <1>6 DEF StartJob, LoopTypeOK
<1>7. ASSUME NEW j \in Jobs, Goroutine(j)
      PROVE  UnusedChecks' /\ ChecksBelongToTheirJob'
  <2>1. CASE Open(j) \/ OpenFails(j) \/ Expire(j)
    BY <2>1 DEF Open, OpenFails, Expire
  <2>2. CASE ReopenCheckRun(j) \/ ReopenFails(j)
    BY <2>2 DEF ReopenCheckRun, ReopenFails, Reopened
  <2>3. ASSUME NEW c \in Checks, CreateCheckRun(j, c)
        PROVE  UnusedChecks' /\ ChecksBelongToTheirJob'
    BY <1>1, <2>3 DEF CreateCheckRun
  <2>4. CASE CreateFails(j)
    <3>1. UNCHANGED <<checkRunID, runCheck>>
      BY <2>4 DEF CreateFails
    <3>2. CASE UNCHANGED github
      BY <3>1, <3>2
    <3>3. CASE \E c \in Checks : Created(c, j)
      BY <1>1, <3>1, <3>3
    <3> QED
      BY <2>4, <3>2, <3>3 DEF CreateFails
  <2>5. CASE SetJobCheckRun(j)
    BY <2>5 DEF SetJobCheckRun
  <2>6. ASSUME NEW out \in Endings, Decide(j, out)
        PROVE  UnusedChecks' /\ ChecksBelongToTheirJob'
    BY <2>6 DEF Decide
  <2>7. CASE CompleteCheckRun(j) \/ CompleteFails(j)
    BY <2>7 DEF CompleteCheckRun, CompleteFails, Completed
  <2>8. CASE Unwind(j)
    BY <2>8 DEF Unwind
  <2> QED
    BY <1>7, <2>1, <2>2, <2>3, <2>4, <2>5, <2>6, <2>7, <2>8 DEF Goroutine, Work, Local
<1>8. ASSUME NEW h \in Callers, Request(h) \/ Serve(h)
      PROVE  UnusedChecks' /\ ChecksBelongToTheirJob'
  BY <1>8 DEF Request, Serve, EnqueueJob, CancelJob, Notify, CancelRunning, CancelNotRunning,
              CancelRead, CancelFinish
<1>9. CASE UNCHANGED vars
  BY <1>9 DEF vars
<1> QED
  BY <1>3, <1>4, <1>5, <1>6, <1>7, <1>8, <1>9 DEF Next, Process

\* runJob's local id, stage by stage.
LEMMA CheckIdsStep ==
    ASSUME Inv, [Next]_vars, TypeOK'
    PROVE  CheckIds'
<1> USE DEF Inv, TypeOK, CheckIds, rows, runs, loopVars, process, calls, github, faults, RowsTypeOK,
            RunsTypeOK, BoundsTypeOK
<1>1. CASE Launch \/ Requeue
  BY <1>1 DEF Launch, Requeue
<1>2. CASE Shutdown
  BY <1>2 DEF Shutdown
<1>3. CASE Exit \/ Crash
  BY <1>3 DEF Exit, Crash, ProcessEnds
<1>4. CASE Loop /\ ~StartJob
  BY <1>4 DEF Loop, DrainEnter, DrainLimit, Claim, ClaimNothing, SelectDone, SelectNotify, SelectTick
<1>5. CASE StartJob
  BY <1>5 DEF StartJob, LoopTypeOK
<1>6. ASSUME NEW j \in Jobs, Goroutine(j)
      PROVE  CheckIds'
  <2> USE DEF Goto
  <2>1. CASE Open(j)
    BY <2>1 DEF Open
  <2>2. CASE OpenFails(j) \/ CompleteCheckRun(j) \/ ReopenCheckRun(j)
    BY <2>2 DEF OpenFails, CompleteCheckRun, ReopenCheckRun
  <2>3. CASE ReopenFails(j)
    BY <2>3 DEF ReopenFails, ApiFault
  <2>4. ASSUME NEW c \in Checks, CreateCheckRun(j, c)
        PROVE  CheckIds'
    BY <2>4 DEF CreateCheckRun, Checks, NoCheck
  <2>5. CASE CreateFails(j)
    BY <2>5 DEF CreateFails, ApiFault
  <2>6. CASE SetJobCheckRun(j)
    BY <2>6 DEF SetJobCheckRun
  <2>7. ASSUME NEW out \in Endings, Decide(j, out)
        PROVE  CheckIds'
    BY <2>7 DEF Decide
  <2>8. CASE CompleteFails(j)
    BY <2>8 DEF CompleteFails, ApiFault
  <2>9. CASE Unwind(j)
    BY <2>9 DEF Unwind
  <2>10. CASE Expire(j)
    BY <2>10 DEF Expire
  <2> QED
    BY <1>6, <2>1, <2>2, <2>3, <2>4, <2>5, <2>6, <2>7, <2>8, <2>9, <2>10 DEF Goroutine, Work, Local
<1>7. ASSUME NEW h \in Callers, Request(h) \/ Serve(h)
      PROVE  CheckIds'
  <2>1. CASE CancelRunning(h)
    BY <2>1 DEF CancelRunning
  <2>2. CASE Request(h) \/ Notify(h) \/ CancelNotRunning(h) \/ CancelRead(h) \/ CancelFinish(h)
    BY <2>2 DEF Request, EnqueueJob, CancelJob, Notify, CancelNotRunning, CancelRead, CancelFinish
  <2> QED
    BY <1>7, <2>1, <2>2 DEF Serve
<1>8. CASE UNCHANGED vars
  BY <1>8 DEF vars
<1> QED
  BY <1>1, <1>2, <1>3, <1>4, <1>5, <1>6, <1>7, <1>8 DEF Next, Process

\* Which rows a step can touch: a claim takes a queued row, a boot the
\* in_progress ones, an enqueue an absent one; FinishJob writes an ending.
LEMMA StatusStep ==
    ASSUME Inv, [Next]_vars, NEW k \in Jobs
    PROVE  /\ status[k] \in Terminal => status'[k] \in Terminal
           /\ status[k] # "absent" => status'[k] # "absent"
<1> DEFINE Kept == /\ status[k] \in Terminal => status'[k] \in Terminal
                   /\ status[k] # "absent" => status'[k] # "absent"
<1> USE DEF Inv, TypeOK, RowsTypeOK, rows
<1>0. status[k] \in Terminal => status[k] \notin {"absent", "queued", "in_progress"}
  BY TerminalIsNotInFlight
<1>1. ASSUME NEW j \in Jobs, NEW out, WriteEnd(j, out), out.status \in Terminal
      PROVE  Kept
  BY <1>1, WriteEndRow, TerminalIsNotInFlight
<1>2. CASE UNCHANGED status
  BY <1>2
<1>3. CASE Process
  BY <1>3, <1>0 DEF Process, Launch, Requeue, Shutdown, Exit, Crash, ProcessEnds
<1>4. CASE Loop
  BY <1>4, <1>0 DEF Loop, DrainEnter, DrainLimit, Claim, Oldest, Queued, ClaimNothing, StartJob,
                    SelectDone, SelectNotify, SelectTick
<1>5. ASSUME NEW j \in Jobs, Goroutine(j)
      PROVE  Kept
  <2>1. CASE OpenFails(j) \/ CreateFails(j)
    BY <2>1, <1>1, OurFaultFields DEF OpenFails, CreateFails, Terminal
  <2>2. ASSUME NEW out \in Endings, Decide(j, out)
        PROVE  Kept
    BY <2>2, <1>1, OutcomeFields DEF Decide, RunsTypeOK
  <2>3. ASSUME NEW c \in Checks, CreateCheckRun(j, c)
        PROVE  UNCHANGED status
    BY <2>3 DEF CreateCheckRun
  <2>4. CASE Open(j) \/ ReopenCheckRun(j) \/ ReopenFails(j) \/ SetJobCheckRun(j) \/ CompleteCheckRun(j)
             \/ CompleteFails(j) \/ Unwind(j) \/ Expire(j)
    BY <2>4 DEF Open, ReopenCheckRun, ReopenFails, SetJobCheckRun, CompleteCheckRun, CompleteFails,
                Unwind, Expire
  <2> QED
    BY <1>5, <2>1, <2>2, <2>3, <2>4 DEF Goroutine, Work, Local
<1>6. ASSUME NEW h \in Callers, Request(h) \/ Serve(h)
      PROVE  Kept
  <2>1. CASE Request(h)
    BY <2>1, <1>0 DEF Request, EnqueueJob, CancelJob
  <2>2. CASE Notify(h) \/ CancelRunning(h) \/ CancelNotRunning(h) \/ CancelRead(h)
    BY <2>2 DEF Notify, CancelRunning, CancelNotRunning, CancelRead
  <2>3. CASE CancelFinish(h)
    <3>1. target[h] \in Jobs
      BY <2>3 DEF CancelFinish, CallsTypeOK
    <3> QED
      BY <2>3, <3>1, <1>1, OurFaultFields DEF CancelFinish, Terminal
  <2> QED
    BY <1>6, <2>1, <2>2, <2>3 DEF Serve
<1>7. CASE UNCHANGED vars
  BY <1>7 DEF vars
<1> QED
  BY <1>3, <1>4, <1>5, <1>6, <1>7 DEF Next

\* The requests inside CancelJob.
LEMMA TargetsStep ==
    ASSUME Inv, [Next]_vars
    PROVE  TargetsExist'
<1> USE DEF Inv, TypeOK, CallsTypeOK, calls
<1>1. \A k \in Jobs : status[k] # "absent" => status'[k] # "absent"
  BY StatusStep
<1>2. CASE UNCHANGED calls
  BY <1>1, <1>2 DEF TargetsExist
<1>3. CASE Exit \/ Crash
  BY <1>3 DEF Exit, Crash, ProcessEnds, TargetsExist
<1>4. ASSUME NEW h \in Callers, Request(h) \/ Serve(h)
      PROVE  TargetsExist'
  <2> USE DEF TargetsExist, Return
  <2>1. ASSUME NEW j \in Jobs, EnqueueJob(h, j) \/ CancelJob(h, j)
        PROVE  TargetsExist'
    BY <2>1, <1>1 DEF EnqueueJob, CancelJob
  <2>2. CASE Notify(h) \/ CancelRunning(h) \/ CancelNotRunning(h)
    BY <2>2, <1>1 DEF Notify, CancelRunning, CancelNotRunning
  <2>3. CASE CancelRead(h) \/ CancelFinish(h)
    BY <2>3, <1>1 DEF CancelRead, CancelFinish
  <2> QED
    BY <1>4, <2>1, <2>2, <2>3 DEF Request, Serve
<1>5. ASSUME ~(Exit \/ Crash), ~(\E h \in Callers : Request(h) \/ Serve(h))
      PROVE  UNCHANGED calls
  BY <1>5 DEF Next, vars, Process, Launch, Requeue, Shutdown, Loop, DrainEnter, DrainLimit, Claim,
              ClaimNothing, StartJob, SelectDone, SelectNotify, SelectTick, Goroutine, Work, Local, Open,
              OpenFails, ReopenCheckRun, ReopenFails, CreateCheckRun, CreateFails, SetJobCheckRun, Decide,
              CompleteCheckRun, CompleteFails, Unwind, Expire
<1> QED
  BY <1>2, <1>3, <1>4, <1>5

LEMMA NextInv == Inv /\ [Next]_vars => Inv'
<1> SUFFICES ASSUME Inv, [Next]_vars PROVE Inv'
  OBVIOUS
<1>1. TypeOK'
  BY ProcessTypes, LoopTypes, GoroutineTypes, CallTypes, StutterTypes DEF Inv, Next
<1>2. Ownership'
  BY <1>1, OwnershipStep
<1> QED
  BY <1>1, <1>2, SlotsStep, RowsStep, ChecksStep, CheckIdsStep, TargetsStep DEF Inv

LEMMA InvAlways == Spec => []Inv
  BY InitInv, NextInv, PTL DEF Spec

-----------------------------------------------------------------------------
(* The safety properties of JobRunner.                                     *)

\* At most max_concurrent_jobs jobs are claimed or running, although the check
\* of Active() and the registration are separate critical sections.
THEOREM SlotsAreBounded == Spec => []BoundedConcurrency
<1>1. Inv => BoundedConcurrency
  <2> SUFFICES ASSUME Inv PROVE Cardinality(Owned) <= Limit
    BY DEF BoundedConcurrency
  <2>1. TypeOK /\ running = Executing /\ claimed \notin running
    BY DEF Inv, Ownership
  <2>2. CASE loop = "start"
    <3>1. Owned = running \cup {claimed}
      BY <2>1, <2>2 DEF Owned, TypeOK, LoopTypeOK
    <3>2. Cardinality(Owned) = Cardinality(running) + 1
      BY <2>1, <3>1, RunningIsFinite, FS_AddElement
    <3> QED
      BY <2>1, <2>2, <3>2, RunningIsFinite, LimitIsPositive DEF Inv, SlotsBound
  <2>3. CASE loop # "start"
    BY <2>1, <2>3 DEF Owned, Inv, SlotsBound, TypeOK, LoopTypeOK
  <2> QED
    BY <2>2, <2>3
<1> QED
  BY <1>1, InvAlways, PTL

\* A job a goroutine or drain holds is not up for a claim.
THEOREM HeldJobsAreNotQueued == Spec => []OwnedJobsAreNotQueued
<1>1. Inv => OwnedJobsAreNotQueued
  BY DEF Inv, Ownership
<1> QED
  BY <1>1, InvAlways, PTL

\* While no statement failed, a row in progress of a serving process is held.
THEOREM ClaimedRowsAreHeld == Spec => []ClaimedRowsAreOwned
<1>1. Inv => ClaimedRowsAreOwned
  BY DEF Inv
<1> QED
  BY <1>1, InvAlways, PTL

\* A step that leaves the loop asleep keeps it notified, or leaves it nothing to do.
LEMMA WakeUpStep ==
    ASSUME TypeOK, NoWakeUpIsLost, [Next]_vars, TypeOK'
    PROVE  NoWakeUpIsLost'
<1> SUFFICES ASSUME storeFaults' = 0, loop' = "select", ~shutdown', Queued' # {},
                    Cardinality(running') < Limit
             PROVE  notify' \/ \E h \in Callers : call'[h] = "notify"
  BY DEF NoWakeUpIsLost, Limit
<1>1. storeFaults = 0
  BY DEF TypeOK, BoundsTypeOK, Next, Process, Loop, Goroutine, Work, Local, Request, Serve, vars, faults,
         StoreFault, Launch, Requeue, Shutdown, Exit, Crash, ProcessEnds, DrainEnter, DrainLimit, Claim,
         ClaimNothing, StartJob, SelectDone, SelectNotify, SelectTick, Open, OpenFails, WriteEnd,
         ReopenCheckRun, ReopenFails, CreateCheckRun, CreateFails, SetJobCheckRun, Decide,
         CompleteCheckRun, CompleteFails, Unwind, Expire, EnqueueJob, CancelJob, Notify, CancelRunning,
         CancelNotRunning, CancelRead, CancelFinish
<1> DEFINE Kept == /\ Queued' \subseteq Queued
                   /\ running' = running
                   /\ UNCHANGED <<loop, shutdown, notify>>
                   /\ \A h \in Callers : call[h] = "notify" => call'[h] = "notify"
<1>2. CASE Kept
  BY <1>1, <1>2 DEF NoWakeUpIsLost
<1>3. CASE Process
  BY <1>3 DEF Process, Launch, Requeue, Shutdown, Exit, Crash, ProcessEnds
<1>4. CASE Loop
  <2>1. CASE DrainEnter \/ SelectDone \/ SelectNotify \/ SelectTick \/ StartJob
    BY <2>1 DEF DrainEnter, SelectDone, SelectNotify, SelectTick, StartJob, process
  <2>2. CASE DrainLimit
    <3>1. Cardinality(running) < Limit /\ Cardinality(running) \in Nat
      BY <2>2, RunningIsFinite DEF DrainLimit, process
    <3>2. ~(Cardinality(running) >= Limit)
      BY <3>1, LimitIsPositive
    <3> QED
      BY <1>1, <2>2, <3>2 DEF DrainLimit, StoreFault
  <2>3. ASSUME NEW j \in Jobs, Claim(j)
        PROVE  FALSE
    BY <2>3 DEF Claim
  <2>4. CASE ClaimNothing
    BY <1>1, <2>4 DEF ClaimNothing, StoreFault, Queued, rows
  <2> QED
    BY <1>4, <2>1, <2>2, <2>3, <2>4 DEF Loop
<1>5. ASSUME NEW j \in Jobs, Goroutine(j)
      PROVE  notify' \/ \E h \in Callers : call'[h] = "notify"
  <2> USE DEF rows, loopVars, process, calls, Kept
  <2>1. ASSUME NEW k \in Jobs, NEW out, WriteEnd(k, out), out.status \in Terminal
        PROVE  Queued' \subseteq Queued
    BY <2>1, TerminalIsNotInFlight DEF WriteEnd, Queued, TypeOK, RowsTypeOK
  <2>2. CASE Open(j) \/ ReopenCheckRun(j) \/ ReopenFails(j) \/ SetJobCheckRun(j) \/ CompleteCheckRun(j)
             \/ CompleteFails(j) \/ Expire(j)
    BY <1>2, <2>2 DEF Open, ReopenCheckRun, ReopenFails, SetJobCheckRun, CompleteCheckRun,
                      CompleteFails, Expire, Queued
  <2>3. ASSUME NEW c \in Checks, CreateCheckRun(j, c)
        PROVE  Kept
    BY <2>3 DEF CreateCheckRun, Queued
  <2>4. CASE OpenFails(j) \/ CreateFails(j)
    <3>1. Queued' \subseteq Queued
      BY <2>1, <2>4, OurFaultFields DEF OpenFails, CreateFails, Terminal
    <3> QED
      BY <1>2, <2>4, <3>1 DEF OpenFails, CreateFails
  <2>5. ASSUME NEW out \in Endings, Decide(j, out)
        PROVE  Kept
    <3>1. Queued' \subseteq Queued
      BY <2>1, <2>5, OutcomeFields DEF Decide, TypeOK, RunsTypeOK
    <3> QED
      BY <2>5, <3>1 DEF Decide
  <2>6. CASE Unwind(j)
    BY <2>6 DEF Unwind
  <2> QED
    BY <1>2, <1>5, <2>2, <2>3, <2>4, <2>5, <2>6 DEF Goroutine, Work, Local
<1>6. ASSUME NEW h \in Callers, Request(h) \/ Serve(h)
      PROVE  notify' \/ \E g \in Callers : call'[g] = "notify"
  <2> USE DEF rows, loopVars, process, Kept, TypeOK, CallsTypeOK
  <2>1. ASSUME NEW j \in Jobs, EnqueueJob(h, j)
        PROVE  call'[h] = "notify"
    BY <1>1, <2>1 DEF EnqueueJob, StoreFault
  <2>2. ASSUME NEW j \in Jobs, CancelJob(h, j)
        PROVE  Kept
    BY <2>2 DEF CancelJob, Queued
  <2>3. CASE Notify(h)
    BY <2>3 DEF Notify
  <2>4. CASE CancelRunning(h) \/ CancelNotRunning(h) \/ CancelRead(h)
    BY <1>2, <2>4 DEF CancelRunning, CancelNotRunning, CancelRead, Return, Queued
  <2>5. CASE CancelFinish(h)
    <3>1. target[h] \in Jobs
      BY <2>5 DEF CancelFinish
    <3>2. Queued' \subseteq Queued
      BY <2>5, <3>1, WriteEndRow, OurFaultFields, TerminalIsNotInFlight
         DEF CancelFinish, Terminal, Queued, RowsTypeOK
    <3> QED
      BY <1>2, <2>5, <3>2 DEF CancelFinish, Return
  <2> QED
    BY <1>2, <1>6, <2>1, <2>2, <2>3, <2>4, <2>5 DEF Request, Serve
<1>7. CASE UNCHANGED vars
  BY <1>2, <1>7 DEF vars, rows, loopVars, process, calls, Queued
<1> QED
  BY <1>3, <1>4, <1>5, <1>6, <1>7 DEF Next

\* The one-slot channel loses no wake-up, for any number of jobs, callers and
\* slots: an enqueue's Notify and a freed slot's reach a loop that sleeps.
THEOREM WakeUpsAreKept == Spec => []NoWakeUpIsLost
<1>1. Init => NoWakeUpIsLost
  BY DEF Init, NoWakeUpIsLost
<1>2. TypeOK /\ NoWakeUpIsLost /\ [Next]_vars /\ TypeOK' => NoWakeUpIsLost'
  BY WakeUpStep
<1> QED
  BY <1>1, <1>2, TypeCorrect, PTL DEF Spec

\* No row and no goroutine names another job's Check Run.
THEOREM ChecksAreNotMixedUp == Spec => []ChecksBelongToTheirJob
<1>1. Inv => ChecksBelongToTheirJob
  BY DEF Inv
<1> QED
  BY <1>1, InvAlways, PTL

\* A finished job is never put back in flight.
THEOREM FinishedForGood == Spec => FinishedJobsStayFinished
<1>1. Inv /\ [Next]_vars =>
        [\A j \in Jobs : status[j] \in Terminal => status'[j] \in Terminal]_vars
  BY StatusStep
<1> QED
  BY <1>1, InvAlways, PTL DEF Spec, FinishedJobsStayFinished

\* The statements that write check_run_id.
LEMMA CheckRunIDStep ==
    ASSUME Inv, [Next]_vars, NEW k \in Jobs, checkRunID[k] # NoCheck
    PROVE  checkRunID'[k] # NoCheck
<1> USE DEF Inv, TypeOK, RowsTypeOK, rows
<1>1. ASSUME NEW j \in Jobs, SetJobCheckRun(j)
      PROVE  checkRunID'[k] # NoCheck
  BY <1>1 DEF SetJobCheckRun, CheckIds
<1>2. ASSUME NEW j \in Jobs, Goroutine(j), ~SetJobCheckRun(j)
      PROVE  UNCHANGED checkRunID
  BY <1>2 DEF Goroutine, Work, Local, Open, OpenFails, ReopenCheckRun, ReopenFails, CreateCheckRun,
              CreateFails, Decide, CompleteCheckRun, CompleteFails, Unwind, Expire
<1>3. CASE Process \/ Loop \/ UNCHANGED vars
  BY <1>3 DEF Process, Launch, Requeue, Shutdown, Exit, Crash, ProcessEnds, Loop, DrainEnter, DrainLimit,
              Claim, ClaimNothing, StartJob, SelectDone, SelectNotify, SelectTick, vars
<1>4. ASSUME NEW h \in Callers, Request(h) \/ Serve(h)
      PROVE  UNCHANGED checkRunID
  BY <1>4 DEF Request, Serve, EnqueueJob, CancelJob, Notify, CancelRunning, CancelNotRunning, CancelRead,
              CancelFinish
<1> QED
  BY <1>1, <1>2, <1>3, <1>4 DEF Next

\* The Check Run id on record is never lost.
THEOREM CheckIdIsKept == Spec => CheckIdIsNeverForgotten
<1>1. Inv /\ [Next]_vars =>
        [\A j \in Jobs : checkRunID[j] # NoCheck => checkRunID'[j] # NoCheck]_vars
  BY CheckRunIDStep
<1> QED
  BY <1>1, InvAlways, PTL DEF Spec, CheckIdIsNeverForgotten

\* The steps that give an id of GitHub's an owner.
LEMMA NewCheckStep ==
    ASSUME Inv, [Next]_vars, NEW k \in Jobs, NEW d \in Checks, checkJob[d] # k, checkJob'[d] = k
    PROVE  checkRunID[k] = NoCheck \/ apiFaults > 0
<1> USE DEF Inv, TypeOK, GitHubTypeOK, github
<1>1. ASSUME NEW j \in Jobs, NEW c \in Checks, Created(c, j), pc[j] = "create", ctx[j] = "live"
      PROVE  checkRunID[k] = NoCheck \/ apiFaults > 0
  BY <1>1 DEF Created, CheckIds
<1>2. ASSUME NEW j \in Jobs, Goroutine(j)
      PROVE  checkRunID[k] = NoCheck \/ apiFaults > 0
  <2>1. ASSUME NEW c \in Checks, CreateCheckRun(j, c)
        PROVE  checkRunID[k] = NoCheck \/ apiFaults > 0
    BY <2>1, <1>1 DEF CreateCheckRun
  <2>2. CASE CreateFails(j)
    BY <2>2, <1>1 DEF CreateFails
  <2>3. CASE Open(j) \/ OpenFails(j) \/ SetJobCheckRun(j) \/ Unwind(j) \/ Expire(j)
             \/ \E out \in Endings : Decide(j, out)
    BY <2>3 DEF Open, OpenFails, SetJobCheckRun, Unwind, Expire, Decide
  <2>4. CASE ReopenCheckRun(j) \/ ReopenFails(j) \/ CompleteCheckRun(j) \/ CompleteFails(j)
    BY <2>4 DEF ReopenCheckRun, ReopenFails, Reopened, CompleteCheckRun, CompleteFails, Completed
  <2> QED
    BY <1>2, <2>1, <2>2, <2>3, <2>4 DEF Goroutine, Work, Local
<1>3. CASE Process \/ Loop \/ UNCHANGED vars
  BY <1>3 DEF Process, Launch, Requeue, Shutdown, Exit, Crash, ProcessEnds, Loop, DrainEnter, DrainLimit,
              Claim, ClaimNothing, StartJob, SelectDone, SelectNotify, SelectTick, vars
<1>4. ASSUME NEW h \in Callers, Request(h) \/ Serve(h)
      PROVE  UNCHANGED checkJob
  BY <1>4 DEF Request, Serve, EnqueueJob, CancelJob, Notify, CancelRunning, CancelNotRunning, CancelRead,
              CancelFinish
<1> QED
  BY <1>2, <1>3, <1>4 DEF Next

\* A requeued job goes back to the Check Run on record, whatever dies or is
\* cancelled in between, unless GitHub failed.
THEOREM CheckIsReused == Spec => RecordedCheckIsReused
<1>1. Inv /\ [Next]_vars =>
        [\A j \in Jobs, c \in Checks :
            checkJob[c] # j /\ checkJob'[c] = j => checkRunID[j] = NoCheck \/ apiFaults > 0]_vars
  BY NewCheckStep
<1> QED
  BY <1>1, InvAlways, PTL DEF Spec, RecordedCheckIsReused

-----------------------------------------------------------------------------
(* The pool.                                                               *)

\* What the refinement mapping reads in a state the runner reaches.
PhaseFacts ==
    \A j \in Jobs :
        /\ Phase[j] = "absent" <=> status[j] = "absent"
        /\ Phase[j] = "active" <=> j \in Owned
        /\ Phase[j] = "pending" <=> j \notin Owned /\ status[j] \in InFlight
        /\ Phase[j] = "done" <=> j \notin Owned /\ status[j] \in Terminal
        /\ Phase[j] \in {"absent", "active", "pending", "done"}

LEMMA PhaseValues == Inv => PhaseFacts
<1> SUFFICES ASSUME Inv, NEW j \in Jobs
             PROVE  /\ Phase[j] = "absent" <=> status[j] = "absent"
                    /\ Phase[j] = "active" <=> j \in Owned
                    /\ Phase[j] = "pending" <=> j \notin Owned /\ status[j] \in InFlight
                    /\ Phase[j] = "done" <=> j \notin Owned /\ status[j] \in Terminal
                    /\ Phase[j] \in {"absent", "active", "pending", "done"}
  BY DEF PhaseFacts
<1>1. status[j] \in {"absent"} \cup InFlight \cup Terminal
  BY DEF Inv, TypeOK, RowsTypeOK, JobStatuses
<1>2. j \in Owned => status[j] # "absent"
  BY DEF Inv, Ownership, OwnedJobsAreNotQueued
<1>3. /\ "absent" \notin InFlight /\ "absent" \notin Terminal
      /\ \A s \in InFlight : s \notin Terminal
  BY DEF InFlight, Terminal
<1>4. Phase[j] = CASE status[j] = "absent" -> "absent"
                   [] j \in Owned          -> "active"
                   [] j \notin Owned /\ status[j] \in InFlight -> "pending"
                   [] j \notin Owned /\ status[j] \in Terminal -> "done"
  BY DEF Phase
<1>5. CASE status[j] = "absent"
  BY <1>2, <1>3, <1>4, <1>5
<1>6. CASE j \in Owned
  BY <1>2, <1>4, <1>6
<1>7. CASE j \notin Owned /\ status[j] \in InFlight
  BY <1>3, <1>4, <1>7
<1>8. CASE j \notin Owned /\ status[j] \in Terminal
  BY <1>3, <1>4, <1>8
<1> QED
  BY <1>1, <1>5, <1>6, <1>7, <1>8

\* Phase is a function on Jobs: two of its values are equal when they agree.
LEMMA PhaseIsFunction ==
    /\ Phase = [j \in Jobs |-> Phase[j]]
    /\ Phase' = [j \in Jobs |-> Phase'[j]]
<1> DEFINE F(j) == CASE status[j] = "absent" -> "absent"
                     [] j \in Owned          -> "active"
                     [] j \notin Owned /\ status[j] \in InFlight -> "pending"
                     [] j \notin Owned /\ status[j] \in Terminal -> "done"
           G(j) == CASE status'[j] = "absent" -> "absent"
                     [] j \in Owned'          -> "active"
                     [] j \notin Owned' /\ status'[j] \in InFlight -> "pending"
                     [] j \notin Owned' /\ status'[j] \in Terminal -> "done"
<1>1. Phase = [j \in Jobs |-> F(j)] /\ Phase' = [j \in Jobs |-> G(j)]
  BY DEF Phase, InFlight, Terminal
<1> HIDE DEF F, G
<1> QED
  BY <1>1

\* A step that keeps Owned, and keeps each row that is not owned in its class,
\* is invisible to the pool.
LEMMA PhaseStutter ==
    ASSUME Inv, Inv', Owned' = Owned,
           \A j \in Jobs : j \notin Owned =>
              \/ status'[j] = status[j]
              \/ status[j] \in InFlight /\ status'[j] \in InFlight
              \/ status[j] \in Terminal /\ status'[j] \in Terminal
    PROVE  UNCHANGED Phase
<1>1. PhaseFacts /\ PhaseFacts'
  BY PhaseValues, PTL
<1>2. ASSUME NEW j \in Jobs
      PROVE  Phase'[j] = Phase[j]
  <2>1. CASE j \in Owned
    BY <1>1, <2>1 DEF PhaseFacts
  <2>2. CASE j \notin Owned
    BY <1>1, <2>2 DEF PhaseFacts
  <2> QED
    BY <2>1, <2>2
<1> QED
  BY <1>2, PhaseIsFunction

\* A step that changes the phase of one job.
LEMMA PhaseChange ==
    ASSUME Inv, Inv', NEW j \in Jobs,
           \A k \in Jobs : k # j => (k \in Owned <=> k \in Owned') /\ status'[k] = status[k]
    PROVE  Phase' = [Phase EXCEPT ![j] = Phase'[j]]
<1>1. PhaseFacts /\ PhaseFacts'
  BY PhaseValues, PTL
<1>2. ASSUME NEW k \in Jobs, k # j
      PROVE  Phase'[k] = Phase[k]
  BY <1>1, <1>2 DEF PhaseFacts
<1> QED
  BY <1>2, PhaseIsFunction

\* Every step of the runner is a step of the pool, or invisible to it.
LEMMA PoolStep ==
    ASSUME Inv, Inv', [Next]_vars
    PROVE  [Pool!Next]_Phase
<1>0. PhaseFacts /\ PhaseFacts'
  BY PhaseValues, PTL
<1> USE DEF rows, runs, loopVars, process, TypeOK, Goto
<1>t. TypeOK /\ TypeOK' /\ Ownership /\ Ownership'
  BY DEF Inv
<1>1. CASE Launch \/ Shutdown \/ UNCHANGED vars
  <2>1. Owned' = Owned /\ status' = status
    BY <1>1 DEF Launch, Shutdown, Owned, Executing, vars
  <2> QED
    BY <2>1, PhaseStutter
<1>2. CASE Requeue
  <2>1. Owned' = Owned
    BY <1>2 DEF Requeue, Owned, Executing
  <2>2. \A j \in Jobs : status'[j] = status[j] \/ (status[j] \in InFlight /\ status'[j] \in InFlight)
    BY <1>2 DEF Requeue, InFlight
  <2> QED
    BY <2>1, <2>2, PhaseStutter
<1>3. CASE Exit \/ Crash
  <2> DEFINE back == {j \in Owned : status[j] \in InFlight}
  <2>1. Owned' = {} /\ status' = status
    BY <1>3 DEF Exit, Crash, ProcessEnds, Owned, Executing
  <2>2. back \in SUBSET Pool!InPhase("active")
    BY <1>0, <1>t DEF PhaseFacts, Pool!InPhase, Owned, Executing, LoopTypeOK
  <2>3. ASSUME NEW j \in Jobs
        PROVE  Phase'[j] = CASE Phase[j] # "active" -> Phase[j]
                             [] j \in back         -> "pending"
                             [] OTHER              -> "done"
    <3>1. status[j] \in {"absent"} \cup InFlight \cup Terminal
      BY <1>t DEF RowsTypeOK, JobStatuses
    <3>2. CASE j \in Owned
      BY <1>0, <2>1, <3>1, <3>2 DEF PhaseFacts
    <3>3. CASE j \notin Owned
      BY <1>0, <2>1, <3>3 DEF PhaseFacts
    <3> QED
      BY <3>2, <3>3
  <2> HIDE DEF back
  <2>4. Phase' = [j \in Jobs |-> CASE Phase[j] # "active" -> Phase[j]
                                   [] j \in back         -> "pending"
                                   [] OTHER              -> "done"]
    BY <2>3, PhaseIsFunction
  <2>5. Pool!Interrupt
    BY <2>2, <2>4 DEF Pool!Interrupt
  <2> QED
    BY <2>5 DEF Pool!Next
<1>4. CASE DrainEnter \/ DrainLimit \/ ClaimNothing \/ SelectDone \/ SelectNotify \/ SelectTick
  <2>1. Owned' = Owned /\ status' = status
    BY <1>4 DEF DrainEnter, DrainLimit, ClaimNothing, SelectDone, SelectNotify, SelectTick, Owned, Executing
  <2> QED
    BY <2>1, PhaseStutter
<1>5. ASSUME NEW j \in Jobs, Claim(j)
      PROVE  Pool!Next
  <2>1. status[j] = "queued" /\ claimed = NoJob /\ j # NoJob /\ loop = "claim"
    BY <1>5, <1>t DEF Claim, Oldest, Queued, LoopTypeOK
  <2>2. Owned = Executing /\ Owned' = Executing \cup {j} /\ j \notin Owned
    BY <1>5, <1>t, <2>1 DEF Claim, Owned, Executing, Ownership, OwnedJobsAreNotQueued
  <2>3. status' = [status EXCEPT ![j] = "in_progress"]
    BY <1>5 DEF Claim
  <2>4. Phase' = [Phase EXCEPT ![j] = Phase'[j]]
    BY <1>t, <2>2, <2>3, PhaseChange DEF RowsTypeOK
  <2>5. Phase[j] = "pending" /\ Phase'[j] = "active"
    BY <1>0, <2>1, <2>2 DEF PhaseFacts, InFlight
  <2>6. Pool!InPhase("active") = running
    BY <1>0, <1>t, <2>2 DEF PhaseFacts, Pool!InPhase, Executing, Ownership
  <2>7. Pool!Cardinality(running) = Cardinality(running)
    BY Zenon DEF Pool!Cardinality, Cardinality
  <2>8. Pool!Start(j)
    BY <2>1, <2>4, <2>5, <2>6, <2>7 DEF Pool!Start, Inv, SlotsBound
  <2> QED
    BY <2>8 DEF Pool!Next
<1>6. CASE StartJob
  <2>1. Owned' = Owned /\ status' = status
    BY <1>6, <1>t DEF StartJob, Owned, Executing, LoopTypeOK, RunsTypeOK
  <2> QED
    BY <2>1, PhaseStutter
<1>7. ASSUME NEW j \in Jobs, Goroutine(j), ~Unwind(j)
      PROVE  UNCHANGED Phase
  <2>1. Owned' = Owned
    BY <1>7, <1>t DEF Owned, Executing, RunsTypeOK, Goroutine, Work, Local, Open, OpenFails, ReopenCheckRun,
                      ReopenFails, CreateCheckRun, CreateFails, SetJobCheckRun, Decide, CompleteCheckRun,
                      CompleteFails, Expire
  <2>2. j \in Owned
    BY <1>7 DEF Owned, Executing, Goroutine, Work, Local, Open, OpenFails, ReopenCheckRun, ReopenFails,
                CreateCheckRun, CreateFails, SetJobCheckRun, Decide, CompleteCheckRun, CompleteFails, Expire
  <2>3. \A k \in Jobs : k # j => status'[k] = status[k]
    BY <1>7, <1>t DEF RowsTypeOK, WriteEnd, Goroutine, Work, Local, Open, OpenFails, ReopenCheckRun,
                      ReopenFails, CreateCheckRun, CreateFails, SetJobCheckRun, Decide, CompleteCheckRun,
                      CompleteFails, Expire
  <2> QED
    BY <2>1, <2>2, <2>3, PhaseStutter
<1>8. ASSUME NEW j \in Jobs, Unwind(j)
      PROVE  Pool!Next
  <2>1. status' = status /\ j \in Owned /\ Owned' = Owned \ {j}
    BY <1>8, <1>t DEF Unwind, Owned, Executing, RunsTypeOK, Ownership
  <2>2. Phase' = [Phase EXCEPT ![j] = Phase'[j]]
    BY <2>1, PhaseChange
  <2>3. status[j] \in InFlight \cup Terminal
    BY <1>t, <2>1 DEF RowsTypeOK, JobStatuses, Ownership, OwnedJobsAreNotQueued
  <2>4. Phase[j] = "active" /\ Phase'[j] \in {"pending", "done"}
    BY <1>0, <2>1, <2>3 DEF PhaseFacts
  <2>5. Pool!Retire(j) \/ Pool!Lose(j)
    BY <2>2, <2>4 DEF Pool!Retire, Pool!Lose
  <2> QED
    BY <2>5 DEF Pool!Next
<1>9. ASSUME NEW h \in Callers, NEW j \in Jobs, EnqueueJob(h, j)
      PROVE  Pool!Next
  <2>1. status[j] = "absent" /\ status' = [status EXCEPT ![j] = "queued"] /\ Owned' = Owned
    BY <1>9 DEF EnqueueJob, Owned, Executing
  <2>2. Phase' = [Phase EXCEPT ![j] = Phase'[j]]
    BY <1>t, <2>1, PhaseChange DEF RowsTypeOK
  <2>3. status'[j] = "queued" /\ j \notin Owned
    BY <1>t, <2>1 DEF RowsTypeOK, Ownership, OwnedJobsAreNotQueued
  <2>4. Phase[j] = "absent" /\ Phase'[j] = "pending"
    BY <1>0, <2>1, <2>3 DEF PhaseFacts, InFlight
  <2>5. Pool!Submit(j)
    BY <2>2, <2>4 DEF Pool!Submit
  <2> QED
    BY <2>5 DEF Pool!Next
<1>10. ASSUME NEW h \in Callers,
              (\E j \in Jobs : CancelJob(h, j)) \/ Notify(h) \/ CancelRunning(h) \/ CancelNotRunning(h)
                 \/ CancelRead(h)
       PROVE  UNCHANGED Phase
  <2>1. Owned' = Owned /\ status' = status
    BY <1>10 DEF CancelJob, Notify, CancelRunning, CancelNotRunning, CancelRead, Owned, Executing
  <2> QED
    BY <2>1, PhaseStutter
<1>11. ASSUME NEW h \in Callers, CancelFinish(h)
       PROVE  [Pool!Next]_Phase
  <2> DEFINE j == target[h]
  <2>1. j \in Jobs /\ status[j] # "absent"
    BY <1>11, <1>t DEF CancelFinish, CallsTypeOK, Inv, TargetsExist
  <2>2. Owned' = Owned
    BY <1>11 DEF CancelFinish, Owned, Executing
  <2>3. /\ \A k \in Jobs : k # j => status'[k] = status[k]
        /\ status'[j] \in Terminal \/ status'[j] = status[j]
    BY <1>11, <1>t, <2>1, WriteEndRow, OurFaultFields DEF CancelFinish, Terminal
  <2> HIDE DEF j
  <2>4. CASE j \notin Owned /\ status[j] \in InFlight /\ status'[j] \in Terminal
    <3>1. Phase' = [Phase EXCEPT ![j] = Phase'[j]]
      BY <2>1, <2>2, <2>3, PhaseChange
    <3>2. Phase[j] = "pending" /\ Phase'[j] = "done"
      BY <1>0, <2>1, <2>2, <2>4 DEF PhaseFacts
    <3>3. Pool!Withdraw(j)
      BY <3>1, <3>2 DEF Pool!Withdraw
    <3> QED
      BY <2>1, <3>3 DEF Pool!Next
  <2>5. CASE j \in Owned \/ status[j] \in Terminal \/ status'[j] = status[j]
    BY <2>1, <2>2, <2>3, <2>5, PhaseStutter
  <2>6. status[j] \in InFlight \cup Terminal
    BY <1>t, <2>1 DEF RowsTypeOK, JobStatuses
  <2> QED
    BY <2>3, <2>4, <2>5, <2>6
<1> QED
  BY <1>1, <1>2, <1>3, <1>4, <1>5, <1>6, <1>7, <1>8, <1>9, <1>10, <1>11
  DEF Next, Process, Loop, Request, Serve

\* The runner is a pool of at most Limit active jobs: a job starts only when
\* there is room and never again once it is done.
THEOREM RunnerImplementsPool == Spec => ImplementsPool
<1>1. Init => Pool!Init
  <2> SUFFICES ASSUME Init PROVE Pool!Init
    OBVIOUS
  <2>1. PhaseFacts
    BY InitInv, PhaseValues
  <2>2. \A j \in Jobs : Phase[j] = "absent"
    BY <2>1 DEF PhaseFacts, Init
  <2> QED
    BY <2>2, PhaseIsFunction DEF Pool!Init
<1>2. Inv /\ Inv' /\ [Next]_vars => [Pool!Next]_Phase
  BY PoolStep
<1> QED
  BY <1>1, <1>2, InvAlways, PTL DEF Spec, ImplementsPool, Pool!Spec

-----------------------------------------------------------------------------
(* The view of the request handlers.                                       *)

Signalled == [j \in Jobs |-> ctx[j] # "live"]

OwnerFacts ==
    \A j \in Jobs :
        /\ Owner[j] = "none" <=> pc[j] = "none" /\ j # claimed
        /\ Owner[j] = "claimed" <=> pc[j] = "none" /\ j = claimed
        /\ Owner[j] = "running" <=> pc[j] \in {"open", "reopen", "create", "record", "body"}
        /\ Owner[j] = "ending" <=> pc[j] \in {"complete", "unwind"}
        /\ Owner[j] \in {"none", "claimed", "running", "ending"}

LEMMA OwnerValues == TypeOK => OwnerFacts
<1> SUFFICES ASSUME TypeOK, NEW j \in Jobs
             PROVE  /\ Owner[j] = "none" <=> pc[j] = "none" /\ j # claimed
                    /\ Owner[j] = "claimed" <=> pc[j] = "none" /\ j = claimed
                    /\ Owner[j] = "running" <=> pc[j] \in {"open", "reopen", "create", "record", "body"}
                    /\ Owner[j] = "ending" <=> pc[j] \in {"complete", "unwind"}
                    /\ Owner[j] \in {"none", "claimed", "running", "ending"}
  BY DEF OwnerFacts
<1>1. pc[j] \in PCs
  BY DEF TypeOK, RunsTypeOK
<1>2. Owner[j] = CASE pc[j] \in {"complete", "unwind"}                -> "ending"
                   [] pc[j] \in PCs \ {"none", "complete", "unwind"} -> "running"
                   [] pc[j] = "none" /\ j = claimed                  -> "claimed"
                   [] pc[j] = "none" /\ j # claimed                  -> "none"
  BY DEF Owner
<1>3. CASE pc[j] \in {"complete", "unwind"}
  BY <1>2, <1>3 DEF PCs
<1>4. CASE pc[j] \in PCs \ {"none", "complete", "unwind"}
  BY <1>2, <1>4 DEF PCs
<1>5. CASE pc[j] = "none"
  BY <1>2, <1>5 DEF PCs
<1> QED
  BY <1>1, <1>3, <1>4, <1>5

LEMMA OwnerIsFunction ==
    /\ Owner = [j \in Jobs |-> Owner[j]]
    /\ Owner' = [j \in Jobs |-> Owner'[j]]
<1> DEFINE F(j) == CASE pc[j] \in {"complete", "unwind"}                -> "ending"
                     [] pc[j] \in PCs \ {"none", "complete", "unwind"} -> "running"
                     [] pc[j] = "none" /\ j = claimed                  -> "claimed"
                     [] pc[j] = "none" /\ j # claimed                  -> "none"
           G(j) == CASE pc'[j] \in {"complete", "unwind"}                -> "ending"
                     [] pc'[j] \in PCs \ {"none", "complete", "unwind"} -> "running"
                     [] pc'[j] = "none" /\ j = claimed'                 -> "claimed"
                     [] pc'[j] = "none" /\ j # claimed'                 -> "none"
<1>1. Owner = [j \in Jobs |-> F(j)] /\ Owner' = [j \in Jobs |-> G(j)]
  BY DEF Owner, PCs
<1> HIDE DEF F, G
<1> QED
  BY <1>1

\* A step between two stages of the same class is invisible.
LEMMA OwnerStutter ==
    ASSUME TypeOK, TypeOK',
           \A j \in Jobs : (pc'[j] = pc[j] /\ (pc[j] = "none" => (j = claimed <=> j = claimed')))
                \/ {pc[j], pc'[j]} \subseteq {"open", "reopen", "create", "record", "body"}
                \/ {pc[j], pc'[j]} \subseteq {"complete", "unwind"}
    PROVE  UNCHANGED Owner
<1>1. OwnerFacts /\ OwnerFacts'
  BY OwnerValues, PTL
<1>2. ASSUME NEW j \in Jobs
      PROVE  Owner'[j] = Owner[j]
  BY <1>1 DEF OwnerFacts
<1> QED
  BY <1>2, OwnerIsFunction

\* A step that moves one job between classes.
LEMMA OwnerChange ==
    ASSUME TypeOK, TypeOK', NEW j \in Jobs,
           \A k \in Jobs : k # j => pc'[k] = pc[k] /\ (pc[k] = "none" => (k = claimed <=> k = claimed'))
    PROVE  Owner' = [Owner EXCEPT ![j] = Owner'[j]]
<1>1. OwnerFacts /\ OwnerFacts'
  BY OwnerValues, PTL
<1>2. ASSUME NEW k \in Jobs, k # j
      PROVE  Owner'[k] = Owner[k]
  BY <1>1, <1>2 DEF OwnerFacts
<1> QED
  BY <1>2, OwnerIsFunction

\* Every step of the runner is a step the handlers know of, or invisible to
\* them: RequeueStaleJobs that fails, for one.
LEMMA TableStep ==
    ASSUME Inv, Inv', [Next]_vars
    PROVE  [Table!TableNext]_<<status, Owner, Signalled>>
<1> USE DEF rows, runs, loopVars, process, Goto
<1>t. TypeOK /\ TypeOK' /\ Ownership /\ Ownership' /\ SlotsBound
  BY DEF Inv
<1>f. OwnerFacts /\ OwnerFacts'
  BY <1>t, OwnerValues, PTL
<1> USE DEF TypeOK
<1>1. CASE \/ Launch \/ UNCHANGED vars
           \/ DrainEnter \/ DrainLimit \/ ClaimNothing \/ SelectDone \/ SelectNotify \/ SelectTick
  <2>1. status' = status /\ pc' = pc /\ claimed' = claimed /\ ctx' = ctx
    BY <1>1 DEF Launch, vars, DrainEnter, DrainLimit, ClaimNothing, SelectDone, SelectNotify, SelectTick
  <2> QED
    BY <1>t, <2>1, OwnerStutter DEF Signalled
<1>2. CASE Requeue
  <2>1. pc' = pc /\ claimed' = claimed /\ ctx' = ctx
    BY <1>2 DEF Requeue
  <2>2. UNCHANGED <<Owner, Signalled>>
    BY <1>t, <2>1, OwnerStutter DEF Signalled
  <2>3. \A j \in Jobs : Owner[j] = "none"
    BY <1>2, <1>t, <1>f DEF Requeue, OwnerFacts, Ownership, Executing, LoopTypeOK
  <2>4. CASE UNCHANGED status
    BY <2>2, <2>4
  <2>5. CASE status' = [j \in Jobs |-> IF status[j] = "in_progress" THEN "queued" ELSE status[j]]
    BY <2>2, <2>3, <2>5 DEF Table!TableNext, Table!RequeueStale, Signalled
  <2> QED
    BY <1>2, <2>4, <2>5 DEF Requeue
<1>3. CASE Shutdown
  <2>1. /\ status' = status /\ pc' = pc /\ claimed' = claimed
        /\ ctx' = [j \in Jobs |-> IF pc[j] # "none" /\ ctx[j] = "live" THEN "cancelled" ELSE ctx[j]]
    BY <1>3 DEF Shutdown
  <2>2. UNCHANGED Owner
    BY <1>t, <2>1, OwnerStutter
  <2>6. PICK S \in SUBSET Jobs : S = {j \in Jobs : pc[j] # "none"}
    OBVIOUS
  <2>3. S \subseteq Table!Registered
    BY <1>t, <1>f, <2>6 DEF Table!Registered, OwnerFacts, RunsTypeOK, PCs
  <2>4. Signalled' = [j \in Jobs |-> Signalled[j] \/ j \in S]
    BY <2>1, <2>6 DEF Signalled
  <2>5. Table!Signal(S)
    BY <2>1, <2>2, <2>3, <2>4 DEF Table!Signal, Signalled
  <2> QED
    BY <2>5, <2>6 DEF Table!TableNext
<1>4. CASE Exit \/ Crash
  <2>1. /\ status' = status /\ claimed' = NoJob
        /\ pc' = [j \in Jobs |-> "none"] /\ ctx' = [j \in Jobs |-> "live"]
    BY <1>4 DEF Exit, Crash, ProcessEnds
  <2>2. \A j \in Jobs : Owner'[j] = "none"
    BY <1>f, <2>1 DEF OwnerFacts
  <2>3. Owner' = [j \in Jobs |-> "none"]
    BY <2>2, OwnerIsFunction
  <2> QED
    BY <2>1, <2>3 DEF Table!TableNext, Table!Die, Signalled
<1>5. ASSUME NEW j \in Jobs, Claim(j)
      PROVE  Table!TableNext
  <2>1. /\ status[j] = "queued" /\ claimed = NoJob /\ claimed' = j
        /\ status' = [status EXCEPT ![j] = "in_progress"]
        /\ pc' = pc /\ ctx' = ctx
    BY <1>5, <1>t DEF Claim, Oldest, Queued, LoopTypeOK
  <2>2. Owner' = [Owner EXCEPT ![j] = Owner'[j]]
    BY <1>t, <2>1, OwnerChange
  <2>3. Owner'[j] = "claimed"
    BY <1>t, <1>f, <2>1 DEF OwnerFacts, Ownership, Executing
  <2>5. \A k \in Jobs : Owner[k] # "claimed"
    BY <1>t, <1>f, <2>1 DEF OwnerFacts, LoopTypeOK
  <2>4. Table!ClaimNext(j)
    BY <2>1, <2>2, <2>3, <2>5 DEF Table!ClaimNext, Signalled
  <2> QED
    BY <2>4 DEF Table!TableNext, Table!RunnerStep
<1>6. CASE StartJob
  <2>0. PICK j \in Jobs, dead \in BOOLEAN : j = claimed /\ dead = shutdown
    BY <1>6, <1>t DEF StartJob, LoopTypeOK
  <2>1. /\ claimed = j /\ pc[j] = "none" /\ claimed' = NoJob /\ status' = status
        /\ pc' = [pc EXCEPT ![j] = "open"]
        /\ ctx' = [ctx EXCEPT ![j] = IF dead THEN "cancelled" ELSE "live"]
    BY <1>6, <1>t, <2>0 DEF StartJob, LoopTypeOK, Ownership, Executing, RunsTypeOK, PCs
  <2>2. \A k \in Jobs : k # j => pc'[k] = pc[k] /\ (pc[k] = "none" => (k = claimed <=> k = claimed'))
    BY <1>t, <2>1 DEF RunsTypeOK
  <2>3. Owner[j] = "claimed" /\ Owner'[j] = "running"
    BY <1>t, <1>f, <2>1 DEF OwnerFacts, RunsTypeOK
  <2>4. Owner' = [Owner EXCEPT ![j] = "running"]
    BY <1>t, <2>1, <2>2, <2>3, OwnerChange
  <2>6. Signalled' = [Signalled EXCEPT ![j] = dead]
    BY <1>t, <2>1 DEF Signalled, RunsTypeOK
  <2>7. Table!Register(j)
    BY <2>1, <2>3, <2>4, <2>6 DEF Table!Register, Signalled
  <2> QED
    BY <2>1, <2>7 DEF Table!TableNext, Table!RunnerStep

<1>7. ASSUME NEW j \in Jobs, Unwind(j)
      PROVE  Table!TableNext
  <2>1. /\ pc[j] = "unwind" /\ status' = status /\ claimed' = claimed
        /\ pc' = [pc EXCEPT ![j] = "none"] /\ ctx' = [ctx EXCEPT ![j] = "live"]
    BY <1>7 DEF Unwind
  <2>2. Owner' = [Owner EXCEPT ![j] = Owner'[j]]
    BY <1>t, <2>1, OwnerChange DEF RunsTypeOK
  <2>3. Owner[j] = "ending" /\ Owner'[j] = "none"
    BY <1>t, <1>f, <2>1 DEF OwnerFacts, RunsTypeOK, Ownership, Executing
  <2>4. Signalled' = [Signalled EXCEPT ![j] = FALSE]
    BY <1>t, <2>1 DEF Signalled, RunsTypeOK
  <2>5. Table!Leave(j)
    BY <2>1, <2>2, <2>3, <2>4 DEF Table!Leave, Signalled
  <2> QED
    BY <2>5 DEF Table!TableNext, Table!RunnerStep
<1>8. ASSUME NEW j \in Jobs,
             \/ Open(j) \/ SetJobCheckRun(j)
             \/ ReopenCheckRun(j) \/ ReopenFails(j) \/ (\E c \in Checks : CreateCheckRun(j, c))
             \/ CompleteCheckRun(j) \/ CompleteFails(j)
      PROVE  UNCHANGED <<status, Owner, Signalled>>
  <2>1. status' = status /\ claimed' = claimed /\ ctx' = ctx
    BY <1>8 DEF Open, SetJobCheckRun, ReopenCheckRun, ReopenFails, CreateCheckRun, CompleteCheckRun,
                CompleteFails
  <2>2. \E p \in PCs :
           /\ pc' = [pc EXCEPT ![j] = p]
           /\ \/ {pc[j], p} \subseteq {"open", "reopen", "create", "record", "body"}
              \/ {pc[j], p} \subseteq {"complete", "unwind"}
    BY <1>8 DEF Open, SetJobCheckRun, ReopenCheckRun, ReopenFails, CreateCheckRun, CompleteCheckRun,
                CompleteFails, PCs
  <2>3. UNCHANGED Owner
    BY <1>t, <2>1, <2>2, OwnerStutter DEF RunsTypeOK
  <2> QED
    BY <2>1, <2>3 DEF Signalled
<1>9. ASSUME NEW j \in Jobs, NEW q \in {"complete", "unwind"}, NEW out,
             out.status \in Terminal, out.status = "success" => ctx[j] = "live",
             pc[j] \in {"open", "create", "body"}, WriteEnd(j, out),
             pc' = [pc EXCEPT ![j] = q], UNCHANGED <<claimed, ctx>>
      PROVE  Table!TableNext
  <2>1. Owner' = [Owner EXCEPT ![j] = Owner'[j]]
    BY <1>t, <1>9, OwnerChange DEF RunsTypeOK
  <2>2. Owner[j] = "running" /\ Owner'[j] = "ending"
    BY <1>t, <1>f, <1>9 DEF OwnerFacts, RunsTypeOK
  <2>3. UNCHANGED Signalled
    BY <1>9 DEF Signalled
  <2>4. CASE status' = [status EXCEPT ![j] = out.status]
    <3>1. Table!End(j)
      BY <1>9, <2>1, <2>2, <2>3, <2>4 DEF Table!End, Signalled
    <3> QED
      BY <3>1 DEF Table!TableNext, Table!RunnerStep
  <2>5. CASE UNCHANGED status
    <3>1. Table!EndUnwritten(j)
      BY <2>1, <2>2, <2>3, <2>5 DEF Table!EndUnwritten, Signalled
    <3> QED
      BY <3>1 DEF Table!TableNext
  <2> QED
    BY <1>9, <2>4, <2>5 DEF WriteEnd
<1>10. ASSUME NEW j \in Jobs, OpenFails(j) \/ CreateFails(j)
       PROVE  Table!TableNext
  <2>1. OurFault.status \in Terminal /\ OurFault.status # "success"
    BY OurFaultFields DEF Terminal
  <2> QED
    BY <1>9, <1>10, <2>1 DEF OpenFails, CreateFails
<1>11. ASSUME NEW j \in Jobs, NEW out \in Endings, Decide(j, out)
       PROVE  Table!TableNext
  <2>1. ctx[j] \in CtxStates /\ out \in Outcomes(ctx[j])
    BY <1>t, <1>11 DEF Decide, RunsTypeOK
  <2>2. out.status \in Terminal
    BY <2>1, OutcomeFields
  <2>3. out.status = "success" => ctx[j] = "live"
    BY <2>1 DEF Outcomes, CtxBlind, Outcome, CtxStates
  <2> QED
    BY <1>9, <1>11, <2>2, <2>3 DEF Decide
<1>12. ASSUME NEW j \in Jobs, Expire(j)
       PROVE  Table!TableNext
  <2>1. /\ pc[j] # "none" /\ pc' = pc /\ claimed' = claimed /\ status' = status
        /\ ctx' = [ctx EXCEPT ![j] = "deadline"]
    BY <1>12 DEF Expire
  <2>2. UNCHANGED Owner
    BY <1>t, <2>1, OwnerStutter
  <2>3. {j} \subseteq Table!Registered
    BY <1>t, <1>f, <2>1 DEF Table!Registered, OwnerFacts, RunsTypeOK, PCs
  <2>4. Signalled' = [k \in Jobs |-> Signalled[k] \/ k \in {j}]
    BY <1>t, <2>1 DEF Signalled, RunsTypeOK
  <2>5. Table!Signal({j})
    BY <2>1, <2>2, <2>3, <2>4 DEF Table!Signal, Signalled
  <2> QED
    BY <2>5 DEF Table!TableNext
<1>13. ASSUME NEW h \in Callers, NEW j \in Jobs, EnqueueJob(h, j)
       PROVE  Table!TableNext
  <2>1. /\ status[j] = "absent" /\ status' = [status EXCEPT ![j] = "queued"]
        /\ pc' = pc /\ claimed' = claimed /\ ctx' = ctx
    BY <1>13 DEF EnqueueJob
  <2>2. UNCHANGED <<Owner, Signalled>>
    BY <1>t, <2>1, OwnerStutter DEF Signalled
  <2>3. Table!Enqueue(j)
    BY <2>1, <2>2 DEF Table!Enqueue, Signalled
  <2> QED
    BY <2>3 DEF Table!TableNext
<1>14. ASSUME NEW h \in Callers,
              (\E j \in Jobs : CancelJob(h, j)) \/ Notify(h) \/ CancelNotRunning(h) \/ CancelRead(h)
       PROVE  UNCHANGED <<status, Owner, Signalled>>
  <2>1. status' = status /\ pc' = pc /\ claimed' = claimed /\ ctx' = ctx
    BY <1>14 DEF CancelJob, Notify, CancelNotRunning, CancelRead
  <2> QED
    BY <1>t, <2>1, OwnerStutter DEF Signalled
<1>15. ASSUME NEW h \in Callers, CancelRunning(h)
       PROVE  Table!TableNext
  <2>0. PICK j \in Jobs : j = target[h]
    BY <1>15, <1>t DEF CancelRunning, CallsTypeOK
  <2>1. /\ j \in running /\ pc' = pc /\ claimed' = claimed /\ status' = status
        /\ ctx' = [ctx EXCEPT ![j] = IF ctx[j] = "live" THEN "cancelled" ELSE ctx[j]]
    BY <1>15, <2>0 DEF CancelRunning
  <2>2. UNCHANGED Owner
    BY <1>t, <2>1, OwnerStutter
  <2>3. pc[j] # "none"
    BY <1>t, <2>1 DEF Ownership, Executing, RunsTypeOK
  <2>4. {j} \subseteq Table!Registered
    BY <1>t, <1>f, <2>3 DEF Table!Registered, OwnerFacts, RunsTypeOK, PCs
  <2>5. Signalled' = [k \in Jobs |-> Signalled[k] \/ k \in {j}]
    BY <1>t, <2>1, <2>3 DEF Signalled, RunsTypeOK
  <2>6. Table!Signal({j})
    BY <2>1, <2>2, <2>4, <2>5 DEF Table!Signal, Signalled
  <2> QED
    BY <2>3, <2>6 DEF Table!TableNext
<1>16. ASSUME NEW h \in Callers, CancelFinish(h)
       PROVE  [Table!TableNext]_<<status, Owner, Signalled>>
  <2>0. PICK j \in Jobs : j = target[h]
    BY <1>16, <1>t DEF CancelFinish, CallsTypeOK
  <2>1. status[j] # "absent"
    BY <1>16, <2>0 DEF CancelFinish, Inv, TargetsExist
  <2>2. /\ pc' = pc /\ claimed' = claimed /\ ctx' = ctx
        /\ status' = [status EXCEPT ![j] = "cancelled"] \/ UNCHANGED status
    BY <1>16, <2>0, OurFaultFields DEF CancelFinish, WriteEnd
  <2>3. UNCHANGED <<Owner, Signalled>>
    BY <1>t, <2>2, OwnerStutter DEF Signalled
  <2>4. CASE UNCHANGED status
    BY <2>3, <2>4
  <2>5. CASE status' = [status EXCEPT ![j] = "cancelled"]
    <3>1. Table!MarkCancelled(j)
      BY <2>1, <2>3, <2>5 DEF Table!MarkCancelled, Signalled
    <3> QED
      BY <2>1, <3>1 DEF Table!TableNext
  <2> QED
    BY <2>2, <2>4, <2>5
<1> QED
  BY <1>1, <1>2, <1>3, <1>4, <1>5, <1>6, <1>7, <1>8, <1>10, <1>11, <1>12, <1>13, <1>14, <1>15, <1>16
  DEF Next, Process, Loop, Goroutine, Work, Local, Request, Serve

\* The runner does to the rows and the contexts only what the handlers reckon
\* with: a job that was told to stop does not succeed, a row ends only through
\* its goroutine or CancelJob, and RequeueStaleJobs runs when nobody owns a job.
THEOREM RunnerImplementsTable == Spec => ImplementsTable
<1>1. Init => Table!TableInit
  <2> SUFFICES ASSUME Init PROVE Table!TableInit
    OBVIOUS
  <2>1. OwnerFacts
    BY InitInv, OwnerValues DEF Inv
  <2>2. \A j \in Jobs : Owner[j] = "none"
    BY <2>1 DEF OwnerFacts, Init
  <2> QED
    BY <2>2, OwnerIsFunction DEF Table!TableInit, Init
<1>2. Inv /\ Inv' /\ [Next]_vars => [Table!TableNext]_(Table!tableVars)
  BY TableStep DEF Table!tableVars, Signalled
<1> QED
  BY <1>1, <1>2, InvAlways, PTL DEF Spec, ImplementsTable, Table!TableSpec
============================================================================
