----------------------------- MODULE JobRunner -----------------------------
(***************************************************************************)
(* The data plane: the jobs table (store/jobs.go), the claim loop and the  *)
(* job goroutines of queue.Runner (queue/runner.go), the process that      *)
(* holds them (cmd/server/main.go) and the Check Runs they publish at      *)
(* GitHub.                                                                 *)
(*                                                                         *)
(* A step is one SQL statement (the store has one connection), one         *)
(* critical section under Runner.mu, or one call to GitHub.  What happens  *)
(* inside one execution of runJob, between the Check Run that opens it and *)
(* the row that ends it, is one step here (Decide); JobRun details it.     *)
(***************************************************************************)
EXTENDS Integers, FiniteSets, JobData

CONSTANTS
    Jobs,               \* job ids (store.NewJobID)
    Callers,            \* HTTP request goroutines
    NoJob,
    MaxConcurrentJobs,  \* settings.max_concurrent_jobs
    Endings,            \* bound: the endings of runJob that are told apart
    MaxChecks,          \* bound: Check Runs GitHub may hold
    MaxBoots,           \* bound: how often the process starts; the last one stays up
    MaxApiFaults,       \* bound: failed or lost calls to GitHub on a live context
    MaxStoreFaults      \* bound: SQL statements that fail

ASSUME NoJobAssumption == NoJob \notin Jobs
ASSUME JobsAssumption == IsFiniteSet(Jobs)
ASSUME BoundsAssumption ==
    /\ MaxConcurrentJobs \in Int
    /\ \A c \in CtxStates : Endings \cap Outcomes(c) # {}
    /\ {MaxChecks, MaxBoots, MaxApiFaults, MaxStoreFaults} \subseteq Nat

VARIABLES
    \* the jobs table
    status,       \* "absent" before the row is inserted
    conclusion,
    checkRunID,
    createdAt,    \* the second of created_at: within one second the text order
                  \* of the column is arbitrary (see Timestamps)
    \* queue.Runner
    running,      \* the keys of Runner.running
    pc,           \* where each job goroutine is in runJob
    ctx,          \* the context of each job goroutine
    runCheck,     \* the local checkRunID of runJob
    verdict,      \* the conclusion runJob is about to send
    loop,         \* where Runner.Start is; "down" while there is no process
    claimed,      \* the job drain holds between the claim and startJob
    notify,       \* the one-slot channel
    shutdown,     \* the process context is cancelled
    \* HTTP requests inside CancelJob or between EnqueueJob and Notify
    call,
    target,
    \* GitHub
    checkJob,
    checkState,
    checkConclusion,
    \* bounds
    second, boots, apiFaults, storeFaults

rows == <<status, conclusion, checkRunID, createdAt, second>>
runs == <<pc, runCheck, verdict>>
loopVars == <<loop, claimed>>
process == <<running, ctx, notify, shutdown, boots>>
calls == <<call, target>>
github == <<checkJob, checkState, checkConclusion>>
faults == <<apiFaults, storeFaults>>
vars == <<rows, runs, loopVars, process, calls, github, faults>>

\* GitHub's ids are positive: check_run_id 0 is "none yet".
Checks == 1..MaxChecks
NoCheck == 0

PCs == {"none", "open", "reopen", "create", "record", "body", "complete", "unwind"}
LoopPCs == {"down", "boot", "drain", "limit", "claim", "start", "select", "wait"}
CallPCs == {"idle", "notify", "lookup", "read", "finish"}

Limit == IF MaxConcurrentJobs < 1 THEN 1 ELSE MaxConcurrentJobs

\* The jobs with a live goroutine.
Executing == {j \in Jobs : pc[j] # "none"}

\* The jobs this process is answerable for.
Owned == Executing \cup ({claimed} \ {NoJob})

Up == loop # "down"

\* httpSrv.Shutdown closes the listener; requests inside go on.
Accepting == Up /\ ~shutdown

-----------------------------------------------------------------------------
Init ==
    /\ status = [j \in Jobs |-> "absent"]
    /\ conclusion = [j \in Jobs |-> NoConclusion]
    /\ checkRunID = [j \in Jobs |-> NoCheck]
    /\ createdAt = [j \in Jobs |-> 0]
    /\ running = {}
    /\ pc = [j \in Jobs |-> "none"]
    /\ ctx = [j \in Jobs |-> "live"]
    /\ runCheck = [j \in Jobs |-> NoCheck]
    /\ verdict = [j \in Jobs |-> NoConclusion]
    /\ loop = "down"
    /\ claimed = NoJob
    /\ notify = FALSE
    /\ shutdown = FALSE
    /\ call = [h \in Callers |-> "idle"]
    /\ target = [h \in Callers |-> NoJob]
    /\ checkJob = [c \in Checks |-> NoJob]
    /\ checkState = [c \in Checks |-> "absent"]
    /\ checkConclusion = [c \in Checks |-> NoConclusion]
    /\ second = 0
    /\ boots = 0
    /\ apiFaults = 0
    /\ storeFaults = 0

StoreFault ==
    /\ storeFaults < MaxStoreFaults
    /\ storeFaults' = storeFaults + 1

ApiFault ==
    /\ apiFaults < MaxApiFaults
    /\ apiFaults' = apiFaults + 1

-----------------------------------------------------------------------------
(* The process: main.run, and the runner's first act in it.                *)

Launch ==
    /\ loop = "down"
    /\ boots < MaxBoots
    /\ boots' = boots + 1
    /\ loop' = "boot"
    /\ UNCHANGED <<rows, runs, claimed, running, ctx, notify, shutdown, calls, github, faults>>

\* store.RequeueStaleJobs: check_run_id and created_at stay.
Requeue ==
    /\ loop = "boot"
    /\ loop' = "drain"
    /\ \/ /\ status' = [j \in Jobs |->
                            IF status[j] = "in_progress" THEN "queued" ELSE status[j]]
          /\ UNCHANGED storeFaults
       \/ StoreFault /\ UNCHANGED status
    /\ UNCHANGED <<conclusion, checkRunID, createdAt, second, runs, claimed, process,
                   calls, github, apiFaults>>

\* SIGTERM: every job context is a child of the process context.
Shutdown ==
    /\ Up
    /\ boots < MaxBoots
    /\ ~shutdown
    /\ shutdown' = TRUE
    /\ ctx' = [j \in Jobs |-> IF pc[j] # "none" /\ ctx[j] = "live" THEN "cancelled" ELSE ctx[j]]
    /\ UNCHANGED <<rows, runs, loopVars, running, notify, boots, calls, github, faults>>

\* What is left of the process's memory when it ends.
ProcessEnds ==
    /\ loop' = "down"
    /\ claimed' = NoJob
    /\ running' = {}
    /\ pc' = [j \in Jobs |-> "none"]
    /\ ctx' = [j \in Jobs |-> "live"]
    /\ runCheck' = [j \in Jobs |-> NoCheck]
    /\ verdict' = [j \in Jobs |-> NoConclusion]
    /\ notify' = FALSE
    /\ shutdown' = FALSE
    /\ call' = [h \in Callers |-> "idle"]
    /\ target' = [h \in Callers |-> NoJob]
    /\ UNCHANGED <<rows, boots, github, faults>>

\* The HTTP server is drained and Runner.Start has returned.
Exit ==
    /\ loop = "wait"
    /\ Executing = {}
    /\ \A h \in Callers : call[h] = "idle"
    /\ ProcessEnds

\* SIGKILL, or main giving up after shutdownTimeout with jobs still unwinding.
Crash ==
    /\ Up
    /\ boots < MaxBoots
    /\ ProcessEnds

-----------------------------------------------------------------------------
(* The claim loop: Runner.Start and Runner.drain.                          *)

\* Mutant: the loop is not left when the process stops.
DrainEnterAnyway ==
    /\ loop = "drain"
    /\ loop' = IF shutdown THEN "drain" ELSE "limit"
    /\ UNCHANGED <<rows, runs, claimed, process, calls, github, faults>>

DrainEnter ==
    /\ loop = "drain"
    /\ loop' = IF shutdown THEN "select" ELSE "limit"
    /\ UNCHANGED <<rows, runs, claimed, process, calls, github, faults>>

\* Mutant: one job too many.
DrainLimitOffByOne ==
    /\ loop = "limit"
    /\ loop' = IF Cardinality(running) > Limit THEN "select" ELSE "claim"
    /\ UNCHANGED <<rows, runs, claimed, process, calls, github, faults>>

\* Mutant: an error leaves Start, not only drain.
DrainLimitGivesUp ==
    /\ loop = "limit"
    /\ \/ /\ loop' = IF Cardinality(running) >= Limit THEN "select" ELSE "claim"
          /\ UNCHANGED storeFaults
       \/ StoreFault /\ loop' = "wait"
    /\ UNCHANGED <<rows, runs, claimed, process, calls, github, apiFaults>>

\* Settings and Active; a settings row that cannot be read ends the drain.
DrainLimit ==
    /\ loop = "limit"
    /\ \/ /\ loop' = IF Cardinality(running) >= Limit THEN "select" ELSE "claim"
          /\ UNCHANGED storeFaults
       \/ StoreFault /\ loop' = "select"
    /\ UNCHANGED <<rows, runs, claimed, process, calls, github, apiFaults>>

\* Mutant: the claim does not filter on the status.
AnyRow == {j \in Jobs : status[j] # "absent"}

Queued == {j \in Jobs : status[j] = "queued"}
Oldest == {j \in Queued : \A k \in Queued : createdAt[j] <= createdAt[k]}

\* Mutant: the claim is not written to the row.
ClaimUnrecorded(j) ==
    /\ loop = "claim"
    /\ j \in Oldest
    /\ claimed' = j
    /\ loop' = "start"
    /\ UNCHANGED <<rows, runs, process, calls, github, faults>>

\* store.ClaimNextJob
Claim(j) ==
    /\ loop = "claim"
    /\ j \in Oldest
    /\ status' = [status EXCEPT ![j] = "in_progress"]
    /\ claimed' = j
    /\ loop' = "start"
    /\ UNCHANGED <<conclusion, checkRunID, createdAt, second, runs, process, calls, github, faults>>

ClaimNothing ==
    /\ loop = "claim"
    /\ \/ Queued = {} /\ UNCHANGED storeFaults
       \/ StoreFault
    /\ loop' = "select"
    /\ UNCHANGED <<rows, runs, claimed, process, calls, github, apiFaults>>

\* startJob: resolveTimeout has read the binding; from here the job can be
\* found in Runner.running.
StartJob ==
    /\ loop = "start"
    /\ running' = running \cup {claimed}
    /\ ctx' = [ctx EXCEPT ![claimed] = IF shutdown THEN "cancelled" ELSE "live"]
    /\ pc' = [pc EXCEPT ![claimed] = "open"]
    /\ runCheck' = [runCheck EXCEPT ![claimed] = checkRunID[claimed]]
    /\ claimed' = NoJob
    /\ loop' = "drain"
    /\ UNCHANGED <<rows, verdict, notify, shutdown, boots, calls, github, faults>>

\* The three cases of the select in Start.
SelectDone ==
    /\ loop = "select"
    /\ shutdown
    /\ loop' = "wait"
    /\ UNCHANGED <<rows, runs, claimed, process, calls, github, faults>>

SelectNotify ==
    /\ loop = "select"
    /\ notify
    /\ loop' = "drain"
    /\ notify' = FALSE
    /\ UNCHANGED <<rows, runs, claimed, running, ctx, shutdown, boots, calls, github, faults>>

SelectTick ==
    /\ loop = "select"
    /\ loop' = "drain"
    /\ UNCHANGED <<rows, runs, claimed, process, calls, github, faults>>

-----------------------------------------------------------------------------
(* One job goroutine: runJob and the deferred calls of startJob.           *)

Goto(j, p) == pc' = [pc EXCEPT ![j] = p]

\* FinishJob: an unconditional UPDATE by id, whose error is only logged.
WriteEnd(j, out) ==
    \/ /\ status' = [status EXCEPT ![j] = out.status]
       /\ conclusion' = [conclusion EXCEPT ![j] = out.conclusion]
       /\ UNCHANGED storeFaults
    \/ StoreFault /\ UNCHANGED <<status, conclusion>>

OurFault == Outcome("error", "failure")

\* Mutant: the recorded Check Run is not looked at.
OpenToCreate(j) ==
    /\ pc[j] = "open"
    /\ Goto(j, "create")
    /\ UNCHANGED <<rows, runCheck, verdict, loopVars, process, calls, github, faults>>

\* The log file, the App row and its client.
Open(j) ==
    /\ pc[j] = "open"
    /\ Goto(j, IF runCheck[j] = NoCheck THEN "create" ELSE "reopen")
    /\ UNCHANGED <<rows, runCheck, verdict, loopVars, process, calls, github, faults>>

\* Mutant: the early return forgets to end the row.
OpenFailsSilently(j) ==
    /\ pc[j] = "open"
    /\ Goto(j, "unwind")
    /\ UNCHANGED <<rows, runCheck, verdict, loopVars, process, calls, github, faults>>

OpenFails(j) ==
    /\ pc[j] = "open"
    /\ WriteEnd(j, OurFault)
    /\ Goto(j, "unwind")
    /\ UNCHANGED <<checkRunID, createdAt, second, runCheck, verdict, loopVars, process, calls, github,
                   apiFaults>>

Reopened(c) ==
    /\ checkState' = [checkState EXCEPT ![c] = "in_progress"]
    /\ checkConclusion' = [checkConclusion EXCEPT ![c] = NoConclusion]
    /\ UNCHANGED checkJob

ReopenCheckRun(j) ==
    /\ pc[j] = "reopen"
    /\ ctx[j] = "live"
    /\ Reopened(runCheck[j])
    /\ Goto(j, "body")
    /\ UNCHANGED <<rows, runCheck, verdict, loopVars, process, calls, faults>>

\* A dead context never sends the request; a live one may lose the answer.
ReopenFails(j) ==
    /\ pc[j] = "reopen"
    /\ \/ ctx[j] # "live" /\ UNCHANGED <<github, apiFaults>>
       \/ ctx[j] = "live" /\ ApiFault /\ (Reopened(runCheck[j]) \/ UNCHANGED github)
    /\ runCheck' = [runCheck EXCEPT ![j] = NoCheck]
    /\ Goto(j, "create")
    /\ UNCHANGED <<rows, verdict, loopVars, process, calls, storeFaults>>

Created(c, j) ==
    /\ checkState[c] = "absent"
    /\ \A d \in Checks : d < c => checkState[d] # "absent"
    /\ checkState' = [checkState EXCEPT ![c] = "in_progress"]
    /\ checkJob' = [checkJob EXCEPT ![c] = j]
    /\ UNCHANGED checkConclusion

CreateCheckRun(j, c) ==
    /\ pc[j] = "create"
    /\ ctx[j] = "live"
    /\ Created(c, j)
    /\ runCheck' = [runCheck EXCEPT ![j] = c]
    /\ Goto(j, "record")
    /\ UNCHANGED <<rows, verdict, loopVars, process, calls, faults>>

CreateFails(j) ==
    /\ pc[j] = "create"
    /\ \/ ctx[j] # "live" /\ UNCHANGED <<github, apiFaults>>
       \/ ctx[j] = "live" /\ ApiFault /\ (UNCHANGED github \/ \E c \in Checks : Created(c, j))
    /\ WriteEnd(j, OurFault)
    /\ Goto(j, "unwind")
    /\ UNCHANGED <<checkRunID, createdAt, second, runCheck, verdict, loopVars, process, calls>>

SetJobCheckRun(j) ==
    /\ pc[j] = "record"
    /\ \/ checkRunID' = [checkRunID EXCEPT ![j] = runCheck[j]] /\ UNCHANGED storeFaults
       \/ StoreFault /\ UNCHANGED checkRunID
    /\ Goto(j, "body")
    /\ UNCHANGED <<status, conclusion, createdAt, second, runCheck, verdict, loopVars, process, calls,
                   github, apiFaults>>

\* Everything from the skip check to the final switch, up to the row it
\* writes.
Decide(j, out) ==
    /\ pc[j] = "body"
    /\ out \in Endings \cap Outcomes(ctx[j])
    /\ WriteEnd(j, out)
    /\ verdict' = [verdict EXCEPT ![j] = out.conclusion]
    /\ Goto(j, "complete")
    /\ UNCHANGED <<checkRunID, createdAt, second, runCheck, loopVars, process, calls, github,
                   apiFaults>>

Completed(j) ==
    /\ checkState' = [checkState EXCEPT ![runCheck[j]] = "completed"]
    /\ checkConclusion' = [checkConclusion EXCEPT ![runCheck[j]] = verdict[j]]
    /\ UNCHANGED checkJob

CompleteCheckRun(j) ==
    /\ pc[j] = "complete"
    /\ ctx[j] = "live"
    /\ Completed(j)
    /\ Goto(j, "unwind")
    /\ UNCHANGED <<rows, runCheck, verdict, loopVars, process, calls, faults>>

\* The PATCH uses the job's own context; its error is only logged.
CompleteFails(j) ==
    /\ pc[j] = "complete"
    /\ \/ ctx[j] # "live" /\ UNCHANGED <<github, apiFaults>>
       \/ ctx[j] = "live" /\ ApiFault /\ (Completed(j) \/ UNCHANGED github)
    /\ Goto(j, "unwind")
    /\ UNCHANGED <<rows, runCheck, verdict, loopVars, process, calls, storeFaults>>

\* Mutant: the freed slot wakes nobody.
UnwindSilently(j) ==
    /\ pc[j] = "unwind"
    /\ running' = running \ {j}
    /\ ctx' = [ctx EXCEPT ![j] = "live"]
    /\ pc' = [pc EXCEPT ![j] = "none"]
    /\ runCheck' = [runCheck EXCEPT ![j] = NoCheck]
    /\ verdict' = [verdict EXCEPT ![j] = NoConclusion]
    /\ UNCHANGED <<rows, loopVars, notify, shutdown, boots, calls, github, faults>>

\* The deferred function of startJob: leave Runner.running, wake the loop.
Unwind(j) ==
    /\ pc[j] = "unwind"
    /\ running' = running \ {j}
    /\ ctx' = [ctx EXCEPT ![j] = "live"]
    /\ pc' = [pc EXCEPT ![j] = "none"]
    /\ runCheck' = [runCheck EXCEPT ![j] = NoCheck]
    /\ verdict' = [verdict EXCEPT ![j] = NoConclusion]
    /\ notify' = TRUE
    /\ UNCHANGED <<rows, loopVars, shutdown, boots, calls, github, faults>>

\* The timeout of startJob's context passes.
Expire(j) ==
    /\ pc[j] # "none"
    /\ ctx[j] = "live"
    /\ ctx' = [ctx EXCEPT ![j] = "deadline"]
    /\ UNCHANGED <<rows, runs, loopVars, running, notify, shutdown, boots, calls, github, faults>>

-----------------------------------------------------------------------------
(* HTTP requests: an enqueue, or a call of Runner.CancelJob.               *)

\* store.EnqueueJob, with time passing before it or not.  When the second INSERT
\* (the delivery) or the read-back fails, the row is there but nobody is notified.
EnqueueJob(h, j) ==
    /\ Accepting
    /\ call[h] = "idle"
    /\ status[j] = "absent"
    /\ \E t \in {second, second + 1} :
          /\ second' = t
          /\ createdAt' = [createdAt EXCEPT ![j] = t]
    /\ status' = [status EXCEPT ![j] = "queued"]
    /\ \/ call' = [call EXCEPT ![h] = "notify"] /\ UNCHANGED storeFaults
       \/ StoreFault /\ UNCHANGED call
    /\ UNCHANGED <<conclusion, checkRunID, runs, loopVars, process, target, github, apiFaults>>

Notify(h) ==
    /\ call[h] = "notify"
    /\ notify' = TRUE
    /\ call' = [call EXCEPT ![h] = "idle"]
    /\ UNCHANGED <<rows, runs, loopVars, running, ctx, shutdown, boots, target, github, faults>>

\* The caller has seen the job's row (the Jobs page, or a webhook's lookup).
CancelJob(h, j) ==
    /\ Accepting
    /\ call[h] = "idle"
    /\ status[j] # "absent"
    /\ call' = [call EXCEPT ![h] = "lookup"]
    /\ target' = [target EXCEPT ![h] = j]
    /\ UNCHANGED <<rows, runs, loopVars, process, github, faults>>

Return(h) ==
    /\ call' = [call EXCEPT ![h] = "idle"]
    /\ target' = [target EXCEPT ![h] = NoJob]

\* Runner.running under the mutex.  cancel() runs just after the unlock; if
\* the goroutine is gone by then it does nothing.
CancelRunning(h) ==
    /\ call[h] = "lookup"
    /\ target[h] \in running
    /\ ctx' = [ctx EXCEPT ![target[h]] = IF @ = "live" THEN "cancelled" ELSE @]
    /\ Return(h)
    /\ UNCHANGED <<rows, runs, loopVars, running, notify, shutdown, boots, github, faults>>

CancelNotRunning(h) ==
    /\ call[h] = "lookup"
    /\ target[h] \notin running
    /\ call' = [call EXCEPT ![h] = "read"]
    /\ UNCHANGED <<rows, runs, loopVars, process, target, github, faults>>

\* store.Job and job.InFlight; a failed read answers FALSE like a finished job.
CancelRead(h) ==
    /\ call[h] = "read"
    /\ \/ /\ status[target[h]] \in InFlight
          /\ call' = [call EXCEPT ![h] = "finish"]
          /\ UNCHANGED <<target, storeFaults>>
       \/ status[target[h]] \notin InFlight /\ Return(h) /\ UNCHANGED storeFaults
       \/ StoreFault /\ Return(h)
    /\ UNCHANGED <<rows, runs, loopVars, process, github, apiFaults>>

Superseded == Outcome("cancelled", "cancelled")

CancelFinish(h) ==
    /\ call[h] = "finish"
    /\ WriteEnd(target[h], Superseded)
    /\ Return(h)
    /\ UNCHANGED <<checkRunID, createdAt, second, runs, loopVars, process, github, apiFaults>>

-----------------------------------------------------------------------------
Process == Launch \/ Requeue \/ Shutdown \/ Exit \/ Crash

Loop ==
    \/ DrainEnter \/ DrainLimit
    \/ (\E j \in Jobs : Claim(j)) \/ ClaimNothing \/ StartJob
    \/ SelectDone \/ SelectNotify \/ SelectTick

Work(j) ==
    \/ ReopenCheckRun(j) \/ ReopenFails(j)
    \/ (\E c \in Checks : CreateCheckRun(j, c)) \/ CreateFails(j)
    \/ \E out \in Endings : Decide(j, out)
    \/ CompleteCheckRun(j) \/ CompleteFails(j)

Local(j) == Open(j) \/ OpenFails(j) \/ SetJobCheckRun(j) \/ Unwind(j)

Goroutine(j) == Work(j) \/ Local(j) \/ Expire(j)

Request(h) == \E j \in Jobs : EnqueueJob(h, j) \/ CancelJob(h, j)

Serve(h) ==
    Notify(h) \/ CancelRunning(h) \/ CancelNotRunning(h) \/ CancelRead(h) \/ CancelFinish(h)

Next ==
    \/ Process
    \/ Loop
    \/ \E j \in Jobs : Goroutine(j)
    \/ \E h \in Callers : Request(h) \/ Serve(h)

Spec == Init /\ [][Next]_vars

(***************************************************************************)
(* Fairness.  The loop, the requests and the local steps of a goroutine    *)
(* are never blocked for good, and the container is started again          *)
(* (compose.yaml: restart: unless-stopped).  A build or a call to GitHub   *)
(* may hang: its step is fair only once its context is dead, when the      *)
(* executor has killed the process group and the HTTP client has returned. *)
(* That context expires, because every job has a timeout.  A Go select     *)
(* picks at random among its ready cases, so one that is ready again and   *)
(* again is taken (SF).                                                    *)
(***************************************************************************)
Fairness ==
    /\ WF_vars(Launch) /\ WF_vars(Requeue) /\ WF_vars(Exit)
    /\ WF_vars(Loop) /\ SF_vars(SelectDone)
    /\ \A j \in Jobs : /\ WF_vars(Local(j))
                       /\ WF_vars(Expire(j))
                       /\ WF_vars(ctx[j] # "live" /\ Work(j))
    /\ \A h \in Callers : WF_vars(Serve(h))

FairSpec == Spec /\ Fairness

-----------------------------------------------------------------------------
(* Properties.                                                             *)

RowsTypeOK ==
    /\ status \in [Jobs -> {"absent"} \cup JobStatuses]
    /\ conclusion \in [Jobs -> {NoConclusion} \cup Conclusions]
    /\ checkRunID \in [Jobs -> {NoCheck} \cup Checks]
    /\ createdAt \in [Jobs -> Nat]

RunsTypeOK ==
    /\ running \in SUBSET Jobs
    /\ pc \in [Jobs -> PCs]
    /\ ctx \in [Jobs -> CtxStates]
    /\ runCheck \in [Jobs -> {NoCheck} \cup Checks]
    /\ verdict \in [Jobs -> {NoConclusion} \cup Conclusions]

\* drain holds a job exactly between the claim and startJob.
LoopTypeOK ==
    /\ loop \in LoopPCs
    /\ claimed \in IF loop = "start" THEN Jobs ELSE {NoJob}
    /\ notify \in BOOLEAN
    /\ shutdown \in BOOLEAN

CallsTypeOK ==
    /\ call \in [Callers -> CallPCs]
    /\ target \in [Callers -> {NoJob} \cup Jobs]
    /\ \A h \in Callers : call[h] \in {"lookup", "read", "finish"} => target[h] \in Jobs

GitHubTypeOK ==
    /\ checkJob \in [Checks -> {NoJob} \cup Jobs]
    /\ checkState \in [Checks -> {"absent", "in_progress", "completed"}]
    /\ checkConclusion \in [Checks -> {NoConclusion} \cup Conclusions]

BoundsTypeOK == {second, boots, apiFaults, storeFaults} \subseteq Nat

\* Every variable holds a value of its column, channel or goroutine state.
TypeOK ==
    /\ RowsTypeOK
    /\ RunsTypeOK
    /\ LoopTypeOK
    /\ CallsTypeOK
    /\ GitHubTypeOK
    /\ BoundsTypeOK

\* settings.max_concurrent_jobs holds between the Active() check and the
\* registration of the claimed job too, although the two are separate
\* critical sections: only drain adds to Runner.running.
BoundedConcurrency == Cardinality(Owned) <= Limit

\* A job that is being started or run is never also queued: no interleaving of
\* the claim, CancelJob and a restart lets ClaimNextJob hand it out twice.
OwnedJobsAreNotQueued == \A j \in Owned : status[j] \notin {"absent", "queued"}

\* While the process serves, an in_progress row has a goroutine that will
\* finish it; otherwise it would block its delivery id until the next boot.
ClaimedRowsAreOwned ==
    storeFaults = 0 /\ loop \notin {"down", "boot"} =>
        \A j \in Jobs : status[j] = "in_progress" => j \in Owned

\* The one-slot channel loses no wake-up, without the 5 s poll: a loop that sleeps
\* beside a free slot and a job in line is about to be notified.  An enqueue and
\* its Notify are two steps; between them drain may have found nothing and gone
\* to sleep.
NoWakeUpIsLost ==
    /\ storeFaults = 0
    /\ loop = "select"
    /\ ~shutdown
    /\ Queued # {}
    /\ Cardinality(running) < Limit
    => notify \/ \E h \in Callers : call[h] = "notify"

\* The Check Run a row names, and the one its goroutine will PATCH, was created
\* for that job: a requeued job reopens its own Check Run.
ChecksBelongToTheirJob ==
    \A j \in Jobs :
        /\ checkRunID[j] # NoCheck => checkJob[checkRunID[j]] = j
        /\ runCheck[j] # NoCheck => checkJob[runCheck[j]] = j

\* A finished job is never put back in flight, so Redeliver may start a new one
\* and retention may delete it: RequeueStaleJobs takes only in_progress rows,
\* and every other write to a finished row is another ending.
FinishedJobsStayFinished ==
    [][\A j \in Jobs : status[j] \in Terminal => status'[j] \in Terminal]_vars

\* "The requeued job has to land on the Check Run it already created"
\* (store/jobs.go, RequeueStaleJobs): a job whose Check Run is on record opens
\* another one only after GitHub failed to reopen the first.
RecordedCheckIsReused ==
    [][\A j \in Jobs, c \in Checks :
            checkJob[c] # j /\ checkJob'[c] = j =>
                checkRunID[j] = NoCheck \/ apiFaults > 0]_vars

\* The Check Run id of a row is never lost, whatever dies in between.
CheckIdIsNeverForgotten ==
    [][\A j \in Jobs : checkRunID[j] # NoCheck => checkRunID'[j] # NoCheck]_vars

\* Every queued job ends, whether it is run, cancelled or times out, however
\* often the process is restarted and whatever drain's reads answer.  Only a row
\* whose last UPDATE failed may be left in_progress, for the next boot.
QueuedJobsEnd ==
    \A j \in Jobs : status[j] = "queued" ~>
        status[j] \in Terminal \/ (status[j] = "in_progress" /\ storeFaults > 0)

\* A shutdown ends: every job context is a child of the process's, so the
\* WaitGroup of Runner.Start drains.
ShutdownEnds == shutdown ~> ~Up

(***************************************************************************)
(* The queue as a pool.  A job is active from its claim to the deferred    *)
(* delete of startJob; a row that is in flight and has no goroutine is in  *)
(* line, even if it still reads in_progress after a crash.                 *)
(***************************************************************************)
Phase == [j \in Jobs |->
            CASE status[j] = "absent"     -> "absent"
              [] j \in Owned              -> "active"
              [] j \notin Owned /\ status[j] \in InFlight -> "pending"
              [] j \notin Owned /\ status[j] \in Terminal -> "done"]

Pool == INSTANCE JobPool WITH phase <- Phase

\* The runner implements the pool.
ImplementsPool == Pool!Spec

(***************************************************************************)
(* The part an HTTP handler sees.                                          *)
(***************************************************************************)
Owner == [j \in Jobs |-> CASE pc[j] \in {"complete", "unwind"}             -> "ending"
                           [] pc[j] \in PCs \ {"none", "complete", "unwind"} -> "running"
                           [] pc[j] = "none" /\ j = claimed                  -> "claimed"
                           [] pc[j] = "none" /\ j # claimed                  -> "none"]

Table == INSTANCE JobTable WITH Endings <- Terminal,
                                owner <- Owner,
                                signalled <- [j \in Jobs |-> ctx[j] # "live"]

\* The runner implements the view the webhook handlers are checked against.
ImplementsTable == Table!TableSpec

-----------------------------------------------------------------------------
(* A claim of the repository that the code does not keep.                  *)

\* "The cancelled job patches its own Check Run to cancelled" (api/webhook.go).
CancelledJobsSettleTheirCheck ==
    \A j \in Jobs :
        conclusion[j] = "cancelled" /\ j \notin Owned /\ checkRunID[j] # NoCheck
            => checkState[checkRunID[j]] = "completed"
=============================================================================
