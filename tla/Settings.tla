------------------------------ MODULE Settings ------------------------------
(***************************************************************************)
(* The settings row while deliveries and jobs use it: PATCH                *)
(* (api/settings.go, store/settings.go), the fork policy a delivery is     *)
(* enqueued under (api/webhook.go), the Re-run button (api/jobs.go) and    *)
(* the settings drain reads before it claims the job (queue/runner.go).    *)
(*                                                                         *)
(* Every handler is a sequence of SQL statements; each is atomic, and      *)
(* those of two requests interleave.                                       *)
(***************************************************************************)
EXTENDS Integers

CONSTANTS
    Requests,       \* request goroutines
    Runs,
    Slots,          \* values a PATCH has for max_concurrent_jobs
    Forms,          \* the sets of fields a PATCH names
    MaxWrites       \* bound: PATCHes that are saved

Fields == {"slots", "skipForks", "runtime"}

VARIABLES
    settings,    \* the row
    jobs,        \* what a job row, and the goroutine that runs it, keep of it
    seen,        \* of the settings drain read for its next claim, the policy on forks
    rpc, arg,    \* where each handler is, and what it holds
    writes,      \* PATCHes saved
    saved        \* history: each setting as the last PATCH that named it left it, since
                 \* the last that was saved over a row it had not read

settingsVars == <<settings, jobs, seen, rpc, arg, writes, saved>>

-----------------------------------------------------------------------------
(* The settings.  A PATCH names some of the columns, by a set of fields,   *)
(* and carries a value for each column.                                    *)

\* runtime: default_runtime is set
Settings == [slots : Int, skipForks : BOOLEAN, runtime : BOOLEAN]
Values == [slots : Slots \cap Int, skipForks : BOOLEAN, runtime : BOOLEAN]

DefaultSettings == [slots |-> 1, skipForks |-> TRUE, runtime |-> FALSE]

\* What the run of a fork's commit depends on.
Policy(row) == [skipForks |-> row.skipForks, runtime |-> row.runtime]
Policies == [skipForks : BOOLEAN, runtime : BOOLEAN]

AtLeastOne(n) == IF n < 1 THEN 1 ELSE n

\* Mutant: a checkbox that is absent is an unchecked one.
PatchedByForm(current, named, values) ==
    [slots     |-> AtLeastOne(IF "slots" \in named THEN values.slots ELSE current.slots),
     skipForks |-> "skipForks" \in named /\ values.skipForks,
     runtime   |-> IF "runtime" \in named THEN values.runtime ELSE current.runtime]

\* The named fields over the row that was read, and the lower bounds.
Patched(current, named, values) ==
    [slots     |-> AtLeastOne(IF "slots" \in named THEN values.slots ELSE current.slots),
     skipForks |-> IF "skipForks" \in named THEN values.skipForks ELSE current.skipForks,
     runtime   |-> IF "runtime" \in named THEN values.runtime ELSE current.runtime]

\* Fork pull requests run in default_runtime, with Docker.
Accepted(next, docker) == next.skipForks \/ (next.runtime /\ docker)

NoArg == [on |-> "nothing"]
NoRun == [state |-> "none"]

SettingsInit ==
    /\ settings = DefaultSettings
    /\ jobs = [j \in Runs |-> NoRun]
    /\ seen = Policy(DefaultSettings)
    /\ rpc = [h \in Requests |-> "idle"]
    /\ arg = [h \in Requests |-> NoArg]
    /\ writes = 0
    /\ saved = DefaultSettings

Begin(h, pc, a) ==
    /\ rpc[h] = "idle"
    /\ rpc' = [rpc EXCEPT ![h] = pc]
    /\ arg' = [arg EXCEPT ![h] = a]

\* The handler has answered.
Reply(h) ==
    /\ rpc' = [rpc EXCEPT ![h] = "idle"]
    /\ arg' = [arg EXCEPT ![h] = NoArg]

\* A statement fails, or the delivery starts no job: no enabled binding, a branch
\* that is not in its list, a run in flight.
Abandon(h) ==
    /\ rpc[h] # "idle"
    /\ Reply(h)
    /\ UNCHANGED <<settings, jobs, seen, writes, saved>>

-----------------------------------------------------------------------------
(* patchSettings, and the settings part of handleSetup.                    *)

ReadSettings(h, named, values) ==
    LET next == Patched(settings, named, values) IN
    /\ \E docker \in BOOLEAN : Accepted(next, docker)    \* else it answers 400
    /\ Begin(h, "save", [on |-> "settings", base |-> settings, next |-> next, named |-> named])
    /\ UNCHANGED <<settings, jobs, seen, writes, saved>>

Kept(h, old, new) ==
    [f \in Fields |-> IF f \in arg[h].named THEN new[f] ELSE old[f]]

\* SaveSettings writes the whole row.
Save(h) ==
    /\ rpc[h] = "save"
    /\ writes < MaxWrites
    /\ writes' = writes + 1
    /\ settings' = arg[h].next
    /\ saved' = IF settings = arg[h].base THEN Kept(h, saved, arg[h].next) ELSE settings'
    /\ Reply(h)
    /\ UNCHANGED <<jobs, seen>>

-----------------------------------------------------------------------------
(* A delivery for the commit of a fork: handleWebhook, from the settings   *)
(* to the enqueue.  Webhook models the runs it starts, stops and finds.    *)

Deliver(h) ==
    /\ Begin(h, "deliver", [on |-> "delivery", policy |-> Policy(settings)])
    /\ UNCHANGED <<settings, jobs, seen, writes, saved>>

\* Mutant: only the engine and the runtime are asked for.
RefusesByEngine(policy, docker) == ~docker \/ ~policy.runtime

\* The policy, or the engine, refuses the commits of forks.
Refuses(policy, docker) == policy.skipForks \/ ~docker \/ ~policy.runtime

\* A refused commit gets a job too, which will be skipped.
EnqueueFork(h) ==
    /\ rpc[h] = "deliver"
    /\ \E j \in Runs, docker \in BOOLEAN :
          /\ jobs[j].state = "none"
          /\ jobs' = [jobs EXCEPT ![j] =
                [state |-> "queued", skip |-> Refuses(arg[h].policy, docker), isFork |-> TRUE,
                 policy |-> arg[h].policy]]
    /\ Reply(h)
    /\ UNCHANGED <<settings, seen, writes, saved>>

\* rerunJob: a job of the same commit, but is_fork, pull_number and skip_reason are
\* not carried over.  Nothing reads the settings.
RerunFork(j, old) ==
    /\ jobs[old].state # "none"
    /\ jobs[j].state = "none"
    /\ jobs' = [jobs EXCEPT ![j] =
          [state |-> "queued", skip |-> FALSE, isFork |-> FALSE, policy |-> jobs[old].policy]]
    /\ UNCHANGED <<settings, seen, rpc, arg, writes, saved>>

-----------------------------------------------------------------------------
(* The runner.                                                             *)

\* drain reads the settings before it claims: what the job runs with.
ReadForClaim ==
    /\ seen # Policy(settings)
    /\ seen' = Policy(settings)
    /\ UNCHANGED <<settings, jobs, rpc, arg, writes, saved>>

\* ClaimNextJob, startJob and runJob: from the claim on, the job holds what drain
\* read.  It builds in the image the file names; a fork's in default_runtime, if it
\* names none.
ClaimAndRun(j) ==
    /\ jobs[j].state = "queued"
    /\ \E image \in BOOLEAN :
          jobs' = [jobs EXCEPT ![j] =
             IF @.skip THEN [state |-> "skipped", policy |-> @.policy]
             ELSE [state |-> "ran", docker |-> image \/ (@.isFork /\ seen.runtime),
                   isFork |-> @.isFork, policy |-> @.policy, same |-> seen = @.policy]]
    /\ UNCHANGED <<settings, seen, rpc, arg, writes, saved>>

-----------------------------------------------------------------------------
SettingsNext ==
    \/ \E h \in Requests : Deliver(h) \/ Save(h) \/ EnqueueFork(h) \/ Abandon(h)
    \/ \E h \in Requests, named \in Forms \cap SUBSET Fields, values \in Values : ReadSettings(h, named, values)
    \/ ReadForClaim
    \/ \E j \in Runs : ClaimAndRun(j)
    \/ \E j, old \in Runs : RerunFork(j, old)

SettingsSpec == SettingsInit /\ [][SettingsNext]_settingsVars

-----------------------------------------------------------------------------
(* Properties.                                                             *)

\* No interleaving of PATCHes, each of which was checked against the row it
\* read, leaves settings the checks refuse: forks enabled without a runtime, or
\* a pool without a slot.
SettingsAreValid ==
    /\ settings.slots >= 1
    /\ settings.skipForks \/ settings.runtime

\* "A partial PATCH (or a form that omits a field) cannot silently reset the
\* rest" (api/settings.go): every setting is as the last PATCH that named it
\* left it, back to the last that was saved over a row it had not read.
PatchesAreKept == settings = saved

\* A commit of a fork that a delivery enqueued while forks were off is never run
\* by that job, and one that runs under the settings it was judged by runs in
\* Docker.
ForkRunsAsDecided ==
    \A j \in Runs : jobs[j].state = "ran" /\ jobs[j].isFork =>
        ~jobs[j].policy.skipForks /\ (jobs[j].same => jobs[j].docker)

\* "Fork code always runs in Docker, never as a process on this host"
\* (pipeline/pipeline.go), the Re-run button included, if the settings are those
\* the fork's delivery was judged by.
ForkCodeRunsInDocker ==
    \A j \in Runs : jobs[j].state = "ran" /\ jobs[j].same => jobs[j].docker
=============================================================================
