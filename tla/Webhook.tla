------------------------------ MODULE Webhook ------------------------------
(***************************************************************************)
(* The request handlers that create and cancel jobs: handleWebhook and     *)
(* cancelSuperseded (api/webhook.go), rerunJob and cancelJob (api/jobs.go) *)
(* and Runner.CancelJob (queue/runner.go), running concurrently over the   *)
(* data plane as JobTable shows it.                                        *)
(*                                                                         *)
(* An event here has passed the signature, the parser, the bindings        *)
(* allow-list and the branch list.  One repository and one App: the        *)
(* lookups filter on them before anything modelled here.                   *)
(***************************************************************************)
EXTENDS Integers, FiniteSets, JobTable

CONSTANTS
    Handlers,       \* request goroutines
    Events,         \* the deliveries GitHub may send, and may send again
    NoEvent, NoDelivery, NoJob,
    ManualActions,  \* the Jobs page buttons in use: a subset of {"rerun", "cancel"}
    MaxStoreFaults  \* bound: SQL statements that fail

\* What Parse lets through: a suite that was requested, or a suite or a run asked
\* for again.  Commits are numbered in the order they were pushed.
ParsedEvents == [delivery : STRING \cup Nat \cup {NoDelivery}, sha : Nat, ref : STRING,
                 action : {"requested", "rerequested"}]

\* GitHub's Redeliver sends the payload of a delivery id again: one id names one
\* commit.
ASSUME EventsAssumption ==
    /\ Events \subseteq ParsedEvents /\ NoEvent \notin Events
    /\ \A e, f \in Events : e.delivery = f.delivery /\ e.delivery # NoDelivery => e.sha = f.sha
ASSUME EndingsAssumption == Endings \subseteq Terminal
ASSUME ManualAssumption == ManualActions \subseteq {"rerun", "cancel"}

VARIABLES
    origin,       \* what each job was enqueued for: delivery_id, sha, ref and event
    hpc,          \* where each handler is
    ev,           \* the event a webhook handler holds
    victims,      \* the jobs cancelSuperseded listed and has not cancelled yet
    victim,       \* the argument of CancelJob
    resume,       \* where CancelJob returns to
    storeFaults,
    crossing,     \* bound, chosen at the start: either requests cross, or they come
                  \* one at a time, buttons are pressed and statements fail
    late,         \* history: the jobs enqueued while a handler held its event
    unseen,       \* history: a job and one of its commit enqueued while its request was handled
    missed        \* history: the jobs that CancelJob did not find in Runner.running

eventVars == <<ev, late>>
boundVars == <<storeFaults, crossing>>
rowVars == <<origin, unseen>>
callVars == <<victim, resume, missed>>
handlerVars == <<hpc, eventVars, victims, callVars>>
vars == <<tableVars, rowVars, handlerVars, boundVars>>

\* The columns a row is inserted with.
Columns(e) == [delivery |-> e.delivery, sha |-> e.sha, ref |-> e.ref, event |-> e.action]

Rows == {j \in Jobs : status[j] # "absent"}

\* Bound: a request is taken only while there is a job id left for it.
IdsLeft == Cardinality({h \in Handlers : ev[h] # NoEvent}) < Cardinality(Jobs \ Rows)

\* The rows that hold their delivery id.
Live == {j \in Rows : status[j] \in InFlight}

-----------------------------------------------------------------------------
Init ==
    /\ TableInit
    /\ origin = [j \in Jobs |-> NoEvent]
    /\ hpc = [h \in Handlers |-> "idle"]
    /\ ev = [h \in Handlers |-> NoEvent]
    /\ victims = [h \in Handlers |-> {}]
    /\ victim = [h \in Handlers |-> NoJob]
    /\ resume = [h \in Handlers |-> "idle"]
    /\ storeFaults = 0
    /\ crossing \in BOOLEAN
    /\ late = [h \in Handlers |-> {}]
    /\ unseen = {}
    /\ missed = {}

Alone(h) == \A g \in Handlers \ {h} : hpc[g] = "idle"

StoreFault ==
    /\ ~crossing
    /\ storeFaults < MaxStoreFaults
    /\ storeFaults' = storeFaults + 1
    /\ UNCHANGED crossing

Goto(h, p) == hpc' = [hpc EXCEPT ![h] = p]

\* The handler has answered GitHub or the browser.
Answer(h) ==
    /\ Goto(h, "idle")
    /\ ev' = [ev EXCEPT ![h] = NoEvent]

\* h answers without a job.
Decline(h) ==
    /\ Answer(h)
    /\ late' = [late EXCEPT ![h] = {}]

\* Call Runner.CancelJob(j).
Call(h, j, back) ==
    /\ Goto(h, "lookup")
    /\ victim' = [victim EXCEPT ![h] = j]
    /\ resume' = [resume EXCEPT ![h] = back]
    /\ UNCHANGED missed

Return(h) ==
    /\ Goto(h, resume[h])
    /\ victim' = [victim EXCEPT ![h] = NoJob]
    /\ resume' = [resume EXCEPT ![h] = "idle"]
    /\ UNCHANGED missed

Receive(h, e) ==
    /\ hpc[h] = "idle"
    /\ crossing \/ Alone(h)
    /\ IdsLeft
    /\ ev' = [ev EXCEPT ![h] = e]
    /\ late' = [late EXCEPT ![h] = {}]
    /\ Goto(h, "delivery")
    /\ UNCHANGED <<tableVars, rowVars, victims, callVars, boundVars>>

\* Mutant: no lookup of the delivery id.
DeliveryUnchecked(h) ==
    /\ hpc[h] = "delivery"
    /\ Goto(h, "suite")
    /\ UNCHANGED <<tableVars, rowVars, eventVars, victims, callVars, boundVars>>

\* store.InFlightJobForDelivery finds nothing for an event without a delivery id;
\* a failed lookup is logged and the event goes on.
DeliveryCheck(h) ==
    LET id == ev[h].delivery
        held == id # NoDelivery /\ \E j \in Live : origin[j].delivery = id IN
    /\ hpc[h] = "delivery"
    /\ \/ held /\ Decline(h) /\ UNCHANGED boundVars
       \/ ~held /\ Goto(h, "suite") /\ UNCHANGED <<eventVars, boundVars>>
       \/ StoreFault /\ Goto(h, "suite") /\ UNCHANGED eventVars
    /\ UNCHANGED <<tableVars, rowVars, victims, callVars>>

\* Mutant: the lookup filters on the branch as well.
SameCommitOnRef(h) == {j \in Live : origin[j].sha = ev[h].sha /\ origin[j].ref = ev[h].ref}

\* Mutant: the lookup filters on the branch instead.
SameRef(h) == {j \in Live : origin[j].ref = ev[h].ref}

SameCommit(h) == {j \in Live : origin[j].sha = ev[h].sha}

\* store.InFlightJobForSuite and what the event's action makes of its answer.
SuiteCheck(h) ==
    /\ hpc[h] = "suite"
    /\ \/ /\ SameCommit(h) # {} /\ ev[h].action = "requested"
          /\ Decline(h)
          /\ UNCHANGED <<callVars, boundVars>>
       \/ /\ ev[h].action = "rerequested"
          /\ \E j \in SameCommit(h) : Call(h, j, "list")
          /\ UNCHANGED <<eventVars, boundVars>>
       \/ SameCommit(h) = {} /\ Goto(h, "list") /\ UNCHANGED <<eventVars, callVars, boundVars>>
       \/ StoreFault /\ Goto(h, "list") /\ UNCHANGED <<eventVars, callVars>>
    /\ UNCHANGED <<tableVars, rowVars, victims>>

\* cancelSuperseded: an event without a branch supersedes nothing; else the list is
\* read once ...
ListSuperseded(h) ==
    /\ hpc[h] = "list"
    /\ \/ ev[h].ref = "" /\ Goto(h, "enqueue") /\ UNCHANGED <<victims, boundVars>>
       \/ /\ ev[h].ref # ""
          /\ victims' = [victims EXCEPT ![h] =
                            {j \in Live : origin[j].ref = ev[h].ref /\ origin[j].sha # ev[h].sha}]
          /\ Goto(h, "supersede")
          /\ UNCHANGED boundVars
       \/ ev[h].ref # "" /\ StoreFault /\ Goto(h, "enqueue") /\ UNCHANGED victims
    /\ UNCHANGED <<tableVars, rowVars, eventVars, callVars>>

\* ... and its jobs are cancelled one by one.
CancelSuperseded(h) ==
    /\ hpc[h] = "supersede"
    /\ \/ /\ victims[h] = {}
          /\ Goto(h, "enqueue")
          /\ UNCHANGED <<victims, callVars>>
       \/ \E j \in victims[h] :
             /\ victims' = [victims EXCEPT ![h] = @ \ {j}]
             /\ Call(h, j, "supersede")
    /\ UNCHANGED <<tableVars, rowVars, eventVars, boundVars>>

\* History: h, or nobody, enqueues j while the others hold their events.
Witness(h, j) ==
    late' = [g \in Handlers |-> IF ev[g] = NoEvent \/ g = h THEN {} ELSE late[g] \cup {j}]

\* store.EnqueueJob, then Runner.Notify.  A failure answers 500, although the
\* row is there when only the second INSERT (the delivery) failed.
EnqueueEvent(h) ==
    /\ hpc[h] = "enqueue"
    /\ \/ /\ \E j \in Jobs :
                /\ Enqueue(j)
                /\ origin' = [origin EXCEPT ![j] = Columns(ev[h])]
                /\ unseen' = unseen \cup ({j} \X {k \in late[h] : origin[k].sha = ev[h].sha})
                /\ Witness(h, j)
          /\ UNCHANGED boundVars \/ StoreFault
       \/ StoreFault /\ UNCHANGED <<tableVars, rowVars>> /\ late' = [late EXCEPT ![h] = {}]
    /\ Answer(h)
    /\ UNCHANGED <<victims, callVars>>

\* rerunJob: the commit of an old job, with no delivery id and no lookup of
\* the runs in flight.
Rerun(h, old) ==
    /\ "rerun" \in ManualActions
    /\ ~crossing /\ Alone(h)
    /\ hpc[h] = "idle"
    /\ old \in Rows
    /\ IdsLeft
    /\ \E j \in Jobs :
          /\ Enqueue(j)
          /\ origin' = [origin EXCEPT ![j] = [origin[old] EXCEPT !.delivery = NoDelivery,
                                                                    !.event = "manual"]]
          /\ Witness(h, j)
    /\ UNCHANGED <<hpc, ev, victims, callVars, unseen, boundVars>>

\* cancelJob
Cancel(h, j) ==
    /\ "cancel" \in ManualActions
    /\ ~crossing /\ Alone(h)
    /\ hpc[h] = "idle"
    /\ j \in Rows
    /\ Call(h, j, "idle")
    /\ UNCHANGED <<tableVars, rowVars, eventVars, victims, boundVars>>

\* Runner.CancelJob, as in JobRunner.
CancelRunning(h) ==
    /\ hpc[h] = "lookup"
    /\ victim[h] \in Registered
    /\ Signal({victim[h]})
    /\ Return(h)
    /\ UNCHANGED <<rowVars, eventVars, victims, boundVars>>

\* Mutant: CancelJob gives up on a job that is not running.
CancelOnlyRunning(h) ==
    /\ hpc[h] = "lookup"
    /\ victim[h] \notin Registered
    /\ Return(h)
    /\ UNCHANGED <<tableVars, rowVars, eventVars, victims, boundVars>>

CancelNotRunning(h) ==
    /\ hpc[h] = "lookup"
    /\ victim[h] \notin Registered
    /\ Goto(h, "read")
    /\ missed' = missed \cup {victim[h]}
    /\ UNCHANGED <<tableVars, rowVars, eventVars, victims, victim, resume, boundVars>>

CancelRead(h) ==
    /\ hpc[h] = "read"
    /\ \/ victim[h] \in Live /\ Goto(h, "finish") /\ UNCHANGED <<callVars, boundVars>>
       \/ victim[h] \notin Live /\ Return(h) /\ UNCHANGED boundVars
       \/ StoreFault /\ Return(h)
    /\ UNCHANGED <<tableVars, rowVars, eventVars, victims>>

CancelFinish(h) ==
    /\ hpc[h] = "finish"
    /\ \/ MarkCancelled(victim[h]) /\ UNCHANGED boundVars
       \/ StoreFault /\ UNCHANGED tableVars
    /\ Return(h)
    /\ UNCHANGED <<rowVars, eventVars, victims>>

-----------------------------------------------------------------------------
Handle(h) ==
    \/ DeliveryCheck(h) \/ SuiteCheck(h) \/ ListSuperseded(h) \/ CancelSuperseded(h)
    \/ EnqueueEvent(h)
    \/ CancelRunning(h) \/ CancelNotRunning(h) \/ CancelRead(h) \/ CancelFinish(h)

Request(h) ==
    \/ \E e \in Events : Receive(h, e)
    \/ \E j \in Jobs : Rerun(h, j) \/ Cancel(h, j)

Runner == RunnerStep /\ UNCHANGED <<rowVars, handlerVars, boundVars>>

Next == Runner \/ \E h \in Handlers : Request(h) \/ Handle(h)

Spec == Init /\ [][Next]_vars

-----------------------------------------------------------------------------
(* Properties.                                                             *)

\* One was enqueued while the request of the other was handled.
Crossed(j, k) == <<j, k>> \in unseen \/ <<k, j>> \in unseen

\* One delivery id is held by one job at a time, so Redeliver during a run is a
\* no-op, whatever was cancelled or is unwinding, unless two requests crossed.
DeliveryIsHeldOnce ==
    storeFaults = 0 => \A j, k \in Live :
        origin[j].delivery = origin[k].delivery /\ origin[j].delivery # NoDelivery =>
            j = k \/ Crossed(j, k)

\* "One live run per commit" (api/webhook.go): GitHub asking again, for the same
\* branch or for another one, never adds a run to a commit that has one in
\* flight, whatever was re-run, cancelled or is unwinding, unless two requests crossed.
OneLiveRunPerCommit ==
    LET Asked == {j \in Live : origin[j].event = "requested"} IN
    storeFaults = 0 => \A j, k \in Asked :
        origin[j].sha = origin[k].sha => j = k \/ Crossed(j, k)

\* drain holds the row, or a goroutine builds it.
Building(j) == owner[j] \in {"claimed", "running"}

\* When a commit of a branch is enqueued, every run of another commit of the branch
\* that was there before the event has been told to stop, or its row is finished
\* and nothing builds it.  The exception is the job that CancelJob looked for in
\* Runner.running before startJob had put it there, which drain had claimed or
\* claimed before the row was rewritten: its row says cancelled, and it builds on.
SupersededRunsAreStopped ==
    \A h \in Handlers : hpc[h] = "enqueue" /\ ev[h].ref # "" /\ storeFaults = 0 =>
        \A j \in Rows \ late[h] : origin[j].ref = ev[h].ref /\ origin[j].sha # ev[h].sha =>
            signalled[j] \/ (j \notin Live /\ (Building(j) => j \in missed))

\* "One cancelled run and one fresh run - never two live ones" (api/webhook.go), when
\* a rerequest cancels the run in flight: no two goroutines that nobody told to stop
\* build one commit for GitHub, when requests come one at a time and no statement fails.
NeverTwoLiveRuns ==
    LET Builds(j) == /\ owner[j] = "running" /\ ~signalled[j]
                     /\ origin[j].event \in {"requested", "rerequested"} IN
    storeFaults = 0 /\ ~crossing => \A j, k \in Rows :
        Builds(j) /\ Builds(k) /\ origin[j].sha = origin[k].sha => j = k

\* A request is not answered before a row of its commit is there, its own or the
\* one that made the server say "already queued": what becomes of the row is
\* JobRunner's QueuedJobsEnd.
TakenEventsHaveARow ==
    [][\A h \in Handlers : ev[h] # NoEvent /\ ev'[h] = NoEvent /\ storeFaults' = 0 =>
            \E j \in Rows' : origin'[j].sha = ev[h].sha]_vars
=============================================================================
