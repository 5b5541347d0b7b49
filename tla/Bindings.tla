------------------------------ MODULE Bindings ------------------------------
(***************************************************************************)
(* The bindings, which are the allow-list: their forms, toggles and the    *)
(* repository picker (api/bindings.go, store/bindings.go), the lookup of a *)
(* delivery (api/webhook.go) and of the job it enqueues (queue/runner.go). *)
(*                                                                         *)
(* Every handler is a sequence of SQL statements; each is atomic, and      *)
(* those of two requests interleave.                                       *)
(***************************************************************************)
EXTENDS Integers

CONSTANTS
    Spellings,      \* what a binding or a payload calls a repository, in any case
    Repos, RepoOf,  \* the repositories, and which of them a spelling is
    Handlers,       \* request goroutines
    Jobs,
    MaxWrites       \* bound: writes to the table; none begins that can make no other

ASSUME SpellingsAssumption == RepoOf \in [Spellings -> Repos]
ASSUME BoundAssumption == MaxWrites \in Nat

VARIABLES
    rows,        \* repo_bindings of one App, by the repo column: UNIQUE (github_app_id, repo)
    nextId,      \* AUTOINCREMENT
    writes,      \* writes to the table
    jobs,        \* what a job keeps of its binding
    hpc, arg,    \* where each handler is, and what it holds
    edited,      \* history: the overrides last saved for each binding
    overlaps     \* history: bindings written by a request that had read an older row

history == <<edited, overlaps>>
table == <<rows, nextId, writes>>
vars == <<table, jobs, hpc, arg, history>>

(* A row.  overrides stands for the columns bindingInputFrom copies        *)
(* (branches, paths, check name, file, timeout, commands), by the number   *)
(* of the write that saved them; 0 is none.                                *)

NoRow == [id |-> 0, enabled |-> FALSE, overrides |-> 0]
Row == [id : Nat \ {0}, enabled : BOOLEAN, overrides : Nat]

Write == writes < MaxWrites /\ writes' = writes + 1

Bound(s) == rows[s] # NoRow

NoArg == [on |-> "nothing"]
NoJob == [state |-> "none"]

Init ==
    /\ rows = [s \in Spellings |-> NoRow]
    /\ nextId = 1
    /\ writes = 0
    /\ jobs = [j \in Jobs |-> NoJob]
    /\ hpc = [h \in Handlers |-> "idle"]
    /\ arg = [h \in Handlers |-> NoArg]
    /\ edited = [s \in Spellings |-> 0]
    /\ overlaps = {}

Begin(h, pc, a) ==
    /\ hpc[h] = "idle"
    /\ hpc' = [hpc EXCEPT ![h] = pc]
    /\ arg' = [arg EXCEPT ![h] = a]

Goto(h, pc, a) ==
    /\ hpc' = [hpc EXCEPT ![h] = pc]
    /\ arg' = [arg EXCEPT ![h] = a]

\* The handler has answered.
Answer(h) == Goto(h, "idle", NoArg)

\* A statement fails, or the job cannot be enqueued: the handler answers with an error.
StatementFails(h) ==
    /\ hpc[h] # "idle"
    /\ Answer(h)
    /\ UNCHANGED <<table, jobs, history>>

-----------------------------------------------------------------------------
(* The bindings' handlers.                                                 *)

\* Mutant: ids are taken again, as without AUTOINCREMENT.
UpsertReusing(s, enabled, overrides) ==
    LET ids == {rows[t].id : t \in Spellings}
        id == IF Bound(s) THEN rows[s].id ELSE 1 + CHOOSE i \in ids : \A k \in ids : k <= i
    IN
    /\ Write
    /\ rows' = [rows EXCEPT ![s] = [id |-> id, enabled |-> enabled, overrides |-> overrides]]
    /\ nextId' = IF Bound(s) THEN nextId ELSE nextId + 1

\* store.UpsertBinding: ON CONFLICT (github_app_id, repo) the row keeps its id.
Upsert(s, enabled, overrides) ==
    /\ Write
    /\ rows' = [rows EXCEPT ![s] =
          [id |-> IF Bound(s) THEN @.id ELSE nextId, enabled |-> enabled, overrides |-> overrides]]
    /\ nextId' = IF Bound(s) THEN nextId ELSE nextId + 1

\* DELETE FROM repo_bindings; jobs.binding_id is ON DELETE SET NULL.
Drop(s) ==
    /\ Write
    /\ rows' = [rows EXCEPT ![s] = NoRow]
    /\ edited' = [edited EXCEPT ![s] = 0]
    /\ overlaps' = overlaps \ {s}
    /\ jobs' = [j \in Jobs |-> IF jobs[j].state # "none" /\ jobs[j].binding = rows[s].id
                               THEN [jobs[j] EXCEPT !.binding = 0] ELSE jobs[j]]
    /\ UNCHANGED nextId

\* upsertBinding: the form carries every column.
EditBinding(s, enabled) ==
    /\ Upsert(s, enabled, writes + 1)
    /\ edited' = [edited EXCEPT ![s] = writes + 1]
    /\ overlaps' = overlaps \ {s}
    /\ UNCHANGED <<jobs, hpc, arg>>

DeleteBinding(s) ==
    /\ Bound(s)
    /\ Drop(s)
    /\ UNCHANGED <<hpc, arg>>

\* A write of a row that has changed, come or gone since the request read it.
Overlap(s, old) == overlaps' = IF rows[s] = old THEN overlaps ELSE overlaps \cup {s}

\* toggleBinding
ReadToggle(h, s) ==
    /\ Bound(s) /\ writes < MaxWrites
    /\ Begin(h, "toggle", [on |-> s, row |-> rows[s]])
    /\ UNCHANGED <<table, jobs, history>>

\* Mutant: the form's columns are not copied.
WriteToggleBare(h) ==
    LET s == arg[h].on IN
    /\ hpc[h] = "toggle"
    /\ Upsert(s, ~arg[h].row.enabled, 0)
    /\ Overlap(s, arg[h].row)
    /\ Answer(h)
    /\ UNCHANGED <<jobs, edited>>

WriteToggle(h) ==
    LET s == arg[h].on IN
    /\ hpc[h] = "toggle"
    /\ Upsert(s, ~arg[h].row.enabled, arg[h].row.overrides)
    /\ Overlap(s, arg[h].row)
    /\ Answer(h)
    /\ UNCHANGED <<jobs, edited>>

\* bulkBindings: the checked repositories, then those that no longer are.
ReadSelection(h, wanted) ==
    /\ writes < MaxWrites
    /\ Begin(h, "bulk", [on |-> "selection", have |-> rows, wanted |-> wanted, todo |-> wanted])
    /\ UNCHANGED <<table, jobs, history>>

Checked(h, s) ==
    LET had == arg[h].have[s] IN
    /\ hpc[h] = "bulk"
    /\ s \in arg[h].todo
    /\ Upsert(s, TRUE, had.overrides)
    /\ Overlap(s, had)
    /\ Goto(h, "bulk", [arg[h] EXCEPT !.todo = @ \ {s}])
    /\ UNCHANGED <<jobs, edited>>

\* DeleteBinding by the id that was read; ErrNotFound ends the request.
Unchecked(h, s) ==
    LET had == arg[h].have[s] IN
    /\ hpc[h] = "bulk"
    /\ arg[h].todo = {}
    /\ s \notin arg[h].wanted /\ had # NoRow
    /\ IF rows[s].id = had.id
       THEN /\ Drop(s)
            /\ Goto(h, "bulk", [arg[h] EXCEPT !.have[s] = NoRow])
       ELSE Answer(h) /\ UNCHANGED <<rows, nextId, writes, jobs, edited, overlaps>>

SelectionSaved(h) ==
    /\ hpc[h] = "bulk"
    /\ arg[h].todo = {}
    /\ \A s \in Spellings \ arg[h].wanted : arg[h].have[s] = NoRow
    /\ Answer(h)
    /\ UNCHANGED <<table, jobs, history>>

-----------------------------------------------------------------------------
(* A delivery: handleWebhook, from the settings to the enqueue.  Webhook   *)
(* models the runs it starts, stops and finds.                             *)

\* EnabledBinding: any enabled row whose repo is the payload's, in any case.
\* BranchAllowed may refuse it, or the commit may have a run.
Deliver(h, s) ==
    /\ \E j \in Jobs : jobs[j].state = "none"
    /\ \E t \in Spellings :
          /\ rows[t].enabled /\ RepoOf[t] = RepoOf[s]
          /\ Begin(h, "enqueue", [on |-> s, binding |-> rows[t].id])
    /\ UNCHANGED <<table, jobs, history>>

\* jobs.binding_id REFERENCES repo_bindings: a binding deleted since is an error.
Enqueue(h) ==
    /\ hpc[h] = "enqueue"
    /\ \E s \in Spellings : rows[s].id = arg[h].binding
    /\ \E j \in Jobs :
          /\ jobs[j].state = "none"
          /\ jobs' = [jobs EXCEPT ![j] =
                [state |-> "queued", repo |-> RepoOf[arg[h].on], binding |-> arg[h].binding,
                 under |-> {}]]
    /\ Answer(h)
    /\ UNCHANGED <<table, history>>

\* runJob reads the binding again; where it is gone, the defaults apply.
RunJob(j) ==
    /\ jobs[j].state = "queued"
    /\ jobs' = [jobs EXCEPT ![j].state = "ran",
                            ![j].under = {s \in Spellings : Bound(s) /\ rows[s].id = jobs[j].binding}]
    /\ UNCHANGED <<table, hpc, arg, history>>

-----------------------------------------------------------------------------
Request(h) ==
    \/ \E s \in Spellings : ReadToggle(h, s) \/ Deliver(h, s)
    \/ \E wanted \in SUBSET Spellings : ReadSelection(h, wanted)

Handle(h) ==
    \/ WriteToggle(h) \/ SelectionSaved(h) \/ Enqueue(h) \/ StatementFails(h)
    \/ \E s \in Spellings : Checked(h, s) \/ Unchecked(h, s)

Next ==
    \/ \E h \in Handlers : Request(h) \/ Handle(h)
    \/ \E s \in Spellings, enabled \in BOOLEAN : EditBinding(s, enabled)
    \/ \E s \in Spellings : DeleteBinding(s)
    \/ \E j \in Jobs : RunJob(j)

Spec == Init /\ [][Next]_vars

-----------------------------------------------------------------------------
(* Properties.                                                             *)

\* "Keep the existing overrides" (api/bindings.go): a toggle or a saved
\* selection leaves a binding the overrides its form last saved, unless the
\* binding changed after the request had read it.
OverridesAreKept ==
    \A s \in Spellings \ overlaps : rows[s].overrides = edited[s]

\* A job's binding is one of its own repository: while it waits through edits,
\* deletions and new bindings, the row it names is never another's.
JobsKeepTheirBinding ==
    \A j \in Jobs : jobs[j].state # "none" =>
        /\ jobs[j].binding # 0 =>
              \E s \in Spellings : rows[s].id = jobs[j].binding /\ RepoOf[s] = jobs[j].repo
        /\ jobs[j].state = "ran" => \A s \in jobs[j].under : RepoOf[s] = jobs[j].repo
=============================================================================
