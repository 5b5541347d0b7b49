---------------------------- MODULE ConsoleProofs ----------------------------
(***************************************************************************)
(* Bindings: however forms, toggles, selections, deliveries and jobs       *)
(* interleave, no job is run under the binding of another repository, and  *)
(* only a request that had read an older row changes a binding's overrides.*)
(*                                                                         *)
(* Vault: which secrets open, after any number of rotations, crashes and   *)
(* boots; that no save, test or rotation loses one; and whose credentials  *)
(* and team are used and shown, whichever requests and jobs interleave.    *)
(***************************************************************************)
EXTENDS Bindings, Vault, TLAPS

-----------------------------------------------------------------------------
(* The bindings.                                                           *)


\* The ids of the rows: never 0, never two alike, never one to come.
TableInv ==
    /\ nextId \in Nat \ {0}
    /\ rows = [s \in Spellings |-> rows[s]]
    /\ \A s \in Spellings : Bound(s) => rows[s].id \in 1 .. nextId - 1
    /\ \A s, t \in Spellings : Bound(s) /\ Bound(t) /\ rows[s].id = rows[t].id => s = t

\* An id that was taken for a repository names no other's row, now or later.
Names(number, repo) ==
    /\ number \in 1 .. nextId - 1
    /\ \A s \in Spellings : rows[s].id = number => RepoOf[s] = repo

Delivering(a) == a.on \in Spellings /\ Names(a.binding, RepoOf[a.on])

JobInv(job) ==
    /\ job = [state |-> job.state, repo |-> job.repo, binding |-> job.binding, under |-> job.under]
    /\ job.binding # 0 =>
          /\ Names(job.binding, job.repo)
          /\ \E s \in Spellings : rows[s].id = job.binding
    /\ job.state = "ran" => \A s \in job.under : RepoOf[s] = job.repo

IInv ==
    /\ TableInv
    /\ hpc = [h \in Handlers |-> hpc[h]]
    /\ arg = [h \in Handlers |-> arg[h]]
    /\ jobs = [j \in Jobs |-> jobs[j]]
    /\ \A h \in Handlers : hpc[h] = "toggle" => arg[h].on \in Spellings
    /\ \A h \in Handlers : hpc[h] = "enqueue" => Delivering(arg[h])
    /\ \A j \in Jobs : jobs[j].state # "none" => JobInv(jobs[j])

-----------------------------------------------------------------------------
\* The ids that are taken only grow in number.
LEMMA TakenStaysTaken ==
    ASSUME NEW m \in Nat, NEW n \in Nat, m <= n, NEW i \in 1 .. m - 1
    PROVE  i \in 1 .. n - 1
OBVIOUS

\* What a write of a row, new or known, leaves: every id that was taken names
\* the repository it named, and the rows keep their ids.
LEMMA UpsertKeepsNames ==
    ASSUME IInv, NEW s \in Spellings, NEW enabled, NEW overrides, Upsert(s, enabled, overrides)
    PROVE  /\ TableInv'
           /\ \A number, repo : Names(number, repo) => Names(number, repo)'
           /\ \A t \in Spellings : Bound(t) => rows'[t].id = rows[t].id
<1>. DEFINE number == IF Bound(s) THEN rows[s].id ELSE nextId
<1>1. /\ rows' = [rows EXCEPT ![s] = [id |-> number, enabled |-> enabled, overrides |-> overrides]]
      /\ nextId' = IF Bound(s) THEN nextId ELSE nextId + 1
  BY DEF Upsert
<1>0. nextId \in Nat /\ nextId' \in Nat /\ nextId <= nextId'
  BY <1>1 DEF IInv, TableInv
<1>2. /\ TableInv
      /\ nextId \in Nat \ {0} /\ nextId' \in Nat \ {0}
      /\ number \in 1 .. nextId' - 1
  BY <1>1 DEF IInv, TableInv
<1>3. rows'[s].id = number /\ \A t \in Spellings \ {s} : rows'[t] = rows[t]
  BY <1>1, <1>2 DEF TableInv
<1>4. rows' = [t \in Spellings |-> rows'[t]]
  BY <1>1, <1>2 DEF TableInv
<1>5. \A t \in Spellings : Bound(t) => rows'[t].id = rows[t].id
  BY <1>3
<1>6. \A t \in Spellings \ {s} : Bound(t) => rows[t].id # number
  BY <1>2 DEF TableInv
<1>7. \A t \in Spellings : Bound(t)' => rows'[t].id \in 1 .. nextId' - 1
  BY <1>0, <1>2, <1>3 DEF TableInv, Bound
<1>8. \A t, u \in Spellings : Bound(t)' /\ Bound(u)' /\ rows'[t].id = rows'[u].id => t = u
  <2>1. \A t \in Spellings \ {s} : Bound(t)' <=> Bound(t)
    BY <1>3 DEF Bound
  <2>. HIDE DEF number
  <2>. QED BY <1>2, <1>3, <1>6, <2>1 DEF TableInv
<1>9. ASSUME NEW i, NEW repo, Names(i, repo)
      PROVE  Names(i, repo)'
  <2>1. i \in 1 .. nextId - 1
    BY <1>9 DEF Names
  <2>2. i \in 1 .. nextId' - 1
    BY <1>0, <2>1, TakenStaysTaken
  <2>. HIDE DEF number
  <2>3. ASSUME NEW t \in Spellings, rows'[t].id = i
        PROVE  RepoOf[t] = repo
    <3>1. CASE t # s
      <4>1. rows[t].id = i
        BY <1>3, <2>3, <3>1
      <4>. QED BY <4>1, <1>9 DEF Names
    <3>2. CASE t = s
      <4>1. number = i /\ i # nextId
        BY <1>2, <1>3, <2>1, <2>3, <3>2
      <4>2. rows[s].id = i
        BY <4>1 DEF number
      <4>. QED BY <3>2, <4>2, <1>9 DEF Names
    <3>. QED BY <3>1, <3>2
  <2>. QED BY <2>2, <2>3 DEF Names
<1>. QED BY <1>2, <1>4, <1>5, <1>7, <1>8, <1>9 DEF TableInv

\* What a job holds survives such a write, and so does what a delivery holds.
LEMMA UpsertKeepsJobs ==
    ASSUME IInv, NEW s \in Spellings, NEW enabled, NEW overrides, Upsert(s, enabled, overrides)
    PROVE  /\ \A a : Delivering(a) => Delivering(a)'
           /\ \A j \in Jobs : jobs[j].state # "none" /\ jobs'[j] = jobs[j] => JobInv(jobs[j])'
<1>1. \A number, repo : Names(number, repo) => Names(number, repo)'
  BY UpsertKeepsNames
<1>2. \A t \in Spellings : Bound(t) => rows'[t].id = rows[t].id
  BY UpsertKeepsNames
<1>3. \A a : Delivering(a) => Delivering(a)'
  BY <1>1 DEF Delivering
<1>4. ASSUME NEW j \in Jobs, jobs[j].state # "none", jobs'[j] = jobs[j]
      PROVE  JobInv(jobs[j])'
  <2>1. JobInv(jobs[j])
    BY <1>4 DEF IInv
  <2>2. ASSUME NEW t \in Spellings, rows[t].id # 0
        PROVE  rows'[t].id = rows[t].id
    BY <1>2, <2>2 DEF Bound, NoRow
  <2>. QED BY <1>1, <1>4, <2>1, <2>2 DEF JobInv
<1>. QED BY <1>3, <1>4

\* A deleted row takes its id along, and the jobs that named it name none.
LEMMA DropKeepsAll ==
    ASSUME IInv, NEW s \in Spellings, Drop(s)
    PROVE  /\ TableInv'
           /\ \A a : Delivering(a) => Delivering(a)'
           /\ jobs' = [j \in Jobs |-> jobs'[j]]
           /\ \A j \in Jobs : jobs'[j].state # "none" => JobInv(jobs[j])'
<1>1. /\ rows' = [rows EXCEPT ![s] = NoRow]
      /\ nextId' = nextId
      /\ jobs' = [j \in Jobs |-> IF jobs[j].state # "none" /\ jobs[j].binding = rows[s].id
                                 THEN [jobs[j] EXCEPT !.binding = 0] ELSE jobs[j]]
  BY DEF Drop
<1>2. TableInv
  BY DEF IInv
<1>3. rows'[s] = NoRow /\ \A t \in Spellings \ {s} : rows'[t] = rows[t]
  BY <1>1, <1>2 DEF TableInv
<1>4. TableInv'
  BY <1>1, <1>2, <1>3 DEF TableInv, Bound
<1>5. ASSUME NEW number, NEW repo, Names(number, repo)
      PROVE  Names(number, repo)'
  BY <1>1, <1>2, <1>3, <1>5 DEF Names, NoRow, TableInv
<1>6. \A a : Delivering(a) => Delivering(a)'
  BY <1>5 DEF Delivering
<1>7. ASSUME NEW j \in Jobs, jobs'[j].state # "none"
      PROVE  JobInv(jobs[j])'
  <2>1. CASE jobs[j].state # "none" /\ jobs[j].binding = rows[s].id
    <3>1. jobs'[j] = [jobs[j] EXCEPT !.binding = 0] /\ JobInv(jobs[j])
      BY <1>1, <2>1 DEF IInv
    <3>2. jobs'[j] = [state |-> jobs[j].state, repo |-> jobs[j].repo, binding |-> 0,
                      under |-> jobs[j].under]
      BY <3>1 DEF JobInv
    <3>. QED BY <3>1, <3>2 DEF JobInv
  <2>2. CASE ~(jobs[j].state # "none" /\ jobs[j].binding = rows[s].id)
    <3>1. jobs'[j] = jobs[j] /\ jobs[j].state # "none" /\ JobInv(jobs[j])
      BY <1>1, <1>7, <2>2 DEF IInv
    <3>2. jobs[j].binding # 0 => \E t \in Spellings : rows'[t].id = jobs[j].binding
      BY <1>3, <2>2, <3>1 DEF JobInv
    <3>. QED BY <1>5, <3>1, <3>2 DEF JobInv
  <2>. QED BY <2>1, <2>2
<1>. QED BY <1>1, <1>4, <1>6, <1>7
\* A step that leaves the table alone leaves all that is said of it.
LEMMA TableAlone ==
    ASSUME UNCHANGED <<rows, nextId>>
    PROVE  /\ TableInv => TableInv'
           /\ \A a : Delivering(a) => Delivering(a)'
           /\ \A job : JobInv(job) => JobInv(job)'
<1>1. TableInv => TableInv'
  BY DEF TableInv, Bound
<1>2. \A number, repo : Names(number, repo) => Names(number, repo)'
  BY DEF Names
<1>3. \A a : Delivering(a) => Delivering(a)'
  BY <1>2 DEF Delivering
<1>4. \A job : JobInv(job) => JobInv(job)'
  BY <1>2 DEF JobInv
<1>. QED BY <1>1, <1>3, <1>4

-----------------------------------------------------------------------------
LEMMA InitIInv == Init => IInv
BY DEF Init, IInv, TableInv, Bound, NoArg, NoJob

LEMMA StepIInv == IInv /\ [Next]_vars => IInv'
<1>. SUFFICES ASSUME IInv, [Next]_vars PROVE IInv'
  OBVIOUS
<1>1. ASSUME NEW h \in Handlers, NEW s \in Spellings, ReadToggle(h, s) PROVE IInv'
  BY <1>1, TableAlone DEF ReadToggle, Begin, table, IInv
<1>2. ASSUME NEW h \in Handlers, NEW s \in Spellings, Deliver(h, s) PROVE IInv'
  <2>1. PICK t \in Spellings :
            /\ rows[t].enabled /\ RepoOf[t] = RepoOf[s]
            /\ Begin(h, "enqueue", [on |-> s, binding |-> rows[t].id])
    BY <1>2 DEF Deliver
  <2>2. Bound(t)
    BY <2>1 DEF Bound, NoRow
  <2>3. Names(rows[t].id, RepoOf[s])
    BY <2>1, <2>2 DEF IInv, TableInv, Names, Bound, NoRow
  <2>4. Delivering([on |-> s, binding |-> rows[t].id])
    BY <2>3 DEF Delivering
  <2>. QED BY <1>2, <2>1, <2>4, TableAlone DEF Deliver, Begin, table, IInv
<1>3. ASSUME NEW h \in Handlers, NEW wanted, ReadSelection(h, wanted) PROVE IInv'
  BY <1>3, TableAlone DEF ReadSelection, Begin, table, IInv
<1>4. ASSUME NEW h \in Handlers, WriteToggle(h) PROVE IInv'
  <2>1. arg[h].on \in Spellings
    BY <1>4 DEF WriteToggle, IInv
  <2>2. Upsert(arg[h].on, ~arg[h].row.enabled, arg[h].row.overrides)
    BY <1>4 DEF WriteToggle
  <2>. QED BY <1>4, <2>1, <2>2, UpsertKeepsNames, UpsertKeepsJobs
           DEF WriteToggle, Answer, Goto, IInv
<1>5. ASSUME NEW h \in Handlers, NEW s \in Spellings, Checked(h, s) PROVE IInv'
  <2>1. Upsert(s, TRUE, arg[h].have[s].overrides)
    BY <1>5 DEF Checked
  <2>. QED BY <1>5, <2>1, UpsertKeepsNames, UpsertKeepsJobs DEF Checked, Goto, IInv
<1>6. ASSUME NEW h \in Handlers, NEW s \in Spellings, Unchecked(h, s) PROVE IInv'
  <2>1. CASE rows[s].id = arg[h].have[s].id
    <3>1. Drop(s) /\ hpc' = [hpc EXCEPT ![h] = "bulk"]
      BY <1>6, <2>1 DEF Unchecked, Goto
    <3>. QED BY <1>6, <2>1, <3>1, DropKeepsAll DEF Unchecked, Goto, IInv
  <2>2. CASE rows[s].id # arg[h].have[s].id
    BY <1>6, <2>2, TableAlone DEF Unchecked, Answer, Goto, IInv
  <2>. QED BY <2>1, <2>2
<1>7. ASSUME NEW h \in Handlers, SelectionSaved(h) PROVE IInv'
  BY <1>7, TableAlone DEF SelectionSaved, Answer, Goto, table, IInv
<1>8. ASSUME NEW h \in Handlers, StatementFails(h) PROVE IInv'
  BY <1>8, TableAlone DEF StatementFails, Answer, Goto, table, IInv
<1>9. ASSUME NEW h \in Handlers, Enqueue(h) PROVE IInv'
  <2>1. PICK j \in Jobs :
          jobs' = [jobs EXCEPT ![j] =
                [state |-> "queued", repo |-> RepoOf[arg[h].on], binding |-> arg[h].binding,
                 under |-> {}]]
    BY <1>9 DEF Enqueue
  <2>2. Delivering(arg[h]) /\ \E s \in Spellings : rows[s].id = arg[h].binding
    BY <1>9 DEF Enqueue, IInv
  <2>3. JobInv(jobs'[j])
    BY <2>1, <2>2 DEF JobInv, Delivering, IInv
  <2>4. jobs' = [k \in Jobs |-> jobs'[k]] /\ \A k \in Jobs \ {j} : jobs'[k] = jobs[k]
    BY <2>1 DEF IInv
  <2>5. \A k \in Jobs : jobs'[k].state # "none" => JobInv(jobs'[k])
    BY <2>3, <2>4 DEF IInv
  <2>. QED BY <1>9, <2>4, <2>5, TableAlone DEF Enqueue, Answer, Goto, table, IInv
<1>10. ASSUME NEW s \in Spellings, NEW enabled \in BOOLEAN, EditBinding(s, enabled) PROVE IInv'
  <2>1. Upsert(s, enabled, writes + 1)
    BY <1>10 DEF EditBinding
  <2>. QED BY <1>10, <2>1, UpsertKeepsNames, UpsertKeepsJobs DEF EditBinding, IInv
<1>11. ASSUME NEW s \in Spellings, DeleteBinding(s) PROVE IInv'
  BY <1>11, DropKeepsAll DEF DeleteBinding, IInv
<1>12. ASSUME NEW j \in Jobs, RunJob(j) PROVE IInv'
  <2>. DEFINE under == {s \in Spellings : Bound(s) /\ rows[s].id = jobs[j].binding}
  <2>1. JobInv(jobs[j])
    BY <1>12 DEF RunJob, IInv
  <2>2. jobs' = [jobs EXCEPT ![j] = [@ EXCEPT !.state = "ran", !.under = under]]
    BY <1>12 DEF RunJob, IInv
  <2>3. jobs'[j] = [state |-> "ran", repo |-> jobs[j].repo, binding |-> jobs[j].binding,
                    under |-> under]
    BY <2>1, <2>2 DEF JobInv, IInv
  <2>4. \A s \in under : RepoOf[s] = jobs[j].repo
    BY <2>1 DEF JobInv, Names, IInv, TableInv
  <2>. HIDE DEF under
  <2>5. JobInv(jobs'[j])
    BY <2>1, <2>3, <2>4 DEF JobInv
  <2>6. jobs' = [k \in Jobs |-> jobs'[k]] /\ \A k \in Jobs \ {j} : jobs'[k] = jobs[k]
    BY <2>2 DEF IInv
  <2>7. \A k \in Jobs : jobs'[k].state # "none" => JobInv(jobs'[k])
    BY <2>5, <2>6 DEF IInv
  <2>. QED BY <1>12, <2>6, <2>7, TableAlone DEF RunJob, table, IInv
<1>13. CASE UNCHANGED vars
  BY <1>13, TableAlone DEF vars, table, IInv
<1>. QED BY <1>1, <1>2, <1>3, <1>4, <1>5, <1>6, <1>7, <1>8, <1>9, <1>10, <1>11, <1>12, <1>13
         DEF Next, Request, Handle

LEMMA SpecIInv == Spec => []IInv
BY InitIInv, StepIInv, PTL DEF Spec

-----------------------------------------------------------------------------
(* The theorems.                                                           *)

\* The row a job names is one of its own repository, and so is the one it ran
\* under: an id that was taken is not taken again.
THEOREM JobsAlwaysKeepTheirBinding == Spec => []JobsKeepTheirBinding
<1>1. IInv => JobsKeepTheirBinding
  BY DEF IInv, JobInv, Names, JobsKeepTheirBinding
<1>. QED BY <1>1, SpecIInv, PTL

\* A toggle or a selection saved over the row it read keeps its overrides.
THEOREM OverridesAreAlwaysKept == Spec => []OverridesAreKept
<1>. DEFINE Kept == /\ edited = [s \in Spellings |-> edited[s]]
                    /\ OverridesAreKept
<1>1. Init => Kept
  BY DEF Init, NoRow, OverridesAreKept
<1>2. IInv /\ Kept /\ [Next]_vars => Kept'
  <2>. SUFFICES ASSUME IInv, Kept, [Next]_vars PROVE Kept'
    OBVIOUS
  <2>1. rows = [s \in Spellings |-> rows[s]]
    BY DEF IInv, TableInv
  <2>2. ASSUME NEW h \in Handlers, Request(h) PROVE Kept'
    BY <2>2 DEF Request, ReadToggle, Deliver, ReadSelection, table, history, OverridesAreKept
  <2>3. ASSUME NEW h \in Handlers, WriteToggle(h) PROVE Kept'
    BY <2>1, <2>3 DEF WriteToggle, Upsert, Overlap, OverridesAreKept, IInv
  <2>4. ASSUME NEW h \in Handlers, NEW s \in Spellings, Checked(h, s) PROVE Kept'
    BY <2>1, <2>4 DEF Checked, Upsert, Overlap, OverridesAreKept
  <2>5. ASSUME NEW s \in Spellings, Drop(s) PROVE Kept'
    BY <2>1, <2>5 DEF Drop, NoRow, OverridesAreKept
  <2>6. ASSUME NEW h \in Handlers, NEW s \in Spellings, Unchecked(h, s) PROVE Kept'
    BY <2>5, <2>6 DEF Unchecked, OverridesAreKept
  <2>7. ASSUME NEW h \in Handlers, SelectionSaved(h) \/ Enqueue(h) \/ StatementFails(h)
        PROVE  Kept'
    BY <2>7 DEF SelectionSaved, Enqueue, StatementFails, table, history, OverridesAreKept
  <2>8. ASSUME NEW s \in Spellings, NEW enabled \in BOOLEAN, EditBinding(s, enabled) PROVE Kept'
    BY <2>1, <2>8 DEF EditBinding, Upsert, OverridesAreKept
  <2>9. ASSUME NEW s \in Spellings, DeleteBinding(s) PROVE Kept'
    BY <2>5, <2>9 DEF DeleteBinding
  <2>10. ASSUME NEW j \in Jobs, RunJob(j) PROVE Kept'
    BY <2>10 DEF RunJob, table, history, OverridesAreKept
  <2>11. CASE UNCHANGED vars
    BY <2>11 DEF vars, table, history, OverridesAreKept
  <2>. QED BY <2>2, <2>3, <2>4, <2>6, <2>7, <2>8, <2>9, <2>10, <2>11 DEF Next, Handle
<1>3. Spec => []Kept
  BY <1>1, <1>2, SpecIInv, PTL DEF Spec
<1>4. Kept => OverridesAreKept
  OBVIOUS
<1>. QED BY <1>3, <1>4, PTL

-----------------------------------------------------------------------------
(* The vault.                                                              *)


-----------------------------------------------------------------------------
(* Types.                                                                  *)

LEMMA BlankIsARow == Blank \in AppRows /\ Blank.sealed \in Seals /\ Nobody \in Credentials
  BY DEF Blank, AppRows, Seals, Credentials, Empty, Nobody, Columns

LEMMA ReadsOfARow ==
    ASSUME NEW rec \in AppRows
    PROVE  /\ SecretsOf(rec) \in [sealed : Seals, host : Nat, team : Credentials, overtaken : BOOLEAN]
           /\ Creds(rec) \in Credentials
           /\ Version(rec) \in [stamp : Int, host : Nat]
  BY DEF AppRows, SecretsOf, Creds, Version, Credentials, Seals, Columns

LEMMA SealsAreSeals ==
    ASSUME NEW k \in Keys \cup {NoKey}, NEW text \in Nat
    PROVE  /\ Seal(k, text) \in [key : Keys \cup {NoKey}, text : Nat]
           /\ Seal(k, text).text = text
           /\ text # 0 => Seal(k, text).key = k
           /\ Opens(k, Seal(k, text))
  BY DEF Seal, Opens, Empty

LEMMA RecordedIsARow ==
    ASSUME NEW rec \in AppRows, NEW ms \in Nat, NEW team \in Credentials, NEW overtaken \in BOOLEAN
    PROVE  [rec EXCEPT !.stamp = ms, !.team = team, !.overtaken = overtaken] \in AppRows
  BY DEF AppRows

LEMMA NoSecretsIsARead ==
    NoSecrets \in [sealed : Seals, host : Nat, team : Credentials, overtaken : BOOLEAN]
  BY BlankIsARow DEF NoSecrets

LEMMA InitType == VaultInit => TypeOK
  BY BlankIsARow, NoSecretsIsARead
  DEF VaultInit, TypeOK, DatabaseTypeOK, ProcessTypeOK, RequestsTypeOK, WorkersTypeOK, PastTypeOK, AtWork,
      NoForm, Nobody, Credentials, NoClient, NoVersion, Columns

\* A row that is written is a row.
LEMMA NewRowIsARow ==
    ASSUME TypeOK, NEW h \in Requests, id[h] \in Ids, NEW ms \in Nat
    PROVE  /\ NewSealed(h) \in Seals /\ NewHost(h) \in Nat
           /\ NewRow(h, ms) \in AppRows
<1>1. /\ row[id[h]] \in AppRows /\ saves + 1 \in Nat /\ key \in Keys \cup {NoKey}
      /\ second[h] \in [sealed : Seals, host : Nat, team : Credentials, overtaken : BOOLEAN]
      /\ first[h] \in Nat
  BY DEF TypeOK, DatabaseTypeOK, ProcessTypeOK, RequestsTypeOK
<1>2. NewSealed(h) \in Seals
  BY <1>1, SealsAreSeals DEF NewSealed, Seals
<1>3. NewHost(h) \in Nat
  BY <1>1 DEF NewHost
<1>4. ForgetsTeam(h) \in BOOLEAN
  BY DEF ForgetsTeam
<1>5. (IF ForgetsTeam(h) THEN Nobody ELSE second[h].team) \in Credentials
  BY <1>1, BlankIsARow
<1>6. (~ForgetsTeam(h) /\ second[h].overtaken) \in BOOLEAN
  OBVIOUS
<1> QED
  BY <1>1, <1>2, <1>3, <1>5, <1>6 DEF NewRow, AppRows

LEMMA ProcessType == TypeOK /\ Process => TypeOK'
<1> SUFFICES ASSUME TypeOK, Process PROVE TypeOK'
  OBVIOUS
<1> USE DEF TypeOK, DatabaseTypeOK, ProcessTypeOK, RequestsTypeOK, WorkersTypeOK, PastTypeOK, AtWork,
            database, requests, workers, past
<1>1. ASSUME NEW k \in Keys, NEW o \in Keys \cup {NoKey}, Boot(k, o) PROVE TypeOK'
  BY <1>1 DEF Boot
<1>2. ASSUME NEW r \in Ids, RotateRow(r) PROVE TypeOK'
  <2>1. row[r] \in AppRows /\ key \in Keys \cup {NoKey}
    OBVIOUS
  <2>2. [c \in Columns |-> Seal(key, row[r].sealed[c].text)] \in Seals
    BY <2>1, SealsAreSeals DEF AppRows, Seals
  <2>3. row' = [row EXCEPT ![r] = [@ EXCEPT !.sealed = [c \in Columns |-> Seal(key, row[r].sealed[c].text)]]]
    BY <1>2 DEF RotateRow
  <2>4. row' \in [Ids -> AppRows]
    BY <2>1, <2>2, <2>3 DEF AppRows
  <2> QED
    BY <1>2, <2>4 DEF RotateRow
<1>3. ASSUME NEW r \in Ids, RotateRefuses(r) PROVE TypeOK'
  BY <1>3 DEF RotateRefuses
<1>4. CASE RotateDone
  BY <1>4 DEF RotateDone
<1>5. CASE Crash
  BY <1>5, BlankIsARow, NoSecretsIsARead
  DEF Crash, NoForm, Nobody, Credentials, NoClient, NoVersion, Columns
<1> QED
  BY <1>1, <1>2, <1>3, <1>4, <1>5 DEF Process

LEMMA AskType ==
    ASSUME TypeOK, NEW h \in Requests, Ask(h)
    PROVE  TypeOK'
<1> USE DEF TypeOK, database, process, requests, workers, past, Free, RoomForOne, Move, Take
<1>1. ASSUME NEW r \in Ids, Create(h, r) PROVE TypeOK'
  <2>1. [c \in Columns |-> Seal(key, IF c \in ColumnsOf(r) THEN saves + 1 ELSE 0)] \in Seals
    <3>1. ASSUME NEW c \in Columns
          PROVE  Seal(key, IF c \in ColumnsOf(r) THEN saves + 1 ELSE 0)
                     \in [key : Keys \cup {NoKey}, text : Nat]
      <4> DEFINE text == IF c \in ColumnsOf(r) THEN saves + 1 ELSE 0
      <4>1. text \in Nat /\ key \in Keys \cup {NoKey}
        BY DEF DatabaseTypeOK, ProcessTypeOK
      <4> HIDE DEF text
      <4>2. Seal(key, text) \in [key : Keys \cup {NoKey}, text : Nat]
        BY <4>1, SealsAreSeals
      <4> QED
        BY <4>2 DEF text
    <3> QED
      BY <3>1 DEF Seals
  <2> DEFINE sealed == [c \in Columns |-> Seal(key, IF c \in ColumnsOf(r) THEN saves + 1 ELSE 0)]
             created == [Blank EXCEPT !.state = "there", !.host = saves + 1, !.sealed = sealed]
  <2>7. saves + 1 \in Nat
    BY DEF DatabaseTypeOK
  <2>8. row' = [row EXCEPT ![r] = created] /\ saves' = saves + 1
    BY <1>1 DEF Create
  <2> HIDE DEF sealed
  <2>9. created \in AppRows
    BY <2>1, <2>7, BlankIsARow DEF sealed, AppRows, Blank
  <2> HIDE DEF created
  <2>2. DatabaseTypeOK'
    BY <2>7, <2>8, <2>9 DEF DatabaseTypeOK
  <2>3. ProcessTypeOK' /\ WorkersTypeOK'
    BY <1>1 DEF Create, ProcessTypeOK, WorkersTypeOK
  <2>4. RequestsTypeOK'
    BY <1>1 DEF Create, RequestsTypeOK
  <2>5. PastTypeOK'
    BY <1>1 DEF Create, PastTypeOK, DatabaseTypeOK
  <2>6. AtWork'
    BY <1>1 DEF Create, AtWork, RequestsTypeOK
  <2> QED
    BY <2>2, <2>3, <2>4, <2>5, <2>6
<1>2. ASSUME NEW r \in Ids, Delete(h, r) PROVE TypeOK'
  <2>1. DatabaseTypeOK'
    BY <1>2, BlankIsARow DEF Delete, DatabaseTypeOK, AppRows, Blank
  <2>2. ProcessTypeOK' /\ WorkersTypeOK'
    BY <1>2 DEF Delete, ProcessTypeOK, WorkersTypeOK
  <2>3. RequestsTypeOK' /\ PastTypeOK'
    BY <1>2 DEF Delete, RequestsTypeOK, PastTypeOK
  <2>4. AtWork'
    BY <1>2 DEF Delete, AtWork, RequestsTypeOK
  <2> QED
    BY <2>1, <2>2, <2>3, <2>4
<1>3. ASSUME NEW r \in Ids, StartTest(h, r) PROVE TypeOK'
  <2>1. DatabaseTypeOK' /\ ProcessTypeOK' /\ WorkersTypeOK' /\ PastTypeOK'
    BY <1>3 DEF StartTest, DatabaseTypeOK, ProcessTypeOK, WorkersTypeOK, PastTypeOK
  <2>2. RequestsTypeOK' /\ AtWork'
    BY <1>3 DEF StartTest, AtWork, RequestsTypeOK
  <2> QED
    BY <2>1, <2>2
<1>4. ASSUME NEW r \in Ids, NEW f \in Forms, ReadForForm(h, r, f) PROVE TypeOK'
  <2>1. DatabaseTypeOK' /\ ProcessTypeOK' /\ WorkersTypeOK' /\ PastTypeOK'
    BY <1>4 DEF ReadForForm, DatabaseTypeOK, ProcessTypeOK, WorkersTypeOK, PastTypeOK
  <2>2. RequestsTypeOK'
    BY <1>4 DEF ReadForForm, Forms, AppRows, RequestsTypeOK, DatabaseTypeOK
  <2>3. AtWork'
    BY <1>4 DEF ReadForForm, AtWork, RequestsTypeOK
  <2> QED
    BY <2>1, <2>2, <2>3
<1> QED
  BY <1>1, <1>2, <1>3, <1>4 DEF Ask

LEMMA WriteType ==
    ASSUME TypeOK, NEW h \in Requests, WriteForm(h)
    PROVE  TypeOK'
<1>1. id[h] \in Ids /\ rpc[h] = "write" /\ proc = "serving"
  BY DEF WriteForm, TypeOK, AtWork
<1>2. PICK ms \in Milliseconds(id[h]) :
          /\ row' = [row EXCEPT ![id[h]] = NewRow(h, ms)]
          /\ sameMs' = IF row[id[h]].stamp = ms THEN sameMs \cup {id[h]} ELSE sameMs
  BY DEF WriteForm
<1>3. ms \in Nat
  BY VaultBoundsAssumption DEF Milliseconds, TypeOK, DatabaseTypeOK, AppRows
<1>4. DatabaseTypeOK'
  BY <1>1, <1>2, <1>3, NewRowIsARow DEF WriteForm, TypeOK, DatabaseTypeOK
<1>5. PastTypeOK'
  BY <1>1, <1>2 DEF WriteForm, TypeOK, PastTypeOK, DatabaseTypeOK
<1>6. UNCHANGED <<process, workers>>
  BY DEF WriteForm
<1>7. ProcessTypeOK' /\ WorkersTypeOK'
  BY <1>6 DEF process, workers, TypeOK, ProcessTypeOK, WorkersTypeOK
<1>8. \/ id[h] \in Apps /\ Move(h, "drop") /\ UNCHANGED <<id, form, first, second>>
      \/ Reply(h)
  BY DEF WriteForm
<1>9. RequestsTypeOK'
  <2>1. CASE Reply(h)
    BY <2>1, NoSecretsIsARead DEF Move, Reply, NoForm, TypeOK, RequestsTypeOK
  <2>2. CASE id[h] \in Apps /\ Move(h, "drop") /\ UNCHANGED <<id, form, first, second>>
    BY <2>2 DEF Move, TypeOK, RequestsTypeOK
  <2> QED
    BY <1>8, <2>1, <2>2
<1>10. AtWork'
  <2>1. proc' = "serving" /\ UNCHANGED <<wpc, appOf>>
    BY <1>1, <1>6 DEF process, workers
  <2>2. CASE Reply(h)
    BY <1>1, <2>1, <2>2 DEF Move, Reply, NoForm, TypeOK, AtWork, RequestsTypeOK
  <2>3. CASE id[h] \in Apps /\ Move(h, "drop") /\ UNCHANGED <<id, form, first, second>>
    BY <1>1, <2>1, <2>3 DEF Move, TypeOK, AtWork, RequestsTypeOK
  <2> QED
    BY <1>8, <2>2, <2>3
<1> QED
  BY <1>4, <1>5, <1>7, <1>9, <1>10 DEF TypeOK

LEMMA ServeType ==
    ASSUME TypeOK, NEW h \in Requests, Serve(h)
    PROVE  TypeOK'
<1> USE NoSecretsIsARead
    DEF TypeOK, DatabaseTypeOK, ProcessTypeOK, RequestsTypeOK, WorkersTypeOK, PastTypeOK, AtWork,
        database, process, requests, workers, past, Move, Reply, NoForm
<1>1. CASE SaveFails(h)
  BY <1>1 DEF SaveFails
<1>2. CASE RowIsGone(h)
  BY <1>2 DEF RowIsGone
<1>3. CASE ReadForSecrets(h)
  BY <1>3, ReadsOfARow DEF ReadForSecrets
<1>4. CASE WriteForm(h)
  BY <1>4, WriteType
<1>5. CASE DropClient(h)
  <2>1. NoClient \in [version : [stamp : Int, host : Nat], creds : Credentials]
    BY BlankIsARow DEF NoClient, NoVersion
  <2> QED
    BY <1>5, <2>1 DEF DropClient
<1>6. CASE ReadForTest(h)
  BY <1>6, ReadsOfARow DEF ReadForTest
<1>7. CASE RecordTest(h)
  <2>1. rpc[h] # "idle" /\ id[h] \in Ids
    BY <1>7 DEF RecordTest
  <2>2. ASSUME NEW ms \in Milliseconds(id[h]), NEW team \in {Creds(second[h]), Nobody}
        PROVE  [row EXCEPT ![id[h]].stamp = ms, ![id[h]].team = team,
                           ![id[h]].overtaken = (team # Nobody /\ Creds(row[id[h]]) # Creds(second[h]))]
                   \in [Ids -> AppRows]
    <3>1. ms \in Nat
      BY VaultBoundsAssumption DEF Milliseconds
    <3>2. Creds(second[h]) \in Credentials /\ Nobody \in Credentials
      BY BlankIsARow DEF Creds, Credentials, Seals, Columns
    <3> DEFINE overtaken == team # Nobody /\ Creds(row[id[h]]) # Creds(second[h])
    <3>3. overtaken \in BOOLEAN
      OBVIOUS
    <3> HIDE DEF overtaken
    <3>4. row[id[h]] \in AppRows /\ team \in Credentials
      BY <2>1, <3>2
    <3>5. [row[id[h]] EXCEPT !.stamp = ms, !.team = team, !.overtaken = overtaken] \in AppRows
      <4> HIDE DEF TypeOK, AppRows
      <4> QED
        BY ONLY <3>1, <3>3, <3>4, RecordedIsARow
    <3>6. [row EXCEPT ![id[h]] = [row[id[h]] EXCEPT !.stamp = ms, !.team = team, !.overtaken = overtaken]]
              \in [Ids -> AppRows]
      BY <2>1, <3>5
    <3> QED
      BY <3>6 DEF overtaken
  <2>3. row' \in [Ids -> AppRows]
    <3>1. CASE There(id[h])
      <4>1. PICK ms \in Milliseconds(id[h]), team \in {Creds(second[h]), Nobody} :
                row' = [row EXCEPT ![id[h]].stamp = ms, ![id[h]].team = team,
                           ![id[h]].overtaken = (team # Nobody /\ Creds(row[id[h]]) # Creds(second[h]))]
        BY <1>7, <3>1 DEF RecordTest
      <4> QED
        BY <2>2, <4>1
    <3>2. CASE ~There(id[h])
      BY <1>7, <3>2 DEF RecordTest
    <3> QED
      BY <3>1, <3>2
  <2> HIDE DEF DatabaseTypeOK
  <2>4. DatabaseTypeOK'
    BY <1>7, <2>3 DEF RecordTest, DatabaseTypeOK
  <2>5. ProcessTypeOK' /\ WorkersTypeOK' /\ PastTypeOK'
    BY <1>7 DEF RecordTest
  <2>6. RequestsTypeOK' /\ AtWork'
    BY <1>7, <2>1 DEF RecordTest
  <2> QED
    BY <2>4, <2>5, <2>6
<1> QED
  BY <1>1, <1>2, <1>3, <1>4, <1>5, <1>6, <1>7 DEF Serve

LEMMA WorkType ==
    ASSUME TypeOK, NEW w \in Workers, Work(w)
    PROVE  TypeOK'
<1> USE DEF TypeOK, DatabaseTypeOK, ProcessTypeOK, RequestsTypeOK, WorkersTypeOK, PastTypeOK, AtWork,
            database, process, requests, workers, past, Step, Leave, RoomForOne
<1>1. ASSUME NEW a \in Apps, ReadApp(w, a) PROVE TypeOK'
  BY <1>1 DEF ReadApp, Ids
<1>2. CASE CacheHit(w)
  BY <1>2 DEF CacheHit
<1>3. CASE CacheMiss(w)
  <2>1. Creds(seen[w]) \in Credentials
    BY ReadsOfARow
  <2>2. CASE Opens(key, seen[w].sealed["secret"])
    BY <1>3, <2>1, <2>2 DEF CacheMiss
  <2>3. CASE ~Opens(key, seen[w].sealed["secret"])
    <3>1. WorkersTypeOK'
      BY <1>3, <2>3, BlankIsARow DEF CacheMiss
    <3>2. DatabaseTypeOK' /\ ProcessTypeOK' /\ RequestsTypeOK' /\ PastTypeOK' /\ AtWork'
      BY <1>3, <2>3 DEF CacheMiss
    <3> QED
      BY <3>1, <3>2
  <2> QED
    BY <2>2, <2>3
<1>4. CASE CacheStore(w)
  BY <1>4, ReadsOfARow DEF CacheStore
<1>5. CASE JobEnds(w)
  BY <1>5, BlankIsARow DEF JobEnds
<1> QED
  BY <1>1, <1>2, <1>3, <1>4, <1>5 DEF Work

LEMMA StepType == TypeOK /\ [VaultNext]_vaultVars => TypeOK'
<1> SUFFICES ASSUME TypeOK, [VaultNext]_vaultVars PROVE TypeOK'
  OBVIOUS
<1>1. CASE UNCHANGED vaultVars
  BY <1>1 DEF vaultVars, database, process, requests, workers, past, TypeOK, DatabaseTypeOK,
              ProcessTypeOK, RequestsTypeOK, WorkersTypeOK, PastTypeOK, AtWork
<1> QED
  BY <1>1, ProcessType, AskType, ServeType, WorkType DEF VaultNext

\* Every variable keeps to its type, and nothing works while the process is down.
THEOREM TypeCorrect == VaultSpec => []TypeOK
  BY InitType, StepType, PTL DEF VaultSpec

-----------------------------------------------------------------------------
(* The inductive invariants.                                               *)

\* A sealed text is under a key the boots know of; after a rotation, under the new one.
Held(sealed) ==
    \A c \in Columns :
        /\ sealed[c].text # 0 => sealed[c].key \in mayHold
        /\ proc = "serving" /\ old # NoKey => Opens(key, sealed[c])

\* The rows, and what a request has read of them, hold such texts; a rotation that
\* is not done has left them under the new key in the rows it has come to.
KeysInv ==
    /\ \A r \in Ids : Held(row[r].sealed)
    /\ \A h \in Requests : Held(second[h].sealed)
    /\ \A r \in Ids : ~There(r) => row[r].sealed = Blank.sealed
    /\ proc # "serving" => \A h \in Requests : second[h].sealed = NoSecrets.sealed
    /\ trusted => mayHold \subseteq {key, old}
    /\ proc \in {"rotating", "serving"} => key \in mayHold
    /\ proc = "rotating" => \A r \in Ids \ todo, c \in Columns : Opens(key, row[r].sealed[c])
    /\ TrustedBootsServe

TeamIsOfTheToken(rec) == rec.team # Nobody /\ ~rec.overtaken => rec.team = Creds(rec)

TeamsInv ==
    /\ \A r \in Ids : TeamIsOfTheToken(row[r])
    /\ \A h \in Requests : TeamIsOfTheToken(second[h])

\* Whoever read an App at one updated_at read the same credentials: the jobs, the
\* cache and the row.
OneReading(a) ==
    /\ \A w \in Workers : appOf[w] = a =>
          /\ There(a) => seen[w].stamp <= row[a].stamp
          /\ There(a) /\ seen[w].stamp = row[a].stamp => Creds(seen[w]) = Creds(row[a])
          /\ cache[a].version.stamp = seen[w].stamp => cache[a].creds = Creds(seen[w])
    /\ \A v, w \in Workers : appOf[v] = a /\ appOf[w] = a /\ seen[v].stamp = seen[w].stamp =>
          Creds(seen[v]) = Creds(seen[w])
    /\ There(a) => cache[a].version.stamp <= row[a].stamp
    /\ There(a) /\ cache[a].version.stamp = row[a].stamp => cache[a].creds = Creds(row[a])

ClientsInv ==
    /\ \A a \in Apps \ sameMs : OneReading(a)
    /\ \A a \in Apps : row[a].state = "unused" =>
          cache[a] = NoClient /\ \A w \in Workers : appOf[w] # a
    /\ ClientsAreOfTheRow

-----------------------------------------------------------------------------
(* The keys.                                                               *)

LEMMA NothingIsHeld == Held(Blank.sealed) /\ Held(NoSecrets.sealed)
  BY DEF Held, Blank, NoSecrets, Empty, Opens, Columns

\* What a request seals is held.
LEMMA SealedIsHeld ==
    ASSUME KeysInv, proc = "serving", NEW text
    PROVE  /\ Seal(key, text).text # 0 => Seal(key, text).key \in mayHold
           /\ Opens(key, Seal(key, text))
  BY DEF KeysInv, Seal, Opens, Empty

\* The steps of requests and jobs write and read what is held.
LEMMA KeysKept ==
    ASSUME KeysInv, UNCHANGED process, proc = "serving",
           \A r \in Ids : Held(row'[r].sealed),
           \A r \in Ids : row'[r].state # "there" => row'[r].sealed = Blank.sealed,
           \A h \in Requests : Held(second'[h].sealed)
    PROVE  KeysInv'
<1>1. UNCHANGED <<proc, key, old, todo, boots, mayHold, trusted>>
  BY DEF process
<1>2. (\A r \in Ids : Held(row[r].sealed))' /\ (\A h \in Requests : Held(second[h].sealed))'
  BY <1>1 DEF Held, Opens
<1>3. (\A r \in Ids : ~There(r) => row[r].sealed = Blank.sealed)'
  BY DEF There, Blank, Empty, Nobody, Columns
<1>4. /\ (trusted => mayHold \subseteq {key, old})'
      /\ (proc \in {"rotating", "serving"} => key \in mayHold)'
      /\ TrustedBootsServe'
  BY <1>1 DEF KeysInv, TrustedBootsServe
<1>5. proc' = "serving"
  BY <1>1
<1> QED
  BY <1>2, <1>3, <1>4, <1>5 DEF KeysInv

\* A request that reads, gives up or answers.
LEMMA KeysRead ==
    ASSUME KeysInv, UNCHANGED <<row, process>>, proc = "serving",
           \A h \in Requests : \/ second'[h].sealed \in {second[h].sealed, NoSecrets.sealed}
                               \/ \E r \in Ids : second'[h].sealed = row[r].sealed
    PROVE  KeysInv'
<1>1. \A r \in Ids : Held(row'[r].sealed) /\ (row'[r].state # "there" => row'[r].sealed = Blank.sealed)
  BY DEF KeysInv, There
<1>2. \A h \in Requests : Held(second'[h].sealed)
  BY NothingIsHeld DEF KeysInv
<1> QED
  BY <1>1, <1>2, KeysKept

LEMMA KeysProcess ==
    ASSUME TypeOK, KeysInv, Process
    PROVE  KeysInv'
<1>1. ASSUME NEW k \in Keys, NEW o \in Keys \cup {NoKey}, Boot(k, o) PROVE KeysInv'
  <2>1. /\ row' = row /\ second' = second /\ proc \in {"down", "refused"}
        /\ proc' = IF o = NoKey THEN "serving" ELSE "rotating"
        /\ todo' = IF o = NoKey THEN {} ELSE {r \in Ids : There(r)}
        /\ key' = k /\ old' = o
        /\ trusted' = (mayHold \subseteq {k, o}) /\ mayHold' = mayHold \cup {k}
    BY <1>1 DEF Boot, database, requests
  <2>2. (\A r \in Ids : Held(row[r].sealed))' /\ (\A h \in Requests : Held(second[h].sealed))'
    BY <2>1 DEF KeysInv, Held
  <2>3. (\A r \in Ids : ~There(r) => row[r].sealed = Blank.sealed)'
    BY <2>1 DEF KeysInv, There, Blank, Empty, Nobody, Columns
  <2>4. (proc # "serving" => \A h \in Requests : second[h].sealed = NoSecrets.sealed)'
    BY <2>1 DEF KeysInv
  <2>5. (proc = "rotating" => \A r \in Ids \ todo, c \in Columns : Opens(key, row[r].sealed[c]))'
    <3>1. ASSUME NEW r \in Ids, ~There(r), NEW c \in Columns PROVE Opens(k, row[r].sealed[c])
      BY <3>1 DEF KeysInv, Blank, Empty, Opens
    <3> QED
      BY <2>1, <3>1 DEF Opens
  <2> QED
    BY <2>1, <2>2, <2>3, <2>4, <2>5 DEF KeysInv, TrustedBootsServe
<1>2. ASSUME NEW r \in Ids, RotateRow(r) PROVE KeysInv'
  <2> DEFINE sealed == [c \in Columns |-> Seal(key, row[r].sealed[c].text)]
  <2>1. /\ UNCHANGED <<second, proc, key, old, mayHold, trusted>>
        /\ proc = "rotating" /\ todo' = todo \ {r} /\ key \in mayHold
    BY <1>2 DEF RotateRow, requests, KeysInv
  <2>2. row' = [row EXCEPT ![r] = [@ EXCEPT !.sealed = sealed]]
    BY <1>2 DEF RotateRow
  <2>3. /\ row'[r].sealed = sealed /\ row'[r].state = row[r].state
        /\ \A q \in Ids \ {r} : row'[q] = row[q]
    BY <2>2 DEF TypeOK, DatabaseTypeOK, AppRows
  <2>4. \A c \in Columns : Opens(key, sealed[c]) /\ (sealed[c].text # 0 => sealed[c].key = key)
    BY DEF Opens, Seal, Empty
  <2> HIDE DEF sealed
  <2>5. (\A q \in Ids : Held(row[q].sealed))'
    BY <2>1, <2>3, <2>4 DEF KeysInv, Held, Opens
  <2>6. (\A q \in Ids : ~There(q) => row[q].sealed = Blank.sealed)'
    <3>1. ~There(r) => sealed = Blank.sealed
      BY DEF KeysInv, sealed, Blank, Empty, Seal
    <3> QED
      BY <2>3, <3>1 DEF KeysInv, There, Blank, Empty, Nobody, Columns
  <2>7. (\A q \in Ids \ todo, c \in Columns : Opens(key, row[q].sealed[c]))'
    BY <2>1, <2>3, <2>4 DEF KeysInv, Opens
  <2> QED
    BY <2>1, <2>5, <2>6, <2>7 DEF KeysInv, Held, Opens, TrustedBootsServe
<1>3. ASSUME NEW r \in Ids, RotateRefuses(r) PROVE KeysInv'
  <2>1. /\ UNCHANGED <<row, second, key, old, mayHold, trusted>>
        /\ proc = "rotating" /\ proc' = "refused"
    BY <1>3 DEF RotateRefuses, database, requests
  <2>2. PICK c \in Columns : ~Reopen(row[r].sealed[c])
    BY <1>3 DEF RotateRefuses
  <2>3. ~trusted
    BY <2>2 DEF Reopen, Opens, KeysInv, Held
  <2> QED
    BY <2>1, <2>3 DEF KeysInv, Held, Opens, There, TrustedBootsServe
<1>4. CASE RotateDone
  <2>1. /\ UNCHANGED <<row, second, key, old, trusted>> /\ mayHold' = {key}
        /\ proc = "rotating" /\ proc' = "serving" /\ todo = {}
    BY <1>4 DEF RotateDone, database, requests
  <2>2. \A r \in Ids, c \in Columns : Opens(key, row[r].sealed[c])
    BY <2>1 DEF KeysInv
  <2>3. (\A r \in Ids : Held(row[r].sealed))'
    BY <2>1, <2>2 DEF Held, Opens
  <2>4. (\A h \in Requests : Held(second[h].sealed))'
    BY <2>1 DEF KeysInv, Held, Opens, NoSecrets, Blank, Empty
  <2> QED
    BY <2>1, <2>3, <2>4 DEF KeysInv, There, TrustedBootsServe
<1>5. CASE Crash
  <2>1. /\ UNCHANGED <<row, key, old, mayHold, trusted>> /\ proc' = "down"
        /\ second' = [h \in Requests |-> NoSecrets]
    BY <1>5 DEF Crash, database
  <2>2. (\A r \in Ids : Held(row[r].sealed))' /\ (\A h \in Requests : Held(second[h].sealed))'
    BY <2>1 DEF KeysInv, Held, NoSecrets, Blank, Empty
  <2> QED
    BY <2>1, <2>2 DEF KeysInv, There, TrustedBootsServe
<1> QED
  BY <1>1, <1>2, <1>3, <1>4, <1>5 DEF Process

LEMMA KeysAsk ==
    ASSUME TypeOK, KeysInv, NEW h \in Requests, Ask(h)
    PROVE  KeysInv'
<1>1. ASSUME NEW r \in Ids, Create(h, r) PROVE KeysInv'
  <2> DEFINE sealed == [c \in Columns |-> Seal(key, IF c \in ColumnsOf(r) THEN saves + 1 ELSE 0)]
             created == [Blank EXCEPT !.state = "there", !.host = saves + 1, !.sealed = sealed]
  <2>1. /\ UNCHANGED <<process, second>> /\ proc = "serving"
        /\ row' = [row EXCEPT ![r] = created]
    BY <1>1 DEF Create, Free, RoomForOne
  <2>2. created.sealed = sealed /\ created.state = "there"
    BY DEF Blank
  <2>3. Held(sealed)
    BY <2>1, SealedIsHeld DEF Held
  <2> HIDE DEF sealed, created
  <2>4. row'[r] = created /\ \A q \in Ids \ {r} : row'[q] = row[q]
    BY <2>1 DEF TypeOK, DatabaseTypeOK
  <2>5. \A q \in Ids : Held(row'[q].sealed) /\ (row'[q].state # "there" => row'[q].sealed = Blank.sealed)
    BY <2>2, <2>3, <2>4 DEF KeysInv, There
  <2>6. \A g \in Requests : Held(second'[g].sealed)
    BY <2>1 DEF KeysInv
  <2> QED
    BY <2>1, <2>5, <2>6, KeysKept
<1>2. ASSUME NEW r \in Ids, Delete(h, r) PROVE KeysInv'
  <2> DEFINE deleted == [Blank EXCEPT !.state = "deleted"]
  <2>1. /\ UNCHANGED <<process, second>> /\ proc = "serving"
        /\ row' = [row EXCEPT ![r] = deleted]
    BY <1>2 DEF Delete, Free, RoomForOne
  <2>2. deleted.sealed = Blank.sealed
    BY DEF Blank
  <2> HIDE DEF deleted
  <2>3. row'[r] = deleted /\ \A q \in Ids \ {r} : row'[q] = row[q]
    BY <2>1 DEF TypeOK, DatabaseTypeOK
  <2>4. \A q \in Ids : Held(row'[q].sealed) /\ (row'[q].state # "there" => row'[q].sealed = Blank.sealed)
    BY <2>2, <2>3, NothingIsHeld DEF KeysInv, There
  <2>5. \A g \in Requests : Held(second'[g].sealed)
    BY <2>1 DEF KeysInv
  <2> QED
    BY <2>1, <2>4, <2>5, KeysKept
<1>3. ASSUME NEW r \in Ids, StartTest(h, r) PROVE KeysInv'
  BY <1>3, KeysRead DEF StartTest, Free, RoomForOne, database
<1>4. ASSUME NEW r \in Ids, NEW f \in Forms, ReadForForm(h, r, f) PROVE KeysInv'
  BY <1>4, KeysRead DEF ReadForForm, Free, RoomForOne, database
<1> QED
  BY <1>1, <1>2, <1>3, <1>4 DEF Ask

\* What a handler that answers or reads the row leaves in second.
LEMMA SecondReads ==
    ASSUME TypeOK, NEW h \in Requests,
           \/ SaveFails(h) \/ RowIsGone(h) \/ ReadForSecrets(h) \/ DropClient(h) \/ ReadForTest(h)
    PROVE  /\ UNCHANGED <<row, process>> /\ proc = "serving"
           /\ \A g \in Requests :
                 second'[g] \in {second[g], NoSecrets} \cup {SecretsOf(row[r]) : r \in Ids}
<1>1. proc = "serving" /\ id[h] \in Ids
  BY DEF SaveFails, RowIsGone, ReadForSecrets, DropClient, ReadForTest, TypeOK, AtWork
<1>2. UNCHANGED <<row, process>>
  BY DEF SaveFails, RowIsGone, ReadForSecrets, DropClient, ReadForTest, database
<1>3. PICK read \in {NoSecrets, SecretsOf(row[id[h]])} : second' = [second EXCEPT ![h] = read]
  BY DEF SaveFails, RowIsGone, ReadForSecrets, DropClient, ReadForTest, Reply
<1>4. second'[h] = read /\ \A g \in Requests \ {h} : second'[g] = second[g]
  BY <1>3 DEF TypeOK, RequestsTypeOK
<1> QED
  BY <1>1, <1>2, <1>4

\* What a save leaves.
LEMMA WriteWrites ==
    ASSUME TypeOK, NEW h \in Requests, WriteForm(h)
    PROVE  /\ id[h] \in Ids /\ There(id[h]) /\ proc = "serving" /\ UNCHANGED process
           /\ \E ms \in Nat :
                 /\ ms \in Milliseconds(id[h])
                 /\ row'[id[h]] = NewRow(h, ms)
                 /\ sameMs' = IF row[id[h]].stamp = ms THEN sameMs \cup {id[h]} ELSE sameMs
           /\ \A q \in Ids \ {id[h]} : row'[q] = row[q]
           /\ \A g \in Requests : second'[g] \in {second[g], NoSecrets}
<1>1. id[h] \in Ids /\ There(id[h]) /\ proc = "serving" /\ UNCHANGED process
  BY DEF WriteForm, TypeOK, AtWork
<1>2. PICK ms \in Milliseconds(id[h]) :
          /\ row' = [row EXCEPT ![id[h]] = NewRow(h, ms)]
          /\ sameMs' = IF row[id[h]].stamp = ms THEN sameMs \cup {id[h]} ELSE sameMs
  BY DEF WriteForm
<1>3. ms \in Nat
  BY VaultBoundsAssumption DEF Milliseconds
<1>4. row'[id[h]] = NewRow(h, ms) /\ \A q \in Ids \ {id[h]} : row'[q] = row[q]
  BY <1>1, <1>2 DEF TypeOK, DatabaseTypeOK
<1>5. second' = second \/ second' = [second EXCEPT ![h] = NoSecrets]
  BY DEF WriteForm, Reply
<1>6. \A g \in Requests : second'[g] \in {second[g], NoSecrets}
  BY <1>5 DEF TypeOK, RequestsTypeOK
<1> QED
  BY <1>1, <1>2, <1>3, <1>4, <1>6

\* The fields of the row a save writes.
LEMMA FieldsOfNewRow ==
    ASSUME TypeOK, NEW h \in Requests, id[h] \in Ids, NEW ms \in Nat
    PROVE  /\ NewRow(h, ms).state = row[id[h]].state
           /\ NewRow(h, ms).sealed = NewSealed(h)
           /\ NewRow(h, ms).host = NewHost(h)
           /\ NewRow(h, ms).stamp = ms
           /\ NewRow(h, ms).team = IF ForgetsTeam(h) THEN Nobody ELSE second[h].team
           /\ NewRow(h, ms).overtaken = (~ForgetsTeam(h) /\ second[h].overtaken)
<1>1. row[id[h]] \in AppRows
  BY DEF TypeOK, DatabaseTypeOK
<1> QED
  BY <1>1 DEF NewRow, AppRows

\* What a test leaves: nothing, or a team and a new stamp.
LEMMA RecordRecords ==
    ASSUME TypeOK, NEW h \in Requests, RecordTest(h)
    PROVE  /\ id[h] \in Ids /\ proc = "serving" /\ UNCHANGED <<process, sameMs>>
           /\ \A q \in Ids \ {id[h]} : row'[q] = row[q]
           /\ row'[id[h]].state = row[id[h]].state
           /\ row'[id[h]].sealed = row[id[h]].sealed
           /\ row'[id[h]].host = row[id[h]].host
           /\ \/ row'[id[h]] = row[id[h]]
              \/ /\ row'[id[h]].stamp \in Milliseconds(id[h])
                 /\ row'[id[h]].team \in {Creds(second[h]), Nobody}
                 /\ row'[id[h]].overtaken =
                       (row'[id[h]].team # Nobody /\ Creds(row[id[h]]) # Creds(second[h]))
           /\ \A g \in Requests : second'[g] \in {second[g], NoSecrets}
<1> DEFINE r == id[h]
<1>1. r \in Ids /\ proc = "serving" /\ UNCHANGED <<process, sameMs>>
  BY DEF RecordTest, past, TypeOK, AtWork
<1>2. second' = [second EXCEPT ![h] = NoSecrets]
  BY DEF RecordTest, Reply
<1>3. \A g \in Requests : second'[g] \in {second[g], NoSecrets}
  BY <1>2 DEF TypeOK, RequestsTypeOK
<1>4. row[r] \in AppRows /\ row = [q \in Ids |-> row[q]]
  BY <1>1 DEF TypeOK, DatabaseTypeOK
<1>5. CASE There(r)
  <2>1. PICK ms \in Milliseconds(r), team \in {Creds(second[h]), Nobody} :
            row' = [row EXCEPT ![r].stamp = ms, ![r].team = team,
                       ![r].overtaken = (team # Nobody /\ Creds(row[r]) # Creds(second[h]))]
    BY <1>5 DEF RecordTest
  <2> DEFINE overtaken == team # Nobody /\ Creds(row[r]) # Creds(second[h])
             recorded == [row[r] EXCEPT !.stamp = ms, !.team = team, !.overtaken = overtaken]
  <2>2. row' = [row EXCEPT ![r] = recorded]
    BY <1>1, <1>4, <2>1
  <2>3. /\ recorded.stamp = ms /\ recorded.team = team /\ recorded.overtaken = overtaken
        /\ recorded.state = row[r].state /\ recorded.sealed = row[r].sealed /\ recorded.host = row[r].host
    <3> HIDE DEF overtaken, r
    <3> QED
      BY <1>4 DEF AppRows
  <2> HIDE DEF recorded
  <2>4. row'[r] = recorded /\ \A q \in Ids \ {r} : row'[q] = row[q]
    BY <1>1, <1>4, <2>2
  <2> QED
    BY <1>1, <1>3, <2>3, <2>4
<1>6. CASE ~There(r)
  <2>1. row' = row
    BY <1>6 DEF RecordTest
  <2> QED
    BY <1>1, <1>3, <2>1
<1> QED
  BY <1>5, <1>6

LEMMA KeysServe ==
    ASSUME TypeOK, KeysInv, NEW h \in Requests, Serve(h)
    PROVE  KeysInv'
<1>1. CASE SaveFails(h) \/ RowIsGone(h) \/ ReadForSecrets(h) \/ DropClient(h) \/ ReadForTest(h)
  <2>1. /\ UNCHANGED <<row, process>> /\ proc = "serving"
        /\ \A g \in Requests :
              second'[g] \in {second[g], NoSecrets} \cup {SecretsOf(row[r]) : r \in Ids}
    BY <1>1, SecondReads
  <2>2. \A r \in Ids : SecretsOf(row[r]).sealed = row[r].sealed
    BY DEF SecretsOf
  <2> QED
    BY <2>1, <2>2, KeysRead
<1>2. CASE WriteForm(h)
  <2>1. /\ id[h] \in Ids /\ There(id[h]) /\ proc = "serving" /\ UNCHANGED process
        /\ \A q \in Ids \ {id[h]} : row'[q] = row[q]
        /\ \A g \in Requests : second'[g] \in {second[g], NoSecrets}
    BY <1>2, WriteWrites
  <2>2. row'[id[h]].sealed = NewSealed(h) /\ row'[id[h]].state = row[id[h]].state
    BY <1>2, WriteWrites, FieldsOfNewRow
  <2>3. Held(NewSealed(h))
    BY <2>1, SealedIsHeld DEF NewSealed, Held, KeysInv
  <2>4. \A q \in Ids : Held(row'[q].sealed) /\ (row'[q].state # "there" => row'[q].sealed = Blank.sealed)
    BY <2>1, <2>2, <2>3 DEF KeysInv, There
  <2>5. \A g \in Requests : Held(second'[g].sealed)
    BY <2>1, NothingIsHeld DEF KeysInv
  <2> QED
    BY <2>1, <2>4, <2>5, KeysKept
<1>3. CASE RecordTest(h)
  <2>1. /\ proc = "serving" /\ UNCHANGED process
        /\ \A q \in Ids : row'[q].sealed = row[q].sealed /\ row'[q].state = row[q].state
        /\ \A g \in Requests : second'[g] \in {second[g], NoSecrets}
    BY <1>3, RecordRecords
  <2>2. \A q \in Ids : Held(row'[q].sealed) /\ (row'[q].state # "there" => row'[q].sealed = Blank.sealed)
    BY <2>1 DEF KeysInv, There
  <2>3. \A g \in Requests : Held(second'[g].sealed)
    BY <2>1, NothingIsHeld DEF KeysInv
  <2> QED
    BY <2>1, <2>2, <2>3, KeysKept
<1> QED
  BY <1>1, <1>2, <1>3 DEF Serve

LEMMA KeysWork ==
    ASSUME TypeOK, KeysInv, NEW w \in Workers, Work(w)
    PROVE  KeysInv'
<1>1. UNCHANGED <<row, process, second>> /\ proc = "serving"
  BY DEF Work, ReadApp, CacheHit, CacheMiss, CacheStore, JobEnds, database, requests, RoomForOne, TypeOK, AtWork
<1> QED
  BY <1>1, KeysRead

LEMMA KeysInit == VaultInit => KeysInv
  BY NothingIsHeld
  DEF VaultInit, KeysInv, TrustedBootsServe

LEMMA KeysStep == TypeOK /\ KeysInv /\ [VaultNext]_vaultVars => KeysInv'
<1> SUFFICES ASSUME TypeOK, KeysInv, [VaultNext]_vaultVars PROVE KeysInv'
  OBVIOUS
<1>1. CASE UNCHANGED vaultVars
  BY <1>1 DEF vaultVars, database, process, requests, KeysInv, Held, Opens, There, TrustedBootsServe
<1> QED
  BY <1>1, KeysProcess, KeysAsk, KeysServe, KeysWork DEF VaultNext

LEMMA KeysCorrect == VaultSpec => []KeysInv
<1>1. VaultInit => KeysInv
  BY KeysInit
<1>2. TypeOK /\ KeysInv /\ [VaultNext]_vaultVars => KeysInv'
  BY KeysStep
<1> QED
  BY <1>1, <1>2, TypeCorrect, PTL DEF VaultSpec

\* Every secret opens with the key the process serves with: after a rotation
\* however often it was cut short, and after a boot given every key the rows may be
\* under, old secrets written back by a save included.
THEOREM ServedSecretsOpen == VaultSpec => []SecretsOpen
<1>1. TypeOK /\ KeysInv => SecretsOpen
  <2> SUFFICES ASSUME TypeOK, KeysInv, proc = "serving", trusted \/ old # NoKey,
                      NEW r \in Ids, NEW c \in Columns
               PROVE  Opens(key, row[r].sealed[c])
    BY DEF SecretsOpen
  <2>1. CASE old # NoKey
    BY <2>1 DEF KeysInv, Held
  <2>2. CASE old = NoKey
    <3>1. mayHold \subseteq {key}
      BY <2>2, KeysAssumption DEF KeysInv, TypeOK, ProcessTypeOK
    <3> QED
      BY <3>1 DEF KeysInv, Held, Opens
  <2> QED
    BY <2>1, <2>2
<1> QED
  BY <1>1, TypeCorrect, KeysCorrect, PTL

\* A boot that was given every key the rows may be under is not refused.
THEOREM KnownKeysServe == VaultSpec => []TrustedBootsServe
<1>1. KeysInv => TrustedBootsServe
  BY DEF KeysInv
<1> QED
  BY <1>1, KeysCorrect, PTL

-----------------------------------------------------------------------------
(* The texts.                                                              *)

LEMMA TextsWrite ==
    ASSUME TypeOK, SecretsAreKept, NEW h \in Requests, WriteForm(h)
    PROVE  SecretsAreKept'
<1> DEFINE i == id[h]
<1>1. /\ i \in Ids
      /\ \A q \in Ids \ {i} : row'[q] = row[q]
      /\ row'[i].sealed = NewSealed(h)
  BY WriteWrites, FieldsOfNewRow
<1>2. /\ saved'[i] = [c \in Columns |-> IF c \in form[h].named THEN saves + 1 ELSE saved[i][c]]
      /\ \A q \in Ids \ {i} : saved'[q] = saved[q]
  BY <1>1 DEF WriteForm, TypeOK, PastTypeOK
<1>3. lost' = (lost \ ({i} \X form[h].named))
                \cup ({i} \X {c \in Columns \ form[h].named : row[i].sealed[c] # second[h].sealed[c]})
  BY DEF WriteForm
<1> HIDE DEF i
<1>4. ASSUME NEW r \in Ids \ {i}, NEW c \in Columns
      PROVE  row'[r].sealed[c].text = saved'[r][c] \/ <<r, c>> \in lost'
  BY <1>1, <1>2, <1>3, <1>4 DEF SecretsAreKept
<1>5. ASSUME NEW c \in form[h].named \cap Columns PROVE row'[i].sealed[c].text = saved'[i][c]
  <2>1. saves + 1 \in Nat /\ key \in Keys \cup {NoKey}
    BY DEF TypeOK, DatabaseTypeOK, ProcessTypeOK
  <2>2. NewSealed(h)[c] = Seal(key, saves + 1)
    BY DEF NewSealed
  <2> QED
    BY <1>1, <1>2, <2>1, <2>2, SealsAreSeals
<1>6. ASSUME NEW c \in Columns \ form[h].named
      PROVE  row'[i].sealed[c].text = saved'[i][c] \/ <<i, c>> \in lost'
  <2>1. row'[i].sealed[c] = second[h].sealed[c] /\ saved'[i][c] = saved[i][c]
    BY <1>1, <1>2 DEF NewSealed
  <2>2. CASE row[i].sealed[c] = second[h].sealed[c]
    BY <1>1, <1>3, <2>1, <2>2 DEF SecretsAreKept
  <2>3. CASE row[i].sealed[c] # second[h].sealed[c]
    BY <1>3, <2>3
  <2> QED
    BY <2>2, <2>3
<1> QED
  BY <1>4, <1>5, <1>6 DEF SecretsAreKept

LEMMA TextsStep == TypeOK /\ SecretsAreKept /\ [VaultNext]_vaultVars => SecretsAreKept'
<1> SUFFICES ASSUME TypeOK, SecretsAreKept, [VaultNext]_vaultVars PROVE SecretsAreKept'
  OBVIOUS
<1>1. ASSUME UNCHANGED <<row, saved, lost>> PROVE SecretsAreKept'
  BY <1>1 DEF SecretsAreKept
<1>2. ASSUME NEW r \in Ids, RotateRow(r) PROVE SecretsAreKept'
  <2> DEFINE sealed == [c \in Columns |-> Seal(key, row[r].sealed[c].text)]
  <2>1. row' = [row EXCEPT ![r] = [@ EXCEPT !.sealed = sealed]] /\ UNCHANGED <<saved, lost>>
    BY <1>2 DEF RotateRow, past
  <2>2. row[r].sealed \in Seals /\ key \in Keys \cup {NoKey}
    BY DEF TypeOK, DatabaseTypeOK, AppRows, ProcessTypeOK
  <2>3. \A c \in Columns : sealed[c].text = row[r].sealed[c].text
    BY <2>2, SealsAreSeals DEF Seals
  <2> HIDE DEF sealed
  <2>4. row'[r].sealed = sealed /\ \A q \in Ids \ {r} : row'[q] = row[q]
    BY <2>1 DEF TypeOK, DatabaseTypeOK, AppRows
  <2> QED
    BY <2>1, <2>3, <2>4 DEF SecretsAreKept
<1>3. CASE Process
  BY <1>1, <1>2, <1>3
  DEF Process, Boot, RotateRefuses, RotateDone, Crash, database, past
<1>4. ASSUME NEW h \in Requests, Ask(h) PROVE SecretsAreKept'
  <2>1. ASSUME NEW r \in Ids, Create(h, r) PROVE SecretsAreKept'
    <3> DEFINE text == [c \in Columns |-> IF c \in ColumnsOf(r) THEN saves + 1 ELSE 0]
               sealed == [c \in Columns |-> Seal(key, IF c \in ColumnsOf(r) THEN saves + 1 ELSE 0)]
               created == [Blank EXCEPT !.state = "there", !.host = saves + 1, !.sealed = sealed]
    <3>1. row' = [row EXCEPT ![r] = created] /\ saved' = [saved EXCEPT ![r] = text] /\ lost' = lost
      BY <2>1 DEF Create
    <3>2. \A c \in Columns : text[c] \in Nat /\ sealed[c] = Seal(key, text[c])
      BY DEF TypeOK, DatabaseTypeOK
    <3>3. created.sealed = sealed
      BY DEF Blank
    <3>4. key \in Keys \cup {NoKey}
      BY DEF TypeOK, ProcessTypeOK
    <3> HIDE DEF text, sealed, created
    <3>5. \A c \in Columns : sealed[c].text = text[c]
      BY <3>2, <3>4, SealsAreSeals
    <3>6. /\ row'[r] = created /\ \A q \in Ids \ {r} : row'[q] = row[q]
          /\ saved'[r] = text /\ \A q \in Ids \ {r} : saved'[q] = saved[q]
      BY <3>1 DEF TypeOK, DatabaseTypeOK, PastTypeOK
    <3>7. ASSUME NEW q \in Ids, NEW c \in Columns
          PROVE  row'[q].sealed[c].text = saved'[q][c] \/ <<q, c>> \in lost'
      <4>1. CASE q = r
        BY <3>3, <3>5, <3>6, <4>1
      <4>2. CASE q # r
        BY <3>1, <3>6, <4>2 DEF SecretsAreKept
      <4> QED
        BY <4>1, <4>2
    <3> QED
      BY <3>7 DEF SecretsAreKept
  <2>2. ASSUME NEW r \in Ids, Delete(h, r) PROVE SecretsAreKept'
    <3> DEFINE deleted == [Blank EXCEPT !.state = "deleted"]
    <3>1. row' = [row EXCEPT ![r] = deleted] /\ saved' = [saved EXCEPT ![r] = [c \in Columns |-> 0]]
          /\ lost' = lost
      BY <2>2 DEF Delete
    <3>2. \A c \in Columns : deleted.sealed[c].text = 0
      BY DEF Blank, Empty
    <3> HIDE DEF deleted
    <3>3. /\ row'[r] = deleted /\ \A q \in Ids \ {r} : row'[q] = row[q]
          /\ saved'[r] = [c \in Columns |-> 0] /\ \A q \in Ids \ {r} : saved'[q] = saved[q]
      BY <3>1 DEF TypeOK, DatabaseTypeOK, PastTypeOK
    <3>4. ASSUME NEW q \in Ids, NEW c \in Columns
          PROVE  row'[q].sealed[c].text = saved'[q][c] \/ <<q, c>> \in lost'
      <4>1. CASE q = r
        BY <3>2, <3>3, <4>1
      <4>2. CASE q # r
        BY <3>1, <3>3, <4>2 DEF SecretsAreKept
      <4> QED
        BY <4>1, <4>2
    <3> QED
      BY <3>4 DEF SecretsAreKept
  <2> QED
    BY <1>1, <1>4, <2>1, <2>2 DEF Ask, StartTest, ReadForForm, database, past
<1>5. ASSUME NEW h \in Requests, Serve(h) PROVE SecretsAreKept'
  <2>1. CASE RecordTest(h)
    <3>1. \A r \in Ids : row'[r].sealed = row[r].sealed
      BY <2>1, RecordRecords
    <3>2. UNCHANGED <<saved, lost>>
      BY <2>1 DEF RecordTest, past
    <3> QED
      BY <3>1, <3>2 DEF SecretsAreKept
  <2> QED
    BY <1>1, <1>5, <2>1, TextsWrite
    DEF Serve, SaveFails, RowIsGone, ReadForSecrets, DropClient, ReadForTest, database, past
<1>6. ASSUME NEW w \in Workers, Work(w) PROVE SecretsAreKept'
  BY <1>1, <1>6 DEF Work, ReadApp, CacheHit, CacheMiss, CacheStore, JobEnds, database, past
<1>7. CASE UNCHANGED vaultVars
  BY <1>1, <1>7 DEF vaultVars, database, past
<1> QED
  BY <1>3, <1>4, <1>5, <1>6, <1>7 DEF VaultNext

\* Every column holds the text of the last save that named it, unless a save whose
\* second read another one overtook wrote an old text back: no rotation, crash,
\* test or blank field loses a secret.
THEOREM LastSavedSecretsStay == VaultSpec => []SecretsAreKept
<1>1. VaultInit => SecretsAreKept
  BY DEF VaultInit, SecretsAreKept, Blank, Empty
<1>2. TypeOK /\ SecretsAreKept /\ [VaultNext]_vaultVars => SecretsAreKept'
  BY TextsStep
<1> QED
  BY <1>1, <1>2, TypeCorrect, PTL DEF VaultSpec

-----------------------------------------------------------------------------
(* The teams.                                                              *)

LEMMA TeamsKept ==
    ASSUME \A r \in Ids : TeamIsOfTheToken(row'[r]),
           \A h \in Requests : TeamIsOfTheToken(second'[h])
    PROVE  TeamsInv'
  BY DEF TeamsInv, TeamIsOfTheToken, Creds, Nobody

\* Steps that leave the teams, texts and hosts of the rows as they are.
LEMMA TeamsRead ==
    ASSUME TeamsInv,
           \A r \in Ids : /\ row'[r].team = row[r].team /\ row'[r].overtaken = row[r].overtaken
                          /\ Creds(row'[r]) = Creds(row[r]),
           \A h \in Requests :
              second'[h] \in {second[h], NoSecrets} \cup {SecretsOf(row[r]) : r \in Ids}
    PROVE  TeamsInv'
<1>1. \A r \in Ids : TeamIsOfTheToken(row'[r])
  BY DEF TeamsInv, TeamIsOfTheToken
<1>2. TeamIsOfTheToken(NoSecrets)
  BY DEF TeamIsOfTheToken, NoSecrets
<1>3. \A r \in Ids : TeamIsOfTheToken(SecretsOf(row[r]))
  BY DEF TeamsInv, TeamIsOfTheToken, SecretsOf, Creds
<1>4. \A h \in Requests : TeamIsOfTheToken(second'[h])
  BY <1>2, <1>3 DEF TeamsInv
<1> QED
  BY <1>1, <1>4, TeamsKept

LEMMA TeamsWrite ==
    ASSUME TypeOK, TeamsInv, NEW h \in Requests, WriteForm(h)
    PROVE  TeamsInv'
<1>1. PICK ms \in Nat : row'[id[h]] = NewRow(h, ms)
  BY WriteWrites
<1>2. /\ id[h] \in Ids
      /\ \A q \in Ids \ {id[h]} : row'[q] = row[q]
      /\ \A g \in Requests : second'[g] \in {second[g], NoSecrets}
  BY WriteWrites
<1>3. TeamIsOfTheToken(row'[id[h]])
  <2>1. CASE ForgetsTeam(h)
    BY <1>1, <1>2, <2>1, FieldsOfNewRow DEF TeamIsOfTheToken
  <2>2. CASE ~ForgetsTeam(h)
    <3>1. "secret" \notin form[h].named /\ NewHost(h) = second[h].host
      BY <2>2 DEF ForgetsTeam
    <3>2. NewSealed(h)["secret"] = second[h].sealed["secret"]
      BY <3>1 DEF NewSealed, Columns
    <3>3. Creds(row'[id[h]]) = Creds(second[h])
      BY <1>1, <1>2, <3>1, <3>2, FieldsOfNewRow DEF Creds
    <3>4. row'[id[h]].team = second[h].team /\ row'[id[h]].overtaken = second[h].overtaken
      <4>1. second[h].overtaken \in BOOLEAN
        BY DEF TypeOK, RequestsTypeOK
      <4> QED
        BY <1>1, <1>2, <2>2, <4>1, FieldsOfNewRow
    <3> QED
      BY <3>3, <3>4 DEF TeamsInv, TeamIsOfTheToken
  <2> QED
    BY <2>1, <2>2
<1>4. TeamIsOfTheToken(NoSecrets)
  BY DEF TeamIsOfTheToken, NoSecrets
<1> QED
  BY <1>2, <1>3, <1>4, TeamsKept DEF TeamsInv

LEMMA TeamsRecord ==
    ASSUME TypeOK, TeamsInv, NEW h \in Requests, RecordTest(h)
    PROVE  TeamsInv'
<1>1. /\ id[h] \in Ids
      /\ \A q \in Ids \ {id[h]} : row'[q] = row[q]
      /\ Creds(row'[id[h]]) = Creds(row[id[h]])
      /\ \A g \in Requests : second'[g] \in {second[g], NoSecrets}
  BY RecordRecords DEF Creds
<1>2. \/ row'[id[h]] = row[id[h]]
      \/ /\ row'[id[h]].team \in {Creds(second[h]), Nobody}
         /\ row'[id[h]].overtaken = (row'[id[h]].team # Nobody /\ Creds(row[id[h]]) # Creds(second[h]))
  BY RecordRecords
<1>3. TeamIsOfTheToken(row'[id[h]])
  BY <1>1, <1>2 DEF TeamIsOfTheToken, TeamsInv
<1>4. TeamIsOfTheToken(NoSecrets)
  BY DEF TeamIsOfTheToken, NoSecrets
<1> QED
  BY <1>1, <1>3, <1>4, TeamsKept DEF TeamsInv

LEMMA TeamsStep == TypeOK /\ TeamsInv /\ [VaultNext]_vaultVars => TeamsInv'
<1> SUFFICES ASSUME TypeOK, TeamsInv, [VaultNext]_vaultVars PROVE TeamsInv'
  OBVIOUS
<1>1. ASSUME UNCHANGED row,
             \A h \in Requests :
                second'[h] \in {second[h], NoSecrets} \cup {SecretsOf(row[r]) : r \in Ids}
      PROVE  TeamsInv'
  BY <1>1, TeamsRead
<1>2. ASSUME NEW r \in Ids, RotateRow(r) PROVE TeamsInv'
  <2> DEFINE sealed == [c \in Columns |-> Seal(key, row[r].sealed[c].text)]
             rotated == [row[r] EXCEPT !.sealed = sealed]
  <2>1. row' = [row EXCEPT ![r] = rotated] /\ second' = second
    BY <1>2 DEF RotateRow, requests
  <2>2. row[r] \in AppRows /\ key \in Keys \cup {NoKey}
    BY DEF TypeOK, DatabaseTypeOK, ProcessTypeOK
  <2>3. sealed["secret"].text = row[r].sealed["secret"].text
    BY <2>2, SealsAreSeals DEF Seals, Columns, AppRows
  <2> HIDE DEF sealed
  <2>4. /\ rotated.team = row[r].team /\ rotated.overtaken = row[r].overtaken
        /\ rotated.host = row[r].host /\ rotated.sealed = sealed
    BY <2>2 DEF AppRows
  <2> HIDE DEF rotated
  <2>5. row'[r] = rotated /\ \A q \in Ids \ {r} : row'[q] = row[q]
    BY <2>1 DEF TypeOK, DatabaseTypeOK
  <2>6. Creds(row'[r]) = Creds(row[r])
    BY <2>3, <2>4, <2>5 DEF Creds
  <2> QED
    BY <2>1, <2>4, <2>5, <2>6, TeamsRead
<1>3. CASE Process
  <2>1. CASE Crash
    BY <1>1, <2>1 DEF Crash, database
  <2> QED
    BY <1>1, <1>2, <1>3, <2>1 DEF Process, Boot, RotateRefuses, RotateDone, database, requests
<1>4. ASSUME NEW h \in Requests, Ask(h) PROVE TeamsInv'
  <2>1. ASSUME NEW r \in Ids, NEW new, new.team = Nobody, row' = [row EXCEPT ![r] = new], second' = second
        PROVE  TeamsInv'
    <3>1. row'[r] = new /\ \A q \in Ids \ {r} : row'[q] = row[q]
      BY <2>1 DEF TypeOK, DatabaseTypeOK
    <3> QED
      BY <2>1, <3>1, TeamsKept DEF TeamsInv, TeamIsOfTheToken
  <2>2. ASSUME NEW r \in Ids, Create(h, r) PROVE TeamsInv'
    <3> DEFINE sealed == [c \in Columns |-> Seal(key, IF c \in ColumnsOf(r) THEN saves + 1 ELSE 0)]
               created == [Blank EXCEPT !.state = "there", !.host = saves + 1, !.sealed = sealed]
    <3>1. row' = [row EXCEPT ![r] = created] /\ second' = second
      BY <2>2 DEF Create
    <3> HIDE DEF sealed
    <3>2. created.team = Nobody
      BY DEF Blank
    <3> HIDE DEF created
    <3> QED
      BY <2>1, <3>1, <3>2
  <2>3. ASSUME NEW r \in Ids, Delete(h, r) PROVE TeamsInv'
    <3>1. row' = [row EXCEPT ![r] = [Blank EXCEPT !.state = "deleted"]] /\ second' = second
      BY <2>3 DEF Delete
    <3>2. [Blank EXCEPT !.state = "deleted"].team = Nobody
      BY DEF Blank
    <3> QED
      BY <2>1, <3>1, <3>2
  <2> QED
    BY <1>1, <1>4, <2>2, <2>3 DEF Ask, StartTest, ReadForForm, database
<1>5. ASSUME NEW h \in Requests, Serve(h) PROVE TeamsInv'
  BY <1>1, <1>5, SecondReads, TeamsWrite, TeamsRecord DEF Serve
<1>6. ASSUME NEW w \in Workers, Work(w) PROVE TeamsInv'
  BY <1>1, <1>6 DEF Work, ReadApp, CacheHit, CacheMiss, CacheStore, JobEnds, database, requests
<1>7. CASE UNCHANGED vaultVars
  BY <1>1, <1>7 DEF vaultVars, database, requests
<1> QED
  BY <1>3, <1>4, <1>5, <1>6, <1>7 DEF VaultNext

\* The team shown for an instance is the one its token belongs to on its host,
\* unless the two changed while the test ran.
THEOREM ShownTeamsAreOfTheToken == VaultSpec => []TeamsAreOfTheToken
<1>1. VaultInit => TeamsInv
  BY DEF VaultInit, TeamsInv, TeamIsOfTheToken, Blank, NoSecrets
<1>2. TypeOK /\ TeamsInv /\ [VaultNext]_vaultVars => TeamsInv'
  BY TeamsStep
<1>3. TeamsInv => TeamsAreOfTheToken
  BY DEF TeamsInv, TeamIsOfTheToken, TeamsAreOfTheToken, Ids
<1> QED
  BY <1>1, <1>2, <1>3, TypeCorrect, PTL DEF VaultSpec

-----------------------------------------------------------------------------
(* The clients.                                                            *)

clientJobs == <<wpc, appOf, seen, client>>

LEMMA JobsKept ==
    ASSUME ClientsAreOfTheRow, UNCHANGED clientJobs, sameMs \subseteq sameMs'
    PROVE  ClientsAreOfTheRow'
  BY DEF ClientsAreOfTheRow, clientJobs

\* A step that leaves the jobs and the cache: the row of an App keeps its
\* credentials, or its stamp moves on, or the App's stamps are no longer relied on.
LEMMA RowMovesOn ==
    ASSUME TypeOK, TypeOK', ClientsInv, UNCHANGED <<clientJobs, cache>>, sameMs \subseteq sameMs',
           \A a \in Apps : row[a].state # "unused" => row'[a].state # "unused",
           \A a \in Apps \ sameMs' : There(a)' =>
              \/ row[a].state = "unused"
              \/ /\ There(a) /\ row'[a].stamp >= row[a].stamp
                 /\ row'[a].stamp = row[a].stamp => Creds(row'[a]) = Creds(row[a])
    PROVE  ClientsInv'
<1>1. ASSUME NEW a \in Apps \ sameMs' PROVE OneReading(a)'
  <2>1. OneReading(a)
    BY DEF ClientsInv
  <2>2. /\ row[a].stamp \in Nat /\ row'[a].stamp \in Nat /\ cache[a].version.stamp \in Int
        /\ \A w \in Workers : seen[w].stamp \in Nat
    BY DEF TypeOK, DatabaseTypeOK, WorkersTypeOK, AppRows, Ids
  <2>3. ASSUME There(a)', row[a].state = "unused"
        PROVE  cache[a] = NoClient /\ \A w \in Workers : appOf[w] # a
    BY <2>3 DEF ClientsInv
  <2>4. NoClient.version.stamp = -1
    BY DEF NoClient, NoVersion
  <2>5. CASE There(a)' /\ row[a].state = "unused"
    BY <2>2, <2>3, <2>4, <2>5 DEF OneReading, clientJobs
  <2>6. CASE There(a)' /\ row[a].state # "unused"
    <3>1. /\ There(a) /\ row'[a].stamp >= row[a].stamp
          /\ row'[a].stamp = row[a].stamp => Creds(row'[a]) = Creds(row[a])
      BY <2>6
    <3> QED
      BY <2>1, <2>2, <3>1 DEF OneReading, clientJobs, Creds
  <2>7. CASE ~There(a)'
    BY <2>1, <2>7 DEF OneReading, clientJobs, Creds
  <2> QED
    BY <2>5, <2>6, <2>7
<1>2. ASSUME NEW a \in Apps, row'[a].state = "unused"
      PROVE  cache'[a] = NoClient /\ \A w \in Workers : appOf'[w] # a
  BY <1>2 DEF ClientsInv, clientJobs
<1>3. ClientsAreOfTheRow'
  BY JobsKept DEF ClientsInv
<1> QED
  BY <1>1, <1>2, <1>3 DEF ClientsInv

LEMMA ClientsUnchanged ==
    ASSUME TypeOK, TypeOK', ClientsInv, UNCHANGED <<row, clientJobs, cache, sameMs>>
    PROVE  ClientsInv'
<1>1. \A a \in Apps \ sameMs' : There(a)' =>
         There(a) /\ row'[a].stamp >= row[a].stamp /\ Creds(row'[a]) = Creds(row[a])
  BY DEF There, TypeOK, DatabaseTypeOK, AppRows, Ids
<1> QED
  BY <1>1, RowMovesOn

LEMMA ClientsProcess ==
    ASSUME TypeOK, TypeOK', ClientsInv, Process
    PROVE  ClientsInv'
<1>1. ASSUME NEW r \in Ids, RotateRow(r) PROVE ClientsInv'
  <2> DEFINE sealed == [c \in Columns |-> Seal(key, row[r].sealed[c].text)]
             rotated == [row[r] EXCEPT !.sealed = sealed]
  <2>1. row' = [row EXCEPT ![r] = rotated] /\ UNCHANGED <<clientJobs, cache, sameMs>>
    BY <1>1 DEF RotateRow, workers, past, clientJobs
  <2>2. row[r] \in AppRows /\ key \in Keys \cup {NoKey}
    BY DEF TypeOK, DatabaseTypeOK, ProcessTypeOK
  <2>3. sealed["secret"].text = row[r].sealed["secret"].text
    BY <2>2, SealsAreSeals DEF Seals, Columns, AppRows
  <2> HIDE DEF sealed
  <2>4. /\ rotated.state = row[r].state /\ rotated.stamp = row[r].stamp
        /\ rotated.host = row[r].host /\ rotated.sealed = sealed
    BY <2>2 DEF AppRows
  <2> HIDE DEF rotated
  <2>5. row'[r] = rotated /\ \A q \in Ids \ {r} : row'[q] = row[q]
    BY <2>1 DEF TypeOK, DatabaseTypeOK
  <2>6. \A a \in Apps :
           /\ row'[a].state = row[a].state /\ row'[a].stamp = row[a].stamp /\ row[a].stamp \in Nat
           /\ Creds(row'[a]) = Creds(row[a])
    BY <2>3, <2>4, <2>5 DEF Creds, Ids, TypeOK, DatabaseTypeOK, AppRows
  <2> QED
    BY <2>1, <2>6, RowMovesOn DEF There
<1>2. CASE Crash
  <2>1. /\ UNCHANGED <<row, sameMs>> /\ \A w \in Workers : appOf'[w] = NoId /\ wpc'[w] = "idle"
        /\ \A a \in Apps : cache'[a] = NoClient
    BY <1>2 DEF Crash, database, past
  <2>2. ASSUME NEW a \in Apps PROVE OneReading(a)'
    <3>1. \A w \in Workers : appOf'[w] # a
      BY <2>1, IdsAssumption
    <3>2. cache'[a].version.stamp = -1
      BY <2>1 DEF NoClient, NoVersion
    <3>3. row[a].stamp \in Nat
      BY DEF TypeOK, DatabaseTypeOK, AppRows, Ids
    <3> QED
      BY <2>1, <3>1, <3>2, <3>3 DEF OneReading
  <2> QED
    BY <2>1, <2>2, IdsAssumption DEF ClientsInv, ClientsAreOfTheRow
<1> QED
  BY <1>1, <1>2, ClientsUnchanged
  DEF Process, Boot, RotateRefuses, RotateDone, database, workers, past, clientJobs

LEMMA ClientsAsk ==
    ASSUME TypeOK, TypeOK', ClientsInv, NEW h \in Requests, Ask(h)
    PROVE  ClientsInv'
<1>1. ASSUME NEW r \in Ids, Create(h, r) PROVE ClientsInv'
  <2> DEFINE sealed == [c \in Columns |-> Seal(key, IF c \in ColumnsOf(r) THEN saves + 1 ELSE 0)]
             created == [Blank EXCEPT !.state = "there", !.host = saves + 1, !.sealed = sealed]
  <2>1. row' = [row EXCEPT ![r] = created] /\ UNCHANGED <<clientJobs, cache, sameMs>> /\ row[r].state = "unused"
    BY <1>1 DEF Create, workers, clientJobs
  <2> HIDE DEF sealed
  <2>2. created.state = "there"
    BY DEF Blank
  <2> HIDE DEF created
  <2>3. row'[r] = created /\ \A q \in Ids \ {r} : row'[q] = row[q]
    BY <2>1 DEF TypeOK, DatabaseTypeOK
  <2>4. \A a \in Apps : row[a].stamp \in Nat
    BY DEF TypeOK, DatabaseTypeOK, AppRows, Ids
  <2> QED
    BY <2>1, <2>2, <2>3, <2>4, RowMovesOn DEF There, Ids
<1>2. ASSUME NEW r \in Ids, Delete(h, r) PROVE ClientsInv'
  <2> DEFINE deleted == [Blank EXCEPT !.state = "deleted"]
  <2>1. row' = [row EXCEPT ![r] = deleted] /\ UNCHANGED <<clientJobs, cache, sameMs>>
    BY <1>2 DEF Delete, workers, clientJobs
  <2>2. deleted.state = "deleted"
    BY DEF Blank
  <2> HIDE DEF deleted
  <2>3. row'[r] = deleted /\ \A q \in Ids \ {r} : row'[q] = row[q]
    BY <2>1 DEF TypeOK, DatabaseTypeOK
  <2>4. \A a \in Apps : row[a].stamp \in Nat
    BY DEF TypeOK, DatabaseTypeOK, AppRows, Ids
  <2> QED
    BY <2>1, <2>2, <2>3, <2>4, RowMovesOn DEF There, Ids
<1> QED
  BY <1>1, <1>2, ClientsUnchanged DEF Ask, StartTest, ReadForForm, database, workers, past, clientJobs

LEMMA ClientsServe ==
    ASSUME TypeOK, TypeOK', ClientsInv, NEW h \in Requests, Serve(h)
    PROVE  ClientsInv'
<1> DEFINE i == id[h]
<1>1. CASE WriteForm(h)
  <2>1. PICK ms \in Nat :
           /\ ms \in Milliseconds(i)
           /\ row'[i] = NewRow(h, ms)
           /\ sameMs' = IF row[i].stamp = ms THEN sameMs \cup {i} ELSE sameMs
    BY <1>1, WriteWrites
  <2>2. i \in Ids /\ There(i) /\ \A q \in Ids \ {i} : row'[q] = row[q]
    BY <1>1, WriteWrites
  <2>3. row'[i].state = row[i].state /\ row'[i].stamp = ms
    BY <2>1, <2>2, FieldsOfNewRow
  <2>4. UNCHANGED <<clientJobs, cache>>
    BY <1>1 DEF WriteForm, workers, clientJobs
  <2>5. \A a \in Apps : row[a].stamp \in Nat
    BY DEF TypeOK, DatabaseTypeOK, AppRows, Ids
  <2>6. i \in Apps \ sameMs' => ms = row[i].stamp + 1
    BY <2>1 DEF Milliseconds
  <2> HIDE DEF i
  <2>7. \A a \in Apps \ sameMs' : There(a)' =>
           /\ There(a) /\ row'[a].stamp >= row[a].stamp
           /\ row'[a].stamp = row[a].stamp => Creds(row'[a]) = Creds(row[a])
    BY <2>2, <2>3, <2>5, <2>6 DEF There, Ids
  <2>8. sameMs \subseteq sameMs' /\ \A a \in Apps : row'[a].state = row[a].state
    BY <2>1, <2>2, <2>3 DEF Ids
  <2> QED
    BY <2>4, <2>7, <2>8, RowMovesOn
<1>2. CASE RecordTest(h)
  <2>1. /\ i \in Ids /\ UNCHANGED sameMs /\ \A q \in Ids \ {i} : row'[q] = row[q]
        /\ row'[i].state = row[i].state /\ Creds(row'[i]) = Creds(row[i])
        /\ row'[i] = row[i] \/ row'[i].stamp \in Milliseconds(i)
    BY <1>2, RecordRecords DEF Creds
  <2>2. UNCHANGED <<clientJobs, cache>>
    BY <1>2 DEF RecordTest, workers, clientJobs
  <2>3. \A a \in Apps : row[a].stamp \in Nat
    BY DEF TypeOK, DatabaseTypeOK, AppRows, Ids
  <2>4. i \in Apps => row'[i].stamp >= row[i].stamp
    BY <2>1, <2>3 DEF Milliseconds
  <2> HIDE DEF i
  <2>5. \A a \in Apps : /\ row'[a].state = row[a].state /\ row'[a].stamp >= row[a].stamp
                        /\ Creds(row'[a]) = Creds(row[a])
    BY <2>1, <2>3, <2>4 DEF Ids
  <2> QED
    BY <2>1, <2>2, <2>5, RowMovesOn DEF There
<1>3. CASE DropClient(h)
  <2>1. i \in Apps /\ cache' = [cache EXCEPT ![i] = NoClient] /\ UNCHANGED <<row, clientJobs, sameMs>>
    BY <1>3 DEF DropClient, database, past, clientJobs, TypeOK, AtWork
  <2> HIDE DEF i
  <2>2. \A a \in Apps : cache'[a] \in {cache[a], NoClient}
    BY <2>1 DEF TypeOK, WorkersTypeOK
  <2>3. NoClient.version.stamp = -1
    BY DEF NoClient, NoVersion
  <2>4. /\ \A a \in Apps : row[a].stamp \in Nat
        /\ \A w \in Workers : seen[w].stamp \in Nat
    BY DEF TypeOK, DatabaseTypeOK, WorkersTypeOK, AppRows, Ids
  <2>5. ASSUME NEW a \in Apps \ sameMs PROVE OneReading(a)'
    <3>1. OneReading(a)
      BY DEF ClientsInv
    <3>2. CASE cache'[a] = cache[a]
      BY <2>1, <3>1, <3>2 DEF OneReading, clientJobs, Creds, There
    <3>3. CASE cache'[a] = NoClient
      BY <2>1, <2>3, <2>4, <3>1, <3>3 DEF OneReading, clientJobs, Creds, There
    <3> QED
      BY <2>2, <3>2, <3>3
  <2> QED
    BY <2>1, <2>2, <2>5, JobsKept DEF ClientsInv, clientJobs
<1> QED
  BY <1>1, <1>2, <1>3, ClientsUnchanged
  DEF Serve, SaveFails, RowIsGone, ReadForSecrets, ReadForTest, database, workers, past, clientJobs

LEMMA ClientsRead ==
    ASSUME TypeOK, ClientsInv, NEW w \in Workers, NEW a \in Apps, ReadApp(w, a)
    PROVE  ClientsInv'
<1>1. /\ wpc[w] = "idle" /\ There(a) /\ UNCHANGED <<row, client, cache, sameMs>>
      /\ wpc' = [wpc EXCEPT ![w] = "lookup"]
      /\ appOf' = [appOf EXCEPT ![w] = a] /\ seen' = [seen EXCEPT ![w] = row[a]]
  BY DEF ReadApp, Step, database, past
<1>2. /\ wpc'[w] = "lookup" /\ appOf'[w] = a /\ seen'[w] = row[a]
      /\ \A v \in Workers \ {w} : wpc'[v] = wpc[v] /\ appOf'[v] = appOf[v] /\ seen'[v] = seen[v]
  BY <1>1 DEF TypeOK, WorkersTypeOK
<1>3. row[a].stamp \in Nat
  BY DEF TypeOK, DatabaseTypeOK, AppRows, Ids
<1>4. ASSUME NEW b \in Apps \ sameMs PROVE OneReading(b)'
  <2>1. OneReading(b)
    BY DEF ClientsInv
  <2>2. CASE b = a
    <3>1. ASSUME NEW v \in Workers, appOf'[v] = b
          PROVE  /\ seen'[v].stamp <= row[b].stamp
                 /\ seen'[v].stamp = row[b].stamp => Creds(seen'[v]) = Creds(row[b])
                 /\ cache[b].version.stamp = seen'[v].stamp => cache[b].creds = Creds(seen'[v])
      BY <1>1, <1>2, <1>3, <2>1, <2>2, <3>1 DEF OneReading
    <3>2. ASSUME NEW u \in Workers, NEW v \in Workers, appOf'[u] = b, appOf'[v] = b,
                 seen'[u].stamp = seen'[v].stamp
          PROVE  Creds(seen'[u]) = Creds(seen'[v])
      BY <1>1, <1>2, <2>1, <2>2, <3>2 DEF OneReading
    <3> QED
      BY <1>1, <2>1, <3>1, <3>2 DEF OneReading, There, Creds
  <2>3. CASE b # a
    <3>1. \A v \in Workers : appOf'[v] = b => appOf[v] = b /\ seen'[v] = seen[v]
      BY <1>2, <2>3
    <3> QED
      BY <1>1, <2>1, <3>1 DEF OneReading, There, Creds
  <2> QED
    BY <2>2, <2>3
<1>5. \A b \in Apps : row'[b].state = "unused" =>
         cache'[b] = NoClient /\ \A v \in Workers : appOf'[v] # b
  BY <1>1, <1>2 DEF ClientsInv, There
<1>6. ClientsAreOfTheRow'
  BY <1>1, <1>2 DEF ClientsInv, ClientsAreOfTheRow
<1> QED
  BY <1>1, <1>4, <1>5, <1>6 DEF ClientsInv

LEMMA ClientsHit ==
    ASSUME TypeOK, ClientsInv, NEW w \in Workers, CacheHit(w)
    PROVE  ClientsInv'
<1> DEFINE a == appOf[w]
<1>1. /\ wpc[w] = "lookup" /\ UNCHANGED <<row, appOf, seen, cache, sameMs>>
      /\ cache[a].version = Version(seen[w])
      /\ wpc' = [wpc EXCEPT ![w] = "have"] /\ client' = [client EXCEPT ![w] = cache[a].creds]
  BY DEF CacheHit, Step, database, past
<1>2. a \in Apps
  BY <1>1 DEF TypeOK, AtWork
<1>3. a \notin sameMs => cache[a].creds = Creds(seen[w])
  BY <1>1, <1>2 DEF ClientsInv, OneReading, Version
<1>4. /\ client'[w] = cache[a].creds
      /\ \A v \in Workers \ {w} : wpc'[v] = wpc[v] /\ client'[v] = client[v]
  BY <1>1 DEF TypeOK, WorkersTypeOK
<1>5. ClientsAreOfTheRow'
  BY <1>1, <1>3, <1>4 DEF ClientsInv, ClientsAreOfTheRow, Creds
<1>6. \A b \in Apps \ sameMs' : OneReading(b)'
  BY <1>1 DEF ClientsInv, OneReading, There, Creds
<1> QED
  BY <1>1, <1>5, <1>6 DEF ClientsInv

LEMMA ClientsLeave ==
    ASSUME TypeOK, ClientsInv, NEW w \in Workers, Leave(w), UNCHANGED <<row, cache, sameMs>>
    PROVE  ClientsInv'
<1>1. /\ wpc'[w] = "idle" /\ appOf'[w] = NoId
      /\ \A v \in Workers \ {w} :
            /\ wpc'[v] = wpc[v] /\ appOf'[v] = appOf[v]
            /\ seen'[v] = seen[v] /\ client'[v] = client[v]
  BY DEF Leave, Step, TypeOK, WorkersTypeOK
<1>2. \A v \in Workers : appOf'[v] \in Apps => appOf[v] = appOf'[v] /\ seen'[v] = seen[v]
  BY <1>1, IdsAssumption DEF Ids
<1>3. ASSUME NEW b \in Apps \ sameMs' PROVE OneReading(b)'
  <2>1. OneReading(b)
    BY DEF ClientsInv
  <2> QED
    BY <1>2, <2>1 DEF OneReading, There, Creds
<1>4. ClientsAreOfTheRow'
  BY <1>1 DEF ClientsInv, ClientsAreOfTheRow
<1> QED
  BY <1>2, <1>3, <1>4 DEF ClientsInv

LEMMA ClientsMiss ==
    ASSUME TypeOK, TypeOK', ClientsInv, NEW w \in Workers, CacheMiss(w)
    PROVE  ClientsInv'
<1>1. CASE Opens(key, seen[w].sealed["secret"])
  <2>1. /\ UNCHANGED <<row, appOf, seen, cache, sameMs>>
        /\ wpc' = [wpc EXCEPT ![w] = "store"] /\ client' = [client EXCEPT ![w] = Creds(seen[w])]
    BY <1>1 DEF CacheMiss, Step, database, past
  <2>2. /\ client'[w] = Creds(seen[w])
        /\ \A v \in Workers \ {w} : wpc'[v] = wpc[v] /\ client'[v] = client[v]
    BY <2>1 DEF TypeOK, WorkersTypeOK
  <2>3. ClientsAreOfTheRow'
    BY <2>1, <2>2 DEF ClientsInv, ClientsAreOfTheRow, Creds
  <2>4. \A b \in Apps \ sameMs' : OneReading(b)'
    BY <2>1 DEF ClientsInv, OneReading, There, Creds
  <2> QED
    BY <2>1, <2>3, <2>4 DEF ClientsInv
<1>2. CASE ~Opens(key, seen[w].sealed["secret"])
  BY <1>2, ClientsLeave DEF CacheMiss, database, past
<1> QED
  BY <1>1, <1>2

LEMMA ClientsStore ==
    ASSUME TypeOK, ClientsInv, NEW w \in Workers, CacheStore(w)
    PROVE  ClientsInv'
<1> DEFINE a == appOf[w]
<1>1. /\ wpc[w] = "store" /\ UNCHANGED <<row, appOf, seen, client, sameMs>>
      /\ cache' = [cache EXCEPT ![a] = [version |-> Version(seen[w]), creds |-> client[w]]]
      /\ wpc' = [wpc EXCEPT ![w] = "have"]
  BY DEF CacheStore, Step, database, past
<1>2. a \in Apps
  BY <1>1 DEF TypeOK, AtWork
<1>3. a \notin sameMs => client[w] = Creds(seen[w])
  BY <1>1 DEF ClientsInv, ClientsAreOfTheRow
<1>4. /\ cache'[a].version.stamp = seen[w].stamp /\ cache'[a].creds = client[w]
      /\ \A b \in Apps \ {a} : cache'[b] = cache[b]
  BY <1>1, <1>2 DEF TypeOK, WorkersTypeOK, Version
<1>5. ASSUME NEW b \in Apps \ sameMs PROVE OneReading(b)'
  <2>1. OneReading(b)
    BY DEF ClientsInv
  <2>2. CASE b = a
    BY <1>1, <1>3, <1>4, <2>1, <2>2 DEF OneReading, There, Creds
  <2>3. CASE b # a
    BY <1>1, <1>4, <2>1, <2>3 DEF OneReading, There, Creds
  <2> QED
    BY <2>2, <2>3
<1>6. ClientsAreOfTheRow'
  <2>1. \A v \in Workers : wpc'[v] \in {"store", "have"} => wpc[v] \in {"store", "have"}
    BY <1>1 DEF TypeOK, WorkersTypeOK
  <2> QED
    BY <1>1, <2>1 DEF ClientsInv, ClientsAreOfTheRow, Creds
<1>7. \A b \in Apps : row'[b].state = "unused" =>
         cache'[b] = NoClient /\ \A v \in Workers : appOf'[v] # b
  BY <1>1, <1>2, <1>4 DEF ClientsInv
<1> QED
  BY <1>1, <1>5, <1>6, <1>7 DEF ClientsInv

LEMMA ClientsStep == TypeOK /\ TypeOK' /\ ClientsInv /\ [VaultNext]_vaultVars => ClientsInv'
<1> SUFFICES ASSUME TypeOK, TypeOK', ClientsInv, [VaultNext]_vaultVars PROVE ClientsInv'
  OBVIOUS
<1>1. ASSUME NEW w \in Workers, Work(w) PROVE ClientsInv'
  <2>1. CASE JobEnds(w)
    BY <2>1, ClientsLeave DEF JobEnds, database, past
  <2> QED
    BY <1>1, <2>1, ClientsRead, ClientsHit, ClientsMiss, ClientsStore DEF Work
<1>2. CASE UNCHANGED vaultVars
  BY <1>2, ClientsUnchanged DEF vaultVars, database, workers, past, clientJobs
<1> QED
  BY <1>1, <1>2, ClientsProcess, ClientsAsk, ClientsServe DEF VaultNext

\* A job calls GitHub with the credentials of the row it read, whichever clients
\* other jobs stored, unless its App was saved twice within a millisecond.
THEOREM JobsUseTheirRow == VaultSpec => []ClientsAreOfTheRow
<1>1. VaultInit => ClientsInv
  <2> SUFFICES ASSUME VaultInit PROVE ClientsInv
    OBVIOUS
  <2>1. /\ \A w \in Workers : appOf[w] = NoId /\ wpc[w] = "idle"
        /\ \A a \in Apps : cache[a] = NoClient /\ ~There(a)
    BY DEF VaultInit, There, Ids, Blank
  <2>2. \A a \in Apps : OneReading(a)
    BY <2>1, IdsAssumption DEF OneReading, Ids
  <2> QED
    BY <2>1, <2>2, IdsAssumption DEF ClientsInv, ClientsAreOfTheRow, Ids
<1>2. TypeOK /\ TypeOK' /\ ClientsInv /\ [VaultNext]_vaultVars => ClientsInv'
  BY ClientsStep
<1>3. ClientsInv => ClientsAreOfTheRow
  BY DEF ClientsInv
<1> QED
  BY <1>1, <1>2, <1>3, TypeCorrect, PTL DEF VaultSpec
=============================================================================
