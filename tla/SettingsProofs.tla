--------------------------- MODULE SettingsProofs ---------------------------
(***************************************************************************)
(* Settings: whatever PATCHes, deliveries and claims interleave, the row   *)
(* stays valid, no PATCH loses another's field, and a job of a fork runs   *)
(* only as its delivery decided.                                           *)
(***************************************************************************)
EXTENDS Settings, TLAPS

\* What Accepted asks of a row, and the bound of its slots.
Valid(row) == row.slots >= 1 /\ (row.skipForks \/ row.runtime)

\* A handler about to save holds a valid row, that is the one it read but for
\* the fields its form names.
HoldsPatch(a) ==
    /\ a.base \in Settings /\ a.next \in Settings
    /\ Valid(a.next)
    /\ \A f \in Fields \ a.named : a.next[f] = a.base[f]

\* What was read is some valid row; what a delivery queued was judged by its policy.
Judged(job) ==
    /\ job.skip \in BOOLEAN /\ job.isFork \in BOOLEAN
    /\ job.policy \in Policies
    /\ ~job.skip /\ job.isFork => ~job.policy.skipForks /\ job.policy.runtime

RanAsDecided(job) == job.isFork => ~job.policy.skipForks /\ (job.same => job.docker)

IInv ==
    /\ settings \in Settings /\ seen \in Policies
    /\ Valid(settings)
    /\ saved = settings
    /\ rpc \in [Requests -> {"idle", "save", "deliver"}]
    /\ arg = [h \in Requests |-> arg[h]]
    /\ jobs = [j \in Runs |-> jobs[j]]
    /\ \A h \in Requests : rpc[h] = "save" => HoldsPatch(arg[h])
    /\ \A h \in Requests : rpc[h] = "deliver" => arg[h].policy \in Policies
    /\ \A j \in Runs : jobs[j].state # "none" => jobs[j].policy \in Policies
    /\ \A j \in Runs : jobs[j].state = "queued" => Judged(jobs[j])
    /\ \A j \in Runs : jobs[j].state = "ran" => RanAsDecided(jobs[j])

-----------------------------------------------------------------------------
\* A patched row is a row, and differs from the valid one it patches in the
\* named fields only: the lower bound of the slots changes nothing else.
LEMMA PatchedKeepsTheRest ==
    ASSUME NEW row \in Settings, Valid(row), NEW named, NEW values \in Values
    PROVE  /\ Patched(row, named, values) \in Settings
           /\ Patched(row, named, values).slots >= 1
           /\ \A f \in Fields \ named : Patched(row, named, values)[f] = row[f]
<1>. DEFINE next == Patched(row, named, values)
<1>1. row.slots \in Int /\ row.slots >= 1 /\ values.slots \in Int
  BY DEF Settings, Values, Valid
<1>2. next.slots \in Int /\ next.slots >= 1
  BY <1>1 DEF Patched, AtLeastOne
<1>3. next \in Settings
  BY <1>2 DEF Patched, Settings, Values
<1>4. ASSUME NEW f \in Fields \ named
      PROVE  next[f] = row[f]
  BY <1>1, <1>4 DEF Patched, AtLeastOne, Fields, Settings
<1>. QED BY <1>2, <1>3, <1>4

\* Saving over the row that was read is saving the named fields: no PATCH that
\* read the current row loses a field.
LEMMA SavedOverWhatWasRead ==
    ASSUME NEW base \in Settings, NEW next \in Settings, NEW named,
           \A f \in Fields \ named : next[f] = base[f]
    PROVE  [f \in Fields |-> IF f \in named THEN next[f] ELSE base[f]] = next
<1>1. next = [f \in Fields |-> next[f]]
  BY DEF Settings, Fields
<1>2. [f \in Fields |-> IF f \in named THEN next[f] ELSE base[f]] = [f \in Fields |-> next[f]]
  OBVIOUS
<1>. QED BY <1>1, <1>2

-----------------------------------------------------------------------------
LEMMA InitIInv == SettingsInit => IInv
BY DEF SettingsInit, IInv, DefaultSettings, Settings, Policy, Policies, Valid, NoArg, NoRun

LEMMA StepIInv == IInv /\ [SettingsNext]_settingsVars => IInv'
<1>. SUFFICES ASSUME IInv, [SettingsNext]_settingsVars PROVE IInv'
  OBVIOUS
<1>. USE DEF IInv
<1>1. ASSUME NEW h \in Requests, Deliver(h) PROVE IInv'
  BY <1>1 DEF Deliver, Begin, Policy, Policies, Settings
<1>2. ASSUME NEW h \in Requests, Abandon(h) PROVE IInv'
  BY <1>2 DEF Abandon, Reply
<1>3. ASSUME NEW h \in Requests, NEW named, NEW values \in Values,
             ReadSettings(h, named, values)
      PROVE  IInv'
  <2>. DEFINE next == Patched(settings, named, values)
  <2>1. next \in Settings /\ next.slots >= 1 /\ \A f \in Fields \ named : next[f] = settings[f]
    BY PatchedKeepsTheRest
  <2>2. next.skipForks \/ next.runtime
    BY <1>3 DEF ReadSettings, Accepted
  <2>3. PICK a : /\ a = [on |-> "settings", base |-> settings, next |-> next, named |-> named]
                 /\ Begin(h, "save", a)
    BY <1>3 DEF ReadSettings
  <2>. HIDE DEF next
  <2>4. HoldsPatch(a)
    BY <2>1, <2>2, <2>3 DEF HoldsPatch, Valid
  <2>5. UNCHANGED <<settings, jobs, seen, writes, saved>>
    BY <1>3 DEF ReadSettings
  <2>. QED BY <2>3, <2>4, <2>5 DEF Begin
<1>4. ASSUME NEW h \in Requests, Save(h) PROVE IInv'
  <2>1. HoldsPatch(arg[h]) /\ settings' = arg[h].next
    BY <1>4 DEF Save
  <2>2. settings' \in Settings /\ Valid(settings')
    BY <2>1 DEF HoldsPatch
  <2>3. saved' = settings'
    <3>1. CASE settings = arg[h].base
      <4>1. saved' = [f \in Fields |-> IF f \in arg[h].named THEN arg[h].next[f] ELSE saved[f]]
        BY <1>4, <3>1 DEF Save, Kept
      <4>2. [f \in Fields |-> IF f \in arg[h].named THEN arg[h].next[f] ELSE settings[f]]
                = arg[h].next
        BY <2>1, <3>1, SavedOverWhatWasRead DEF HoldsPatch
      <4>. QED BY <4>1, <4>2, <2>1
    <3>2. CASE settings # arg[h].base
      BY <1>4, <3>2 DEF Save
    <3>. QED BY <3>1, <3>2
  <2>4. Reply(h) /\ UNCHANGED <<jobs, seen>>
    BY <1>4 DEF Save
  <2>. QED BY <2>2, <2>3, <2>4 DEF Reply
<1>5. ASSUME NEW h \in Requests, EnqueueFork(h) PROVE IInv'
  <2>1. PICK j \in Runs, docker \in BOOLEAN :
            jobs' = [jobs EXCEPT ![j] =
                       [state |-> "queued", skip |-> Refuses(arg[h].policy, docker),
                        isFork |-> TRUE, policy |-> arg[h].policy]]
    BY <1>5 DEF EnqueueFork
  <2>2. arg[h].policy \in Policies /\ arg[h].policy.skipForks \in BOOLEAN
                                   /\ arg[h].policy.runtime \in BOOLEAN
    BY <1>5 DEF EnqueueFork, Policies
  <2>3. Judged(jobs'[j]) /\ jobs'[j].state = "queued" /\ jobs'[j].policy \in Policies
    BY <2>1, <2>2 DEF Judged, Refuses
  <2>4. jobs' = [k \in Runs |-> jobs'[k]] /\ \A k \in Runs \ {j} : jobs'[k] = jobs[k]
    BY <2>1
  <2>5. Reply(h) /\ UNCHANGED <<settings, seen, saved>>
    BY <1>5 DEF EnqueueFork
  <2>. QED BY <2>3, <2>4, <2>5 DEF Reply
<1>6. CASE ReadForClaim
  BY <1>6 DEF ReadForClaim, Policy, Policies, Settings
<1>7. ASSUME NEW j \in Runs, ClaimAndRun(j) PROVE IInv'
  <2>1. PICK image \in BOOLEAN :
          jobs' = [jobs EXCEPT ![j] =
             IF @.skip THEN [state |-> "skipped", policy |-> @.policy]
             ELSE [state |-> "ran", docker |-> image \/ (@.isFork /\ seen.runtime),
                   isFork |-> @.isFork, policy |-> @.policy, same |-> seen = @.policy]]
    BY <1>7 DEF ClaimAndRun
  <2>2. Judged(jobs[j])
    BY <1>7 DEF ClaimAndRun
  <2>3. /\ jobs'[j].state # "queued" /\ jobs'[j].policy \in Policies
        /\ jobs'[j].state = "ran" => RanAsDecided(jobs'[j])
    <3>1. CASE jobs[j].skip
      BY <3>1, <2>1, <2>2 DEF Judged
    <3>2. CASE ~jobs[j].skip
      BY <3>2, <2>1, <2>2 DEF Judged, RanAsDecided
    <3>. QED BY <3>1, <3>2
  <2>4. jobs' = [k \in Runs |-> jobs'[k]] /\ \A k \in Runs \ {j} : jobs'[k] = jobs[k]
    BY <2>1
  <2>5. UNCHANGED <<settings, seen, rpc, arg, saved>>
    BY <1>7 DEF ClaimAndRun
  <2>. QED BY <2>3, <2>4, <2>5
<1>8. ASSUME NEW j \in Runs, NEW old \in Runs, RerunFork(j, old) PROVE IInv'
  <2>1. jobs' = [jobs EXCEPT ![j] = [state |-> "queued", skip |-> FALSE, isFork |-> FALSE,
                                     policy |-> jobs[old].policy]]
    BY <1>8 DEF RerunFork
  <2>2. jobs[old].policy \in Policies
    BY <1>8 DEF RerunFork
  <2>3. jobs'[j].state = "queued" /\ jobs'[j].policy \in Policies /\ Judged(jobs'[j])
    BY <2>1, <2>2 DEF Judged
  <2>4. jobs' = [k \in Runs |-> jobs'[k]] /\ \A k \in Runs \ {j} : jobs'[k] = jobs[k]
    BY <2>1
  <2>5. UNCHANGED <<settings, seen, rpc, arg, saved>>
    BY <1>8 DEF RerunFork
  <2>. QED BY <2>3, <2>4, <2>5
<1>9. CASE UNCHANGED settingsVars
  BY <1>9 DEF settingsVars
<1>. QED BY <1>1, <1>2, <1>3, <1>4, <1>5, <1>6, <1>7, <1>8, <1>9 DEF SettingsNext

LEMMA SpecIInv == SettingsSpec => []IInv
BY InitIInv, StepIInv, PTL DEF SettingsSpec

-----------------------------------------------------------------------------
(* The theorems.                                                           *)

\* PATCHes that interleave, each checked against the row it read, leave a row
\* the checks accept: Save writes all of the row that was checked.
THEOREM SettingsStayValid == SettingsSpec => []SettingsAreValid
<1>1. IInv => SettingsAreValid
  BY DEF IInv, Valid, SettingsAreValid
<1>. QED BY <1>1, SpecIInv, PTL

\* A setting is as the last PATCH that named it left it, but for PATCHes that
\* had read a row that has changed since.
THEOREM PatchesKeepTheRest == SettingsSpec => []PatchesAreKept
<1>1. IInv => PatchesAreKept
  BY DEF IInv, PatchesAreKept
<1>. QED BY <1>1, SpecIInv, PTL

\* A delivery that came while forks were off is never run, and one that is run
\* under the settings it was judged by runs in Docker.
THEOREM ForksRunAsDecided == SettingsSpec => []ForkRunsAsDecided
<1>1. IInv => ForkRunsAsDecided
  BY DEF IInv, RanAsDecided, ForkRunsAsDecided
<1>. QED BY <1>1, SpecIInv, PTL
=============================================================================
