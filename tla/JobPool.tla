------------------------------ MODULE JobPool ------------------------------
(***************************************************************************)
(* What the queue promises, with no database, goroutine or GitHub in it: a *)
(* pool of at most Limit active jobs.  A job is submitted once, started    *)
(* only while there is room, and once done is never started again; only an *)
(* interruption of the pool itself puts an active job back in line.        *)
(* JobRunner implements this specification (see Pool there).               *)
(***************************************************************************)
EXTENDS Integers, FiniteSets

CONSTANTS Jobs,    \* the job ids
          Limit    \* how many jobs may be active at once

VARIABLE phase     \* [Jobs -> Phases]

Phases == {"absent", "pending", "active", "done"}

InPhase(p) == {j \in Jobs : phase[j] = p}

TypeOK == phase \in [Jobs -> Phases]

Init == phase = [j \in Jobs |-> "absent"]

Submit(j) ==
    /\ phase[j] = "absent"
    /\ phase' = [phase EXCEPT ![j] = "pending"]

Start(j) ==
    /\ phase[j] = "pending"
    /\ Cardinality(InPhase("active")) < Limit
    /\ phase' = [phase EXCEPT ![j] = "active"]

Retire(j) ==
    /\ phase[j] = "active"
    /\ phase' = [phase EXCEPT ![j] = "done"]

\* A job whose end could not be recorded: it waits for the next interruption.
Lose(j) ==
    /\ phase[j] = "active"
    /\ phase' = [phase EXCEPT ![j] = "pending"]

\* A job cancelled before it ever started.
Withdraw(j) ==
    /\ phase[j] = "pending"
    /\ phase' = [phase EXCEPT ![j] = "done"]

\* The pool dies: nothing is active afterwards; each job that was is back in
\* line or, when its end was already recorded, done.
Interrupt ==
    \E back \in SUBSET InPhase("active") :
        phase' = [j \in Jobs |-> CASE phase[j] # "active" -> phase[j]
                                   [] j \in back          -> "pending"
                                   [] OTHER               -> "done"]

Next ==
    \/ Interrupt
    \/ \E j \in Jobs : Submit(j) \/ Start(j) \/ Retire(j) \/ Lose(j) \/ Withdraw(j)

Spec == Init /\ [][Next]_phase
=============================================================================
