------------------------------ MODULE JobTable ------------------------------
(***************************************************************************)
(* What an HTTP handler sees of the data plane: the status column of each  *)
(* job, whether the process holds the job (claimed by drain, or registered *)
(* in Runner.running), and whether its context has been told to stop.      *)
(* Check Runs, limits, the claim loop and the stages of runJob are left    *)
(* out: JobRunner has them, and implements this specification.             *)
(***************************************************************************)
EXTENDS JobData

CONSTANTS Jobs,
          Endings     \* bound: the endings of runJob that are told apart

VARIABLES status,     \* as in JobRunner
          owner,      \* "none", "claimed" (drain holds it), "running", or
                      \* "ending": runJob has written the row
          signalled   \* its context is dead

tableVars == <<status, owner, signalled>>

TableInit ==
    /\ status = [j \in Jobs |-> "absent"]
    /\ owner = [j \in Jobs |-> "none"]
    /\ signalled = [j \in Jobs |-> FALSE]

\* store.EnqueueJob
Enqueue(j) ==
    /\ status[j] = "absent"
    /\ status' = [status EXCEPT ![j] = "queued"]
    /\ UNCHANGED <<owner, signalled>>

\* store.ClaimNextJob, called by drain: one goroutine, which starts a job before it
\* claims the next
ClaimNext(j) ==
    /\ \A k \in Jobs : owner[k] # "claimed"
    /\ status[j] = "queued"
    /\ status' = [status EXCEPT ![j] = "in_progress"]
    /\ owner' = [owner EXCEPT ![j] = "claimed"]
    /\ UNCHANGED signalled

\* startJob, possibly under a process context that is already cancelled
Register(j) ==
    /\ owner[j] = "claimed"
    /\ owner' = [owner EXCEPT ![j] = "running"]
    /\ \E dead \in BOOLEAN : signalled' = [signalled EXCEPT ![j] = dead]
    /\ UNCHANGED status

\* The keys of Runner.running.
Registered == {j \in Jobs : owner[j] \in {"running", "ending"}}

\* CancelJob found it running, its timeout passed, or the process stops
Signal(S) ==
    /\ S \subseteq Registered
    /\ signalled' = [j \in Jobs |-> signalled[j] \/ j \in S]
    /\ UNCHANGED <<status, owner>>

\* CancelJob did not find it running and saw its row in flight a moment ago
MarkCancelled(j) ==
    /\ status[j] # "absent"
    /\ status' = [status EXCEPT ![j] = "cancelled"]
    /\ UNCHANGED <<owner, signalled>>

\* runJob writes the row; a stopped job does not succeed
End(j) ==
    /\ owner[j] = "running"
    /\ \E s \in Endings :
          /\ s = "success" => ~signalled[j]
          /\ status' = [status EXCEPT ![j] = s]
    /\ owner' = [owner EXCEPT ![j] = "ending"]
    /\ UNCHANGED signalled

\* ... or fails to: FinishJob's error is only logged
EndUnwritten(j) ==
    /\ owner[j] = "running"
    /\ owner' = [owner EXCEPT ![j] = "ending"]
    /\ UNCHANGED <<status, signalled>>

\* the deferred delete of startJob
Leave(j) ==
    /\ owner[j] = "ending"
    /\ owner' = [owner EXCEPT ![j] = "none"]
    /\ signalled' = [signalled EXCEPT ![j] = FALSE]
    /\ UNCHANGED status

\* the process dies
Die ==
    /\ owner' = [j \in Jobs |-> "none"]
    /\ signalled' = [j \in Jobs |-> FALSE]
    /\ UNCHANGED status

\* store.RequeueStaleJobs on the next boot
RequeueStale ==
    /\ \A j \in Jobs : owner[j] = "none"
    /\ status' = [j \in Jobs |-> IF status[j] = "in_progress" THEN "queued" ELSE status[j]]
    /\ UNCHANGED <<owner, signalled>>

\* What the data plane does on its own while the process is up.
RunnerStep ==
    \E j \in Jobs : ClaimNext(j) \/ Register(j) \/ End(j) \/ Leave(j)

TableNext ==
    \/ RunnerStep \/ Die \/ RequeueStale
    \/ \E j \in Jobs : Enqueue(j) \/ MarkCancelled(j) \/ EndUnwritten(j)
    \/ \E S \in SUBSET Jobs : Signal(S)

TableSpec == TableInit /\ [][TableNext]_tableVars
=============================================================================
