---------------------------- MODULE RunnerLogMC -----------------------------
(* JobRunner and JobLog for TLC, side by side: a behaviour is what the       *)
(* runner does with a job, or what becomes of a job's log and of the page    *)
(* that follows it.                                                          *)
EXTENDS JobRunnerMC, JobLog

VARIABLE part  \* what the behaviour is about

RunnerLogInit ==
    /\ part \in {"runner", "log"}
    /\ Init
    /\ LogInit /\ (part # "log" => maxLogBytes = CHOOSE cap1 \in Caps : TRUE)

RunnerLogNext ==
    /\ UNCHANGED part
    /\ \/ part = "runner" /\ Next /\ UNCHANGED logVars
       \/ part = "log" /\ LogNext /\ UNCHANGED vars

\* The fairness of JobRunner's FairSpec and of JobLog's LogFairSpec, each in its part.
RunnerLogSpec ==
    /\ RunnerLogInit /\ [][RunnerLogNext]_<<part, vars, logVars>>
    /\ WF_vars(part = "runner" /\ Launch)
    /\ WF_vars(part = "runner" /\ Requeue)
    /\ WF_vars(part = "runner" /\ Exit)
    /\ WF_vars(part = "runner" /\ Loop)
    /\ SF_vars(part = "runner" /\ SelectDone)
    /\ \A j \in Jobs : /\ WF_vars(part = "runner" /\ Local(j))
                       /\ WF_vars(part = "runner" /\ Expire(j))
                       /\ WF_vars(part = "runner" /\ ctx[j] # "live" /\ Work(j))
    /\ \A h \in Callers : WF_vars(part = "runner" /\ Serve(h))
    /\ WF_logVars(part = "log" /\ (Connect \/ ConnectToNothing))
    /\ WF_logVars(part = "log" /\ (SendChunk \/ SendEnds))
    /\ WF_logVars(part = "log" /\ (Poll \/ PollFindsNothing))
=============================================================================
