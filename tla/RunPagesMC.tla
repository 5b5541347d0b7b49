----------------------------- MODULE RunPagesMC -----------------------------
(* JobRun and Pages for TLC, side by side: a behaviour is one run of a job,  *)
(* or what a browser does with the console.                                  *)
EXTENDS JobRunMC, PagesMC

VARIABLE part  \* what the behaviour is about

AnyJob == CHOOSE in \in AllInputs : TRUE
AnyStart == New(TRUE)

RunPagesInit ==
    /\ part \in {"run", "pages"}
    /\ RunInit /\ (part # "run" => job = AnyJob)
    /\ Init /\ (part # "pages" => d = AnyStart /\ ~signedIn)

\* A run that is over stays so, and stops nowhere else.
RunOver == part = "run" /\ pc = "done"

RunPagesNext ==
    /\ UNCHANGED part
    /\ \/ part = "run" /\ RunNext /\ UNCHANGED vars
       \/ part = "pages" /\ Next /\ UNCHANGED runVars
       \/ RunOver /\ UNCHANGED <<vars, runVars>>

\* The fairness of JobRun's RunFairSpec.
RunPagesSpec ==
    /\ RunPagesInit /\ [][RunPagesNext]_<<part, vars, runVars>>
    /\ WF_runVars(part = "run" /\ Local)
    /\ WF_runVars(part = "run" /\ Clock)
    /\ WF_runVars(part = "run" /\ ~Live /\ Remote)
=============================================================================
