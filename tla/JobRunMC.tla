----------------------------- MODULE JobRunMC ------------------------------
(* The jobs TLC runs: a push whose binding and checkout vary, and pull     *)
(* requests that vary one thing at a time.                                 *)
EXTENDS JobRun

Only(form, S) == [s \in StepIds |-> IF s \in S THEN form ELSE "unset"]

NoProject == [languages |-> {}, parses |-> TRUE, scripts |-> {}, pytest |-> FALSE]
Project(languages) == [NoProject EXCEPT !.languages = languages]

\* Every shape of file: none, broken, without commands, with some, with blanks only;
\* a timeout below and above the job's, and an image of each kind.
Files == {MissingFile, BrokenFile,
          File(Unset, NoTimeout, "illegal"),
          File(Unset, 1, "worker"),
          File(Only("command", {Install, Test}), NoTimeout, "image"),
          File(Only("command", {Install, Test}), 3, "worker"),
          File(Only("command", {Build}), BadTimeout, "worker"),
          File(Only("blank", {Test}), NoTimeout, "worker")}

\* Every detector, alone and with Node, which wins; a package.json that is not JSON.
Projects == {NoProject,
             [Project({"node"}) EXCEPT !.parses = FALSE],
             [Project({"node", "go"}) EXCEPT !.scripts = {Build}],
             Project({"rust"}),
             Project({"python"})}

Push == [skip |-> FALSE, paths |-> FALSE, base |-> TRUE, rangeMatches |-> TRUE,
         headMatches |-> TRUE, truncated |-> FALSE, pull |-> FALSE, fork |-> FALSE,
         emptyFails |-> FALSE, file |-> MissingFile, overrides |-> Unset,
         project |-> Project({"python"}), timeout |-> JobTimeout, defaultRuntime |-> "image"]

Plans == {[Push EXCEPT !.file = f, !.overrides = o, !.project = p, !.emptyFails = e] :
            f \in Files, o \in {Unset, Only("command", {Test})}, p \in Projects, e \in BOOLEAN}

Filters == {[Push EXCEPT !.paths = TRUE, !.base = b, !.rangeMatches = r, !.headMatches = h,
                         !.truncated = t, !.file = f] :
              b \in BOOLEAN, r \in BOOLEAN, h \in BOOLEAN, t \in BOOLEAN,
              f \in {MissingFile, BrokenFile}}

PullRequests == {[Push EXCEPT !.pull = TRUE, !.fork = k, !.skip = s] :
                   k \in BOOLEAN, s \in BOOLEAN}

AllInputs == Plans \cup Filters \cup PullRequests

=============================================================================
