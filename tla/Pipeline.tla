------------------------------ MODULE Pipeline ------------------------------
(***************************************************************************)
(* What a checkout runs: pipeline.Resolve and the detectors it falls back  *)
(* on (internal/pipeline), as functions of what they read.                 *)
(*                                                                         *)
(* A command is abstracted to what the code tests of it: unset, made of    *)
(* blanks only, or a command.  The steps are numbered in the order they    *)
(* run in, so a plan is a set of them.                                     *)
(***************************************************************************)
EXTENDS Integers, Sequences

Install == 1
Test == 2
Build == 3
StepIds == {Install, Test, Build}

CommandForms == {"unset", "blank", "command"}
Commands == [StepIds -> CommandForms]
Unset == [s \in StepIds |-> "unset"]

Runtimes == {"worker", "image", "illegal"}   \* no image, a name ValidImage takes, or not

NoTimeout == 0
BadTimeout == -1          \* not a duration, or not a positive one

\* What LoadSpec finds: no file, one it cannot read or parse, or a Spec.
MissingFile == [kind |-> "missing", commands |-> Unset, timeout |-> NoTimeout, runtime |-> "worker"]
BrokenFile == [MissingFile EXCEPT !.kind = "broken"]
File(commands, timeout, runtime) ==
    [kind |-> "spec", commands |-> commands, timeout |-> timeout, runtime |-> runtime]

\* Spec.Install != "" or one of the others; Overrides.Any
Sets(commands) == \E s \in StepIds : commands[s] # "unset"

\* named: the commands that are more than blanks
Named(commands) == {s \in StepIds : commands[s] = "command"}

(***************************************************************************)
(* infer.  A project is the set of ecosystems whose marker file is there,  *)
(* whether package.json can be parsed, the scripts it has, and whether     *)
(* something says that there are Python tests.                             *)
(***************************************************************************)
Detectors == <<"node", "go", "rust", "python">>

\* The first detector that matches.
Winner(project) ==
    LET Matches(i) == Detectors[i] \in project.languages
        first == CHOOSE i \in 1..4 : Matches(i) /\ \A k \in 1..4 : k < i => ~Matches(k)
    IN Detectors[first]

Inferred(project) ==
    CASE Winner(project) = "node"   -> {Install} \cup (project.scripts \cap {Test, Build})
      [] Winner(project) = "go"     -> {Install, Test, Build}
      [] Winner(project) = "rust"   -> {Install, Test, Build}
      [] Winner(project) = "python" -> {Install} \cup (IF project.pytest THEN {Test} ELSE {})

InferFails(project) == Winner(project) = "node" /\ ~project.parses

(***************************************************************************)
(* Resolve.  Its inputs: the file, the commands of the binding, the        *)
(* project, the timeout the job started with, whether the commit comes     *)
(* from a fork, and settings.default_runtime.                              *)
(***************************************************************************)
NoPlan == [kind |-> "nothing", source |-> "none", steps |-> {}, timeout |-> NoTimeout,
            runtime |-> "worker"]
Invalid == [NoPlan EXCEPT !.kind = "invalid"]

\* recordRuntime
Runtime(in) ==
    IF in.file.runtime # "worker" THEN in.file.runtime
    ELSE IF in.fork THEN in.defaultRuntime ELSE "worker"

Timeout(in) == IF in.file.timeout = NoTimeout THEN in.timeout ELSE in.file.timeout

Plan(in, source, steps) ==
    [kind |-> "plan", source |-> source, steps |-> steps, timeout |-> Timeout(in),
     runtime |-> Runtime(in)]

\* The timeout is parsed, and its error returned, before the commands are looked at.
Resolve(in) ==
    CASE in.file.kind = "broken" \/ in.file.timeout = BadTimeout -> Invalid
      [] OTHER ->
            IF Sets(in.file.commands) THEN Plan(in, "file", Named(in.file.commands))
            ELSE IF Sets(in.overrides) THEN Plan(in, "binding", Named(in.overrides))
            ELSE IF in.project.languages = {} THEN NoPlan
            ELSE IF InferFails(in.project) THEN Invalid
            ELSE Plan(in, "inferred", Inferred(in.project))
=============================================================================
