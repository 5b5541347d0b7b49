-------------------------------- MODULE Forms --------------------------------
(***************************************************************************)
(* The fields of the console's HTML forms: what the page draws in each     *)
(* (internal/web/pages, internal/web/components), what a browser may send  *)
(* for it, and how a handler reads it (input, api/server.go).              *)
(*                                                                         *)
(* What a field sends is a set of texts: several for a group of            *)
(* checkboxes, none for a box that is not checked.                         *)
(***************************************************************************)
EXTENDS Integers, Sequences, FiniteSets

CONSTANTS
    Typed,      \* texts a user types: words a slug, an image, a path or a URL may be
    Repos,      \* owner/name texts
    Counts,     \* numbers a user types
    Numbers,    \* those, the ones the database holds, and the ids
    Numeral(_)  \* a number, written out

\* 0, the least each setting may be, and a greatest number.
ASSUME NumbersAssumption ==
    /\ Numbers \subseteq Nat /\ {0, 1, 30, 4096} \subseteq Numbers
    /\ \E n \in Numbers : \A k \in Numbers : k <= n
    /\ Counts \subseteq Numbers /\ Counts # {} /\ 0 \notin Counts
ASSUME NumeralsAssumption ==
    /\ \A m, n \in Numbers : Numeral(m) = Numeral(n) => m = n
    /\ \A n \in Numbers : Numeral(n) # ""
ASSUME ReposAssumption == Repos # {} /\ "" \notin Repos /\ IsFiniteSet(Repos)

DefaultAPI == "api.github.com"
Statuses == {"queued", "in_progress", "success", "failure", "skipped", "cancelled", "error"}

None == {}
One(v) == {v}
Each(vs) == {{v} : v \in vs}

\* shown: what the field sends as it was drawn; may: what the browser lets it send.
Text(value) == [shown |-> One(value), may |-> Each(Typed \cup {value, ""})]
Required(field) == [field EXCEPT !.may = @ \ {One("")}]
Fixed(value) == [shown |-> One(value), may |-> {One(value)}]
Secret(required) == IF required THEN Required(Text("")) ELSE Text("")
Area(required) == IF required THEN Required(Text("")) ELSE Text("")

\* The browser refuses a number out of its range, the one that was drawn too.
Number(value, least, most) ==
    [shown |-> One(value),
     may |-> Each({""} \cup {Numeral(n) : n \in {k \in Counts : least <= k /\ k <= most}})]

CheckBox(value, checked) ==
    [shown |-> IF checked THEN One(value) ELSE None, may |-> {None, One(value)}]

CheckBoxes(values, checked) == [shown |-> values \cap checked, may |-> SUBSET values]

\* The component sends a hidden input, which may hold a value it does not offer.
Select(value, options) == [shown |-> One(value), may |-> Each(options \cup {value})]

Most == CHOOSE n \in Numbers : \A k \in Numbers : k <= n
Id(n) == Numeral(n)
Ids(rows) == {Id(n) : n \in DOMAIN rows}
IdOrBlank(n) == IF n = 0 THEN "" ELSE Id(n)

-----------------------------------------------------------------------------
(* What a browser sends: the form as drawn, or with one field changed.  A  *)
(* field the browser refuses is changed to one it lets through.            *)

Untouched(fields) ==
    [f \in DOMAIN fields |-> IF fields[f].shown \in fields[f].may THEN fields[f].shown
                             ELSE CHOOSE sent \in fields[f].may : TRUE]

Fillings(fields) ==
    {Untouched(fields)} \cup
    UNION {{[Untouched(fields) EXCEPT ![f] = sent] : sent \in fields[f].may} : f \in DOMAIN fields}

-----------------------------------------------------------------------------
(* What a handler reads.                                                   *)

StrList(in, f) == IF f \in DOMAIN in THEN in[f] ELSE {}
Has(in, f) == StrList(in, f) # {}
Str(in, f) == IF Has(in, f) THEN CHOOSE v \in in[f] : TRUE ELSE ""
Bool(in, f) == Str(in, f) = "1"

\* Absent, blank and unreadable are the same.
IntOf(in, f, default) ==
    IF \E n \in Numbers : Numeral(n) = Str(in, f)
    THEN CHOOSE n \in Numbers : Numeral(n) = Str(in, f)
    ELSE default

-----------------------------------------------------------------------------
(* The account: Login, Setup, settingsAdmin.                               *)

LoginFields == [username |-> Required(Text("")), password |-> Secret(TRUE)]

SetupToken == Required(Text(""))
SetupName == Required(Text("admin"))
SetupAddress(hint) == Required(Text(hint))
SetupFields ==
    [setup_token |-> SetupToken, username |-> SetupName, password |-> Secret(TRUE),
     public_base_url |-> SetupAddress("")]

AdminFields == [password |-> Secret(TRUE)]

-----------------------------------------------------------------------------
(* The settings, one section at a time.                                    *)

ConfigurationAddress(s) == Text(s.public_base_url)
ConfigurationCheck(s) == Text(s.default_check_name)
ConfigurationFile(s) == Text(s.default_pipeline_file)
ConfigurationTimeout(s) == Number(Numeral(s.default_timeout_seconds), 30, Most)
ConfigurationFields(s) ==
    [next |-> Fixed("settings"), public_base_url |-> ConfigurationAddress(s),
     default_check_name |-> ConfigurationCheck(s), default_pipeline_file |-> ConfigurationFile(s),
     default_timeout_seconds |-> ConfigurationTimeout(s)]

RunnerSlots(s) == Number(Numeral(s.max_concurrent_jobs), 1, 32)
RunnerImage(s) == Text(s.default_runtime)
RunnerForks(s) == CheckBox("1", s.skip_fork_prs)
RunnerFields(s) ==
    [next |-> Fixed("runner"), max_concurrent_jobs |-> RunnerSlots(s),
     default_runtime |-> RunnerImage(s), skip_fork_prs |-> RunnerForks(s)]

LogsSize(s) == Number(Numeral(s.max_log_bytes), 4096, Most)
LogsDays(s) == Number(Numeral(s.log_retention_days), 1, 3650)
LogsFields(s) ==
    [next |-> Fixed("logs"), max_log_bytes |-> LogsSize(s), log_retention_days |-> LogsDays(s)]

-----------------------------------------------------------------------------
(* The Coolify instances.  row is the instance to edit, or the blank one.  *)

InstanceName(row) == Text(row.name)
InstanceURL(row) == Required(Text(row.base_url))
InstanceToken(editing) == Secret(~editing)
InstanceFields(editing, row) ==
    [name |-> InstanceName(row), base_url |-> InstanceURL(row), api_token |-> InstanceToken(editing)]

WorkerPlace(uuid) == Required(Text(uuid))
WorkerText(default) == Text(default)
WorkerFields(row) ==
    [server_uuid |-> WorkerPlace(row.default_server_uuid),
     project_uuid |-> WorkerPlace(row.default_project_uuid),
     name |-> WorkerText("openpreflight"), environment_name |-> WorkerText("production")]

-----------------------------------------------------------------------------
(* The GitHub Apps.                                                        *)

AppName(row) == Required(Text(row.name))
AppSlug(row) == Text(row.slug)
AppNumber(editing, row) == Required(Number(IF editing THEN IdOrBlank(row.app_id) ELSE "", 1, Most))
AppAPI(editing, row) == Text(IF ~editing /\ row.api_url = "" THEN DefaultAPI ELSE row.api_url)
AppCheck(row) == Text(row.check_name)
AppSecret(editing) == Secret(~editing)
AppKey(editing) == Area(~editing)

AppFields(editing, row) ==
    [name |-> AppName(row), slug |-> AppSlug(row), app_id |-> AppNumber(editing, row),
     api_url |-> AppAPI(editing, row), check_name |-> AppCheck(row),
     webhook_secret |-> AppSecret(editing), pem |-> AppKey(editing)]

-----------------------------------------------------------------------------
(* A binding, one operator per field of reposEditorForm.                   *)

BindingRepo(editing, row) ==
    IF editing THEN Fixed(row.repo) ELSE [shown |-> One(""), may |-> Each(Repos)]

\* editAppValue: the row's App, or the first of the list, which is some App.
BindingApp(editing, row, apps) ==
    Select(IF editing /\ row.github_app_id # 0 THEN Id(row.github_app_id)
           ELSE CHOOSE a \in Ids(apps) : TRUE, Ids(apps))

BindingCoolify(editing, row, instances) ==
    Select(Id(IF editing THEN row.coolify_instance_id ELSE 0), Ids(instances) \cup {Id(0)})

BindingBranches(row) == Text(row.branches)
BindingPaths(row) == Text(row.paths)
BindingEmpty(row) ==
    Select(IF row.on_empty_pipeline = "fail" THEN "fail" ELSE "skip", {"skip", "fail"})
BindingCheck(row) == Text(row.check_name)
BindingFile(row) == Text(row.pipeline_file)
BindingTimeout(row) == Number(IdOrBlank(row.timeout_seconds), 0, Most)
BindingInstall(row) == Text(row.install_cmd)
BindingTest(row) == Text(row.test_cmd)
BindingBuild(row) == Text(row.build_cmd)
BindingEnabled(editing, row) == CheckBox("1", ~editing \/ row.enabled)
BindingShareable(editing, row) == CheckBox("1", editing /\ row.shareable_logs)

BindingFields(editing, row, apps, instances) ==
    [repo |-> BindingRepo(editing, row), github_app_id |-> BindingApp(editing, row, apps),
     coolify_instance_id |-> BindingCoolify(editing, row, instances),
     branches |-> BindingBranches(row), paths |-> BindingPaths(row),
     on_empty_pipeline |-> BindingEmpty(row), check_name |-> BindingCheck(row),
     pipeline_file |-> BindingFile(row), timeout_seconds |-> BindingTimeout(row),
     install_cmd |-> BindingInstall(row), test_cmd |-> BindingTest(row),
     build_cmd |-> BindingBuild(row), enabled |-> BindingEnabled(editing, row),
     shareable_logs |-> BindingShareable(editing, row)]

-----------------------------------------------------------------------------
(* The picker, the jobs filter and the dry run.                            *)

PickerApp(app, apps) == Select(IdOrBlank(app), Ids(apps))
PickerSource(coolify, instances) == Select(IdOrBlank(coolify), Ids(instances) \cup {""})

PickerHidden(n) == Fixed(Id(n))
PickerBoxes(listed, bound) == CheckBoxes(listed, bound)

FilterStatus(status) == Select(status, Statuses \cup {""})
FilterRepo(repo) == [shown |-> One(repo), may |-> Each(Repos \cup {repo, ""})]

ResolveRef(ref) == Text(ref)
=============================================================================
