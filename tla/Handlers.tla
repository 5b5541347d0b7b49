------------------------------- MODULE Handlers -------------------------------
(***************************************************************************)
(* The handlers the console's forms post to (internal/api), and the rows   *)
(* they leave (internal/store).  A handler is the set of the answers it    *)
(* may give to what the browser sent: the database after it, the redirect, *)
(* and how the notice reads.  The guard's checks are Pages'.               *)
(***************************************************************************)
EXTENDS Views, Functions

CONSTANT Unfit      \* a text the validators refuse as a slug, a URL, a path, an image or a key

ASSUME UnfitAssumption ==
    /\ Unfit \in Typed \ {""} /\ Typed \ {"", Unfit} # {}
    /\ Unfit \notin Repos \cup {"", "key"}

(* "ok"; "err": the console refuses the form; "outside": GitHub, Coolify   *)
(* or a secret the user does not have refuses it; "": no notice.           *)
Answer(d, to, notice) == [d |-> d, to |-> to, notice |-> notice, user |-> TRUE]
Back == At("back")                                  \* reply's: where the Referer says
Refused(d) == {Answer(d, Back, "err")}              \* badRequest, and notFound of a row
IfFound(found, d, answers) == IF found THEN answers ELSE Refused(d)
IfFit(fit, d, answers) == IF fit THEN answers ELSE Refused(d)
Tried(d, to) == {Answer(d, to, "ok"), Answer(d, to, "outside")}

OrDefault(text, default) == IF text = "" THEN default ELSE text
AtLeast(n, least) == IF n < least THEN least ELSE n
Given(in, f, old) == IF Has(in, f) THEN Str(in, f) ELSE old
Without(rows, ns) == Restrict(rows, DOMAIN rows \ ns)
With(rows, ns, Row(_)) == [n \in DOMAIN rows \cup ns |-> IF n \in ns THEN Row(n) ELSE rows[n]]
Added(rows, n, row) == With(rows, {n}, LAMBDA k : row)

-----------------------------------------------------------------------------
(* patchSettings.                                                          *)

PatchedTexts(s, in) ==
    [s EXCEPT !.public_base_url = Given(in, "public_base_url", @),
              !.default_check_name = OrDefault(Given(in, "default_check_name", @), "openpreflight"),
              !.default_pipeline_file = OrDefault(Given(in, "default_pipeline_file", @), ".ci.yml")]

PatchedNumbers(s, in) ==
    [s EXCEPT !.default_timeout_seconds = AtLeast(IntOf(in, "default_timeout_seconds", @), 30),
              !.max_concurrent_jobs = AtLeast(IntOf(in, "max_concurrent_jobs", @), 1),
              !.max_log_bytes = AtLeast(IntOf(in, "max_log_bytes", @), 4096),
              !.log_retention_days = AtLeast(IntOf(in, "log_retention_days", @), 1)]

PatchedRunnerUnmarked(s, in) ==
    [s EXCEPT !.skip_fork_prs = Bool(in, "skip_fork_prs"),
              !.default_runtime = Given(in, "default_runtime", @)]

\* A box that is not checked sends nothing: the slots tell the runner's form from the others.
PatchedRunner(s, in) ==
    [s EXCEPT !.skip_fork_prs = IF Has(in, "max_concurrent_jobs") THEN Bool(in, "skip_fork_prs") ELSE @,
              !.default_runtime = Given(in, "default_runtime", @)]

ForksAllowed(d, s) == ~s.skip_fork_prs => s.default_runtime # "" /\ d.docker

SettingsNext(in) ==
    At(IF Str(in, "next") \in {"settings", "runner", "logs"} THEN Str(in, "next") ELSE "settings")

PatchSettings(d, in) ==
    LET s == PatchedRunner(PatchedNumbers(PatchedTexts(d.settings, in), in), in)
    IN IfFit(s.default_runtime # Unfit /\ ForksAllowed(d, s), d,
             {Answer([d EXCEPT !.settings = s], SettingsNext(in), "ok")})

-----------------------------------------------------------------------------
(* The GitHub Apps.                                                        *)

\* normalise: a word is its own slug, and a name with no letter has none.
Slug(row) == IF row.slug # "" THEN row.slug ELSE IF row.name = Unfit THEN "" ELSE row.name
Normal(row) == [row EXCEPT !.slug = Slug(row), !.api_url = OrDefault(row.api_url, DefaultAPI)]
AppFit(row) == row.name # "" /\ Slug(row) \notin {"", Unfit} /\ row.app_id > 0 /\ row.pem # Unfit
SlugFree(d, row, n) == \A a \in DOMAIN d.apps \ {n} : d.apps[a].slug # Slug(row)

PostedApp(in) ==
    [name |-> Str(in, "name"), slug |-> Str(in, "slug"), app_id |-> IntOf(in, "app_id", 0),
     api_url |-> Str(in, "api_url"), check_name |-> Str(in, "check_name"),
     pem |-> Str(in, "pem"), webhook_secret |-> Str(in, "webhook_secret")]

Created(d, row) == [d EXCEPT !.apps = Added(@, d.next, Normal(row)), !.next = @ + 1]

CreateApp(d, in) ==
    LET row == PostedApp(in)
    IN IfFit(AppFit(row) /\ row.pem # "" /\ row.webhook_secret # "" /\ SlugFree(d, row, 0), d,
             Tried(Created(d, row), At("apps")))

MergedApp(old, in) ==
    [name |-> Given(in, "name", old.name), slug |-> Given(in, "slug", old.slug),
     app_id |-> IntOf(in, "app_id", old.app_id), api_url |-> Given(in, "api_url", old.api_url),
     check_name |-> Given(in, "check_name", old.check_name),
     pem |-> OrDefault(Str(in, "pem"), old.pem),
     webhook_secret |-> OrDefault(Str(in, "webhook_secret"), old.webhook_secret)]

UpdateApp(d, n, in) ==
    IfFound(n \in DOMAIN d.apps, d,
        LET row == MergedApp(d.apps[n], in)
        IN IfFit(AppFit(row) /\ SlugFree(d, row, n), d,
                 {Answer([d EXCEPT !.apps[n] = Normal(row)], At("apps"), "ok")}))

TestApp(d, n) ==
    IF n \in DOMAIN d.apps THEN Tried(d, At("apps")) ELSE {Answer(d, At("apps"), "err")}

\* Its bindings go with it, and the jobs stay.
DeletedApp(d, n) ==
    [d EXCEPT !.apps = Without(@, {n}),
              !.bindings = Without(@, {b \in DOMAIN @ : @[b].github_app_id = n})]
DeleteApp(d, n) ==
    IfFound(n \in DOMAIN d.apps, d, {Answer(DeletedApp(d, n), At("apps"), "ok")})

StartAppManifest(d) ==
    IF d.settings.public_base_url # "" THEN {Answer(d, At("github"), "")} ELSE Refused(d)

\* What GitHub made of the manifest, its name and its slug the user's; fail draws its page.
CallbackAppManifest(d, in) ==
    LET row == [name |-> Str(in, "slug"), slug |-> Str(in, "slug"), app_id |-> Most, check_name |-> "",
                api_url |-> DefaultAPI, pem |-> "key", webhook_secret |-> "secret"]
    IN {Answer(d, At("error"), "")} \cup
       IfFit(SlugFree(d, row, 0), d, Tried(Created(d, row), At("apps")))

-----------------------------------------------------------------------------
(* The Coolify instances.                                                  *)

InstanceFit(row) == row.base_url \notin {"", Unfit}
Labelled(row) == [row EXCEPT !.name = OrDefault(@, row.base_url)]

CreateCoolify(d, in) ==
    LET row == [name |-> Str(in, "name"), base_url |-> Str(in, "base_url"),
                api_token |-> Str(in, "api_token"),
                default_server_uuid |-> Str(in, "default_server_uuid"),
                default_project_uuid |-> Str(in, "default_project_uuid")]
    IN IfFit(InstanceFit(row) /\ row.api_token # "", d,
             Tried([d EXCEPT !.instances = Added(@, d.next, Labelled(row)), !.next = @ + 1],
                   At("coolify")))

MergedInstance(old, in) ==
    [name |-> Given(in, "name", old.name), base_url |-> Given(in, "base_url", old.base_url),
     api_token |-> OrDefault(Str(in, "api_token"), old.api_token),
     default_server_uuid |-> Given(in, "default_server_uuid", old.default_server_uuid),
     default_project_uuid |-> Given(in, "default_project_uuid", old.default_project_uuid)]

UpdateCoolify(d, n, in) ==
    IfFound(n \in DOMAIN d.instances, d,
        LET row == MergedInstance(d.instances[n], in)
        IN IfFit(InstanceFit(row), d,
                 {Answer([d EXCEPT !.instances[n] = Labelled(row)], At("coolify"), "ok")}))

TestCoolify(d, n) ==
    IF n \in DOMAIN d.instances THEN Tried(d, At("coolify")) ELSE {Answer(d, At("coolify"), "err")}

DeletedInstance(d, n) ==
    [d EXCEPT !.instances = Without(@, {n}),
              !.bindings = [b \in DOMAIN @ |->
                  IF @[b].coolify_instance_id = n THEN [@[b] EXCEPT !.coolify_instance_id = 0] ELSE @[b]]]
DeleteCoolify(d, n) ==
    IfFound(n \in DOMAIN d.instances, d, {Answer(DeletedInstance(d, n), At("coolify"), "ok")})

InstallWorkerOn(d, n, in) ==
    IfFound(n \in DOMAIN d.instances, d,
        IfFit(/\ OrDefault(Str(in, "server_uuid"), d.instances[n].default_server_uuid) # ""
              /\ OrDefault(Str(in, "project_uuid"), d.instances[n].default_project_uuid) # "", d,
              Tried(d, [At("coolify") EXCEPT !.inspect = n])))

-----------------------------------------------------------------------------
(* The bindings.                                                           *)

PostedBinding(in) ==
    [github_app_id |-> IntOf(in, "github_app_id", 0),
     coolify_instance_id |-> IntOf(in, "coolify_instance_id", 0),
     repo |-> Str(in, "repo"), enabled |-> Bool(in, "enabled"),
     branches |-> Str(in, "branches"), paths |-> Str(in, "paths"),
     check_name |-> Str(in, "check_name"), pipeline_file |-> Str(in, "pipeline_file"),
     timeout_seconds |-> IntOf(in, "timeout_seconds", 0),
     install_cmd |-> Str(in, "install_cmd"), test_cmd |-> Str(in, "test_cmd"),
     build_cmd |-> Str(in, "build_cmd"), shareable_logs |-> Bool(in, "shareable_logs"),
     on_empty_pipeline |-> Str(in, "on_empty_pipeline")]

BindingFit(d, row) ==
    /\ row.github_app_id \in DOMAIN d.apps
    /\ row.coolify_instance_id \in DOMAIN d.instances \cup {0}
    /\ row.repo \notin {"", Unfit} /\ row.pipeline_file # Unfit

SameKey(d, row) ==
    {n \in DOMAIN d.bindings : /\ d.bindings[n].github_app_id = row.github_app_id
                               /\ d.bindings[n].repo = row.repo}

\* A row of the same App and repository is overwritten, every column but its id.
Upserted(d, row) ==
    IF SameKey(d, row) = {}
    THEN [d EXCEPT !.bindings = Added(@, d.next, row), !.next = @ + 1]
    ELSE [d EXCEPT !.bindings = With(@, SameKey(d, row), LAMBDA n : row)]

UpsertBinding(d, in) ==
    LET row == PostedBinding(in)
    IN IfFit(BindingFit(d, row), d, {Answer(Upserted(d, row), At("repos"), "ok")})

ToggleBinding(d, n) ==
    IfFound(n \in DOMAIN d.bindings, d,
        {Answer(Upserted(d, [d.bindings[n] EXCEPT !.enabled = ~@]), At("repos"), "ok")})

DeleteBinding(d, n) ==
    IfFound(n \in DOMAIN d.bindings, d,
        {Answer([d EXCEPT !.bindings = Without(@, {n})], At("repos"), "ok")})

\* A checked row keeps its overrides.
Wanted(row, coolify) ==
    [row EXCEPT !.enabled = TRUE, !.coolify_instance_id = IF coolify # 0 THEN coolify ELSE @]

\* The repositories are taken in no order, so the new rows have their ids in any.
Bulk(d, app, coolify, wanted) ==
    LET have == {n \in DOMAIN d.bindings : d.bindings[n].github_app_id = app}
        unchecked == {n \in have : d.bindings[n].repo \notin wanted}
        added == wanted \ {d.bindings[n].repo : n \in have}
        blank(repo) == [NoBinding EXCEPT !.github_app_id = app, !.coolify_instance_id = coolify,
                                         !.repo = repo, !.enabled = TRUE]
        kept == [n \in DOMAIN d.bindings \ unchecked |->
                    IF n \in have THEN Wanted(d.bindings[n], coolify) ELSE d.bindings[n]]
        ids == d.next..(d.next + Cardinality(added) - 1)
    IN {[d EXCEPT !.bindings = With(kept, ids, LAMBDA n : blank(order[n])), !.next = @ + Cardinality(added)] :
           order \in Bijection(ids, added)}

\* Every write fails or none does: the first one finds the App or the instance gone.
BulkBindings(d, in) ==
    LET app == IntOf(in, "github_app_id", 0)
        coolify == IntOf(in, "coolify_instance_id", 0)
        wanted == StrList(in, "repo")
    IN IfFit(/\ app # 0
             /\ wanted # {} => app \in DOMAIN d.apps /\ coolify \in DOMAIN d.instances \cup {0}, d,
             {Answer(after, At("repos"), "ok") : after \in Bulk(d, app, coolify, wanted)})

-----------------------------------------------------------------------------
(* Jobs.  Every job here came from a webhook, which names an installation. *)

Job(d, n) == {j \in Elements(d.jobs) : j.id = n}
EnabledBinding(d, j) ==
    {b \in DOMAIN d.bindings : /\ d.bindings[b].github_app_id = j.app
                               /\ d.bindings[b].repo = j.repo /\ d.bindings[b].enabled}

RerunJob(d, n) ==
    IfFound(Job(d, n) # {}, d,
        UNION {IF EnabledBinding(d, j) = {} THEN {Answer(d, At("jobs"), "err")}
               ELSE {Answer([d EXCEPT !.jobs = <<[j EXCEPT !.id = d.next, !.status = "queued",
                                                  !.shareable = d.bindings[b].shareable_logs]>> \o @,
                                      !.next = @ + 1], At("jobs"), "ok") : b \in EnabledBinding(d, j)} :
               j \in Job(d, n)})

\* A run that has started ends later.
Cancelled(d, n) ==
    [d EXCEPT !.jobs = [i \in DOMAIN @ |-> IF @[i].id = n /\ @[i].status = "queued"
                                           THEN [@[i] EXCEPT !.status = "cancelled"] ELSE @[i]]]
CancelJob(d, n) ==
    IfFound(Job(d, n) # {}, d,
        IF \E j \in Job(d, n) : JobInFlight(j) THEN {Answer(Cancelled(d, n), At("jobs"), "ok")}
        ELSE {Answer(d, At("jobs"), "err")})

-----------------------------------------------------------------------------
(* The account: whether a password is right is the user's secret.          *)

HandleLogin(d, user) ==
    {[Answer(d, At("login"), "outside") EXCEPT !.user = user]}
    \cup IF d.users THEN {Answer(d, At("home"), "")} ELSE {}

HandleSetup(d, in, user) ==
    IF d.users THEN {[Answer(d, At("login"), "err") EXCEPT !.user = user]}
    ELSE {[Answer(d, to, "outside") EXCEPT !.user = user] : to \in {At("setup"), Back}} \cup
         {Answer([d EXCEPT !.users = TRUE, !.settings.public_base_url =
                      OrDefault(Str(in, "public_base_url"), @)], At("home"), "ok")}

HandleLogout(d) == {[Answer(d, At("login"), "") EXCEPT !.user = FALSE]}
ChangePassword(d) == {Answer(d, At("admin"), "ok"), Answer(d, Back, "outside")}
=============================================================================
