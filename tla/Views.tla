-------------------------------- MODULE Views --------------------------------
(***************************************************************************)
(* What the console's pages draw (internal/web/pages, layouts): the links, *)
(* the forms that post, and the searches, forms whose fields make an       *)
(* address.  of is the database as the page read it.                       *)
(***************************************************************************)
EXTENDS Forms

CONSTANTS
    DashJobs,   \* jobs of the dashboard's table (8)
    DashCards,  \* repositories of the dashboard (12)
    JobsLimit,  \* jobs of a page of the index, and of the recent ones (100)
    RepoJobs    \* jobs of a repository's page (20)

ASSUME LimitsAssumption == {DashJobs, DashCards, JobsLimit, RepoJobs} \subseteq Nat \ {0}

(* An address: the page, the row its path names, and its query. *)
At(page) == [page |-> page, id |-> 0, app |-> 0, coolify |-> 0, edit |-> 0, inspect |-> 0,
             status |-> "", repo |-> "", offset |-> 0, ref |-> ""]
AtRow(page, n) == [At(page) EXCEPT !.id = n]

NoFields == <<>>
Nothing == [links |-> {}, forms |-> {}, searches |-> {}]
Links(addresses) == [Nothing EXCEPT !.links = addresses]
Link(address) == Links({address})
Form(to, n, fields) == [Nothing EXCEPT !.forms = {[to |-> to, id |-> n, fields |-> fields]}]
Search(addresses) == [Nothing EXCEPT !.searches = addresses]

v (+) w ==
    [links |-> v.links \cup w.links, forms |-> v.forms \cup w.forms,
     searches |-> v.searches \cup w.searches]
Every(views) ==
    [links |-> UNION {v.links : v \in views}, forms |-> UNION {v.forms : v \in views},
     searches |-> UNION {v.searches : v \in views}]
When(condition, v) == IF condition THEN v ELSE Nothing

-----------------------------------------------------------------------------
(* What the pages read.                                                    *)

JobInFlight(job) == job.status \in {"queued", "in_progress"}
Elements(jobs) == {jobs[i] : i \in DOMAIN jobs}
Least(m, n) == IF m <= n THEN m ELSE n
Newest(jobs, n) == SubSeq(jobs, 1, Least(n, Len(jobs)))
Recent(of) == Newest(of.jobs, JobsLimit)

\* The places of the jobs a filter lets through, and the jobs of a page of them.
Matching(of, repo, status) ==
    {i \in DOMAIN of.jobs : repo \in {"", of.jobs[i].repo} /\ status \in {"", of.jobs[i].status}}
Slice(of, places, offset, limit) ==
    {of.jobs[i] : i \in {k \in places : Cardinality(places \cap 1..k) \in (offset + 1)..(offset + limit)}}

ListJobs(of, repo, status, offset) == Slice(of, Matching(of, repo, status), offset, JobsLimit)

\* The newest of the recent jobs: none when the repository's last run is older.
LatestJob(of, repo) ==
    {j \in Elements(Recent(of)) :
        \E i \in DOMAIN Recent(of) :
            Recent(of)[i] = j /\ j.repo = repo /\ \A k \in 1..(i - 1) : Recent(of)[k].repo # repo}

Enabled(of) == {n \in DOMAIN of.bindings : of.bindings[n].enabled}

\* The first of them by name.
Cards(of) ==
    CHOOSE ns \in SUBSET Enabled(of) : Cardinality(ns) = Least(DashCards, Cardinality(Enabled(of)))

-----------------------------------------------------------------------------
(* The layouts.                                                            *)

Brand == Link(At("home"))
MenuButton(address) == Link(address)
SidebarOverview == MenuButton(At("home"))
SidebarJobs == MenuButton(At("jobs"))
SidebarRepos == MenuButton(At("repos"))
SidebarStatus == MenuButton(At("status"))
SidebarApps == MenuButton(At("apps"))
SidebarCoolify == MenuButton(At("coolify"))
SidebarSettings == MenuButton(At("settings"))
SidebarLogout == Form("logout", 0, NoFields)

AppSidebar ==
    Brand (+) SidebarOverview (+) SidebarJobs (+) SidebarRepos (+) SidebarStatus
    (+) SidebarApps (+) SidebarCoolify (+) SidebarSettings (+) SidebarLogout

Crumbs(addresses) == Links(addresses)
Shell(crumbs, body) == AppSidebar (+) Crumbs(crumbs) (+) body
Guest(body) == Brand (+) body
Confirm(to, n) == Form(to, n, NoFields)

-----------------------------------------------------------------------------
(* The account.                                                            *)

Login == Guest(Form("login", 0, LoginFields))
Setup == Guest(Form("setup", 0, SetupFields))

ErrorWays(user) == IF user THEN Links({At("home"), At("jobs")}) ELSE Link(At("login"))
Error(user) == IF user THEN Shell({}, ErrorWays(TRUE)) ELSE Guest(ErrorWays(FALSE))

-----------------------------------------------------------------------------
(* Jobs.                                                                   *)

JobTable(jobs) == Links({AtRow("run", j.id) : j \in jobs})
LastRun(jobs) == Links({AtRow("run", j.id) : j \in jobs})

RowLinks(j) == Link(AtRow("run", j.id))
RowRerun(j) == Form("jobs.rerun", j.id, NoFields)
RowCancel(j) == When(JobInFlight(j), Confirm("jobs.cancel", j.id))
JobsRow(j) == RowLinks(j) (+) RowRerun(j) (+) RowCancel(j)

JobsEmpty(filtered) == Link(IF filtered THEN At("jobs") ELSE At("repos"))
JobsTable(jobs, filtered) ==
    IF jobs = {} THEN JobsEmpty(filtered) ELSE Every({JobsRow(j) : j \in jobs})

JobsPath(repo, status, offset) ==
    [At("jobs") EXCEPT !.repo = repo, !.status = status, !.offset = offset]

JobsFilter(repo, status) ==
    LET fields == [status |-> FilterStatus(status), repo |-> FilterRepo(repo)]
    IN Search({JobsPath(Str(in, "repo"), Str(in, "status"), 0) : in \in Fillings(fields)})
JobsClear(repo, status) == When(repo # "" \/ status # "", Link(At("jobs")))

PrevOffset(offset) == IF offset < JobsLimit THEN 0 ELSE offset - JobsLimit
PagerPrevious(a) == When(a.offset # 0, Link(JobsPath(a.repo, a.status, PrevOffset(a.offset))))
PagerNext(a, n) == When(n >= JobsLimit, Link(JobsPath(a.repo, a.status, a.offset + JobsLimit)))
JobsPagerPast(a, n) == When(a.offset > 0 \/ n > JobsLimit, PagerPrevious(a) (+) PagerNext(a, n))
JobsPager(a, n) == When(a.offset > 0 \/ n = JobsLimit, PagerPrevious(a) (+) PagerNext(a, n))

JobFiltered(a) == a.repo # "" \/ a.status # "" \/ a.offset > 0

Jobs(of, a) ==
    LET list == ListJobs(of, a.repo, a.status, a.offset)
    IN Shell({}, JobsFilter(a.repo, a.status) (+) JobsClear(a.repo, a.status)
                 (+) JobsTable(list, JobFiltered(a)) (+) JobsPager(a, Cardinality(list)))

RunControls(job) == RowRerun(job) (+) When(JobInFlight(job), Confirm("jobs.cancel", job.id))

\* A visitor of a shareable run is drawn the log, and no control.
Run(of, a, user) ==
    IF user THEN Shell({At("jobs")}, Every({RunControls(j) : j \in {k \in Elements(of.jobs) : k.id = a.id}}))
    ELSE Guest(Nothing)

-----------------------------------------------------------------------------
(* The dashboard.                                                          *)

SetupDone(of) ==
    /\ of.settings.public_base_url # "" /\ DOMAIN of.apps # {} /\ Enabled(of) # {}
    /\ \E j \in Elements(Recent(of)) : j.status = "success"

DashHead(of) ==
    When(DOMAIN of.apps = {}, Link(At("apps.new")))
    (+) When(DOMAIN of.apps # {} /\ Enabled(of) = {}, Link(At("repos")))

SetupRow(address) == Link(address)
SetupAddressRow == SetupRow(At("settings"))
SetupAppRow(of) == SetupRow(IF DOMAIN of.apps # {} THEN At("apps") ELSE At("apps.new"))
SetupRepoRow == SetupRow(At("repos"))
SetupRunRow(of) == When(of.jobs # <<>>, SetupRow(At("jobs")))
SetupCoolifyRow == SetupRow(At("coolify"))
SetupRows(of) ==
    When(~SetupDone(of), SetupAddressRow (+) SetupAppRow(of) (+) SetupRepoRow
                         (+) SetupRunRow(of) (+) SetupCoolifyRow)

ActiveRuns(of) ==
    LET active == {j \in Elements(of.jobs) : JobInFlight(j)}
    IN When(active # {}, Link(At("jobs")) (+) JobTable(active))

RecentRuns(of) ==
    Link(At("jobs"))
    (+) IF of.jobs = <<>> THEN Link(At("repos")) ELSE JobTable(Elements(Newest(of.jobs, DashJobs)))

DashCard(of, n) == Link(AtRow("repo", n)) (+) LastRun(LatestJob(of, of.bindings[n].repo))
DashRepos(of) ==
    When(Enabled(of) # {}, Link(At("repos")) (+) Every({DashCard(of, n) : n \in Cards(of)}))

Dashboard(of) ==
    Shell({}, DashHead(of) (+) SetupRows(of) (+) ActiveRuns(of) (+) RecentRuns(of) (+) DashRepos(of))

-----------------------------------------------------------------------------
(* The settings.                                                           *)

SettingsNavItem(page) == Link(At(page))
SettingsNav == Every({SettingsNavItem(page) : page \in {"settings", "runner", "logs", "admin"}})
SettingsShell(section, body) ==
    Shell(IF section = "settings" THEN {} ELSE {At("settings")}, SettingsNav (+) body)

SettingsConfiguration(s) == Form("settings", 0, ConfigurationFields(s))
SettingsRunner(s) == Form("settings", 0, RunnerFields(s))
SettingsLogs(s) == Form("settings", 0, LogsFields(s))
SettingsAdmin == Form("password", 0, AdminFields)

-----------------------------------------------------------------------------
(* Coolify.                                                                *)

NoInstance == [name |-> "", base_url |-> "", api_token |-> "",
               default_server_uuid |-> "", default_project_uuid |-> ""]

CoolifyHead(of) == When(DOMAIN of.instances # {}, Link(At("coolify")))
InstanceTest(n) == Form("coolify.test", n, NoFields)
InstanceEdit(n) == Link([At("coolify") EXCEPT !.edit = n])
InstanceInspect(n) == Link([At("coolify") EXCEPT !.inspect = n])
InstanceRemove(n) == Confirm("coolify.delete", n)
InstanceCard(n) == InstanceTest(n) (+) InstanceEdit(n) (+) InstanceInspect(n) (+) InstanceRemove(n)

InstallWorker(of, n) == Form("coolify.install", n, WorkerFields(of.instances[n]))

CoolifyForm(of, n) ==
    IF n \in DOMAIN of.instances
    THEN Form("coolify.update", n, InstanceFields(TRUE, of.instances[n])) (+) Link(At("coolify"))
    ELSE Form("coolify.create", 0, InstanceFields(FALSE, NoInstance))

Coolify(of, a) ==
    Shell({}, CoolifyHead(of) (+) Every({InstanceCard(n) : n \in DOMAIN of.instances})
              (+) When(a.inspect # 0, InstallWorker(of, a.inspect)) (+) CoolifyForm(of, a.edit))

-----------------------------------------------------------------------------
(* The GitHub Apps.                                                        *)

NoApp == [name |-> "", slug |-> "", app_id |-> 0, api_url |-> "", check_name |-> "",
          pem |-> "", webhook_secret |-> ""]

AppsHead == Link(At("apps.new"))
AppsEmpty(of) == When(DOMAIN of.apps = {}, Link(At("apps.new")))
AppTest(n) == Form("apps.test", n, NoFields)
AppEdit(n) == Link(AtRow("app.edit", n))
AppInspect(n) == Link([At("apps") EXCEPT !.inspect = n])
AppRemove(n) == Confirm("apps.delete", n)
AppCard(n) == AppTest(n) (+) AppEdit(n) (+) AppInspect(n) (+) AppRemove(n)
AppInstallations(a, listed) == When(a.inspect # 0 /\ listed # {}, Link(At("repos")))

GitHubApps(of, a, listed) ==
    Shell({}, AppsHead (+) Every({AppCard(n) : n \in DOMAIN of.apps}) (+) AppsEmpty(of)
              (+) AppInstallations(a, listed))

ManifestCardAlways(s) == Form("apps.manifest", 0, NoFields)
ManifestCard(s) ==
    IF s.public_base_url # "" THEN Form("apps.manifest", 0, NoFields) ELSE Link(At("settings"))
CredentialsForm(to, n, editing, row) == Form(to, n, AppFields(editing, row)) (+) Link(At("apps"))

GitHubAppsNew(of) ==
    Shell({At("apps")}, ManifestCard(of.settings) (+) CredentialsForm("apps.create", 0, FALSE, NoApp))
GitHubAppsEdit(of, n) ==
    Shell({At("apps")}, CredentialsForm("apps.update", n, TRUE, of.apps[n]))

-----------------------------------------------------------------------------
(* The repositories.                                                       *)

NoBinding == [github_app_id |-> 0, coolify_instance_id |-> 0, repo |-> "", enabled |-> FALSE,
              branches |-> "", paths |-> "", check_name |-> "", pipeline_file |-> "",
              timeout_seconds |-> 0, install_cmd |-> "", test_cmd |-> "", build_cmd |-> "",
              shareable_logs |-> FALSE, on_empty_pipeline |-> ""]

ReposNeedApp == Link(At("apps.new"))
ReposHead(of) == When(DOMAIN of.apps # {}, Links({At("pick"), At("repos.new")}))
RepoTitle(n) == Link(AtRow("repo", n))
RepoToggle(n) == Form("bindings.toggle", n, NoFields)
RepoRemove(n) == Confirm("bindings.delete", n)
RepoCard(of, n) ==
    RepoTitle(n) (+) LastRun(LatestJob(of, of.bindings[n].repo)) (+) RepoToggle(n) (+) RepoRemove(n)

\* A binding goes with its App, so that ReposNeedApp never stands above a row.
ReposEmpty(of) ==
    When(DOMAIN of.bindings = {},
         IF DOMAIN of.apps = {} THEN ReposNeedApp ELSE Links({At("pick"), At("repos.new")}))

Repositories(of) ==
    Shell({}, ReposHead(of) (+) Every({RepoCard(of, n) : n \in DOMAIN of.bindings}) (+) ReposEmpty(of))

PickPath(app, coolify) == [At("pick") EXCEPT !.app = app, !.coolify = coolify]

PickSource(of, a) ==
    LET fields == [app_id |-> PickerApp(a.app, of.apps), coolify_id |-> PickerSource(a.coolify, of.instances)]
    IN Search({PickPath(IntOf(in, "app_id", 0), IntOf(in, "coolify_id", 0)) : in \in Fillings(fields)})

BoundRepos(of, app) ==
    {of.bindings[n].repo : n \in {k \in DOMAIN of.bindings : of.bindings[k].github_app_id = app}}

PickerListed(of, a, listed) == IF a.app = 0 THEN {} ELSE listed

\* The repositories the source lists, and those of the App it does not.
Picker(of, a, listed) == IF a.app = 0 THEN {} ELSE listed \cup BoundRepos(of, a.app)

PickForm(of, a, listed) ==
    When(Picker(of, a, listed) # {},
         Form("bindings.bulk", 0,
              [github_app_id |-> PickerHidden(a.app), coolify_instance_id |-> PickerHidden(a.coolify),
               repo |-> PickerBoxes(Picker(of, a, listed), BoundRepos(of, a.app))]))

ReposPick(of, a, listed) ==
    Shell({At("repos")}, IF DOMAIN of.apps = {} THEN ReposNeedApp
                         ELSE PickSource(of, a) (+) PickForm(of, a, listed))

EditorActions(n) == Link(At("repos")) (+) When(n # 0, Link(AtRow("resolve", n)))
ReposEditor(of, n, row) ==
    Shell({At("repos")},
          IF DOMAIN of.apps = {} THEN ReposNeedApp
          ELSE Form("bindings.upsert", n, BindingFields(n # 0, row, of.apps, of.instances))
               (+) EditorActions(n))

RepoHead(n) == Links({AtRow("resolve", n), AtRow("repo.edit", n)})
RepoLast(of, places) == LastRun(Slice(of, places, 0, 1))
Repo(of, n) ==
    LET places == Matching(of, of.bindings[n].repo, "")
    IN Shell({At("repos")}, RepoHead(n) (+) RepoLast(of, places) (+) JobTable(Slice(of, places, 0, RepoJobs)))

ResolveForm(n, ref) ==
    Search({[AtRow("resolve", n) EXCEPT !.ref = Str(in, "ref")] : in \in Fillings([ref |-> ResolveRef(ref)])})
RepoResolve(n, ref) ==
    Shell({At("repos"), AtRow("repo", n)}, Link(AtRow("repo", n)) (+) ResolveForm(n, ref))

-----------------------------------------------------------------------------

Status == Shell({}, Nothing)

(* The page at an address the server draws (internal/web/pages/render.go). *)
Render(of, a, listed, user) ==
    CASE a.page = "home"      -> Dashboard(of)
      [] a.page = "login"     -> Login
      [] a.page = "setup"     -> Setup
      [] a.page = "settings"  -> SettingsShell(a.page, SettingsConfiguration(of.settings))
      [] a.page = "runner"    -> SettingsShell(a.page, SettingsRunner(of.settings))
      [] a.page = "logs"      -> SettingsShell(a.page, SettingsLogs(of.settings))
      [] a.page = "admin"     -> SettingsShell(a.page, SettingsAdmin)
      [] a.page = "coolify"   -> Coolify(of, a)
      [] a.page = "apps"      -> GitHubApps(of, a, listed)
      [] a.page = "apps.new"  -> GitHubAppsNew(of)
      [] a.page = "app.edit"  -> GitHubAppsEdit(of, a.id)
      [] a.page = "repos"     -> Repositories(of)
      [] a.page = "pick"      -> ReposPick(of, a, listed)
      [] a.page = "repos.new" -> ReposEditor(of, 0, NoBinding)
      [] a.page = "repo.edit" -> ReposEditor(of, a.id, of.bindings[a.id])
      [] a.page = "repo"      -> Repo(of, a.id)
      [] a.page = "resolve"   -> RepoResolve(a.id, a.ref)
      [] a.page = "jobs"      -> Jobs(of, a)
      [] a.page = "run"       -> Run(of, a, user)
      [] a.page = "status"    -> Status
      [] a.page = "error"     -> Error(user)
=============================================================================
