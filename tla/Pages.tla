-------------------------------- MODULE Pages --------------------------------
(***************************************************************************)
(* A browser at the console: it opens addresses, follows redirects, draws  *)
(* what the server answers, and posts the forms that were drawn, over the  *)
(* database that others change meanwhile (internal/api/server.go,          *)
(* pages.go and the handlers).                                             *)
(*                                                                         *)
(* d is the database the pages show: settings, apps, instances and         *)
(* bindings by id, jobs from the newest, users (setup has run) and docker  *)
(* (it is reachable); next is the next id, one counter for every table.    *)
(***************************************************************************)
EXTENDS Handlers

CONSTANTS
    Starts,        \* databases a behaviour starts from
    Bookmarks,     \* addresses a user keeps or types
    MaxSubmits,    \* forms posted in a behaviour
    MaxOthers,     \* changes by others
    MaxRedirects   \* redirects after which a browser gives up

VARIABLES
    d,         \* the database
    signedIn,  \* the browser's session is good
    tab,       \* the page on the screen: its address, what it was drawn from, and for whom
    load,      \* the request on its way: where to, from which page, after how many redirects
    sent,      \* the form the last step posted, if it did
    submits, others

vars == <<d, signedIn, tab, load, sent, submits, others>>

Nowhere == At("")
Idle == [to |-> Nowhere, referer |-> Nowhere, hops |-> 0]
Unsent == [to |-> "", id |-> 0, in |-> NoFields]

-----------------------------------------------------------------------------
(* The database, as its schema and the checks before every write keep it.  *)

SettingsColumns == {"public_base_url", "default_check_name", "default_pipeline_file", "default_timeout_seconds",
                    "max_concurrent_jobs", "default_runtime", "skip_fork_prs", "max_log_bytes",
                    "log_retention_days"}
SettingsTexts(s) ==
    s.default_check_name # "" /\ s.default_pipeline_file # "" /\ s.default_runtime # Unfit
SettingsNumbers(s) ==
    /\ s.default_timeout_seconds \in Numbers /\ s.default_timeout_seconds >= 30
    /\ s.max_concurrent_jobs \in Numbers /\ s.max_concurrent_jobs >= 1
    /\ s.max_log_bytes \in Numbers /\ s.max_log_bytes >= 4096
    /\ s.log_retention_days \in Numbers /\ s.log_retention_days >= 1
SettingsRow(s) ==
    /\ DOMAIN s = SettingsColumns /\ s.skip_fork_prs \in BOOLEAN
    /\ SettingsTexts(s) /\ SettingsNumbers(s)

AppRow(row) ==
    /\ DOMAIN row = DOMAIN NoApp
    /\ AppFit(row) /\ row.slug # "" /\ row.api_url # "" /\ row.app_id \in Numbers

InstanceRow(row) == DOMAIN row = DOMAIN NoInstance /\ InstanceFit(row) /\ row.name # ""

BindingRow(db, row) ==
    /\ DOMAIN row = DOMAIN NoBinding
    /\ BindingFit(db, row) /\ row.repo \in Repos
    /\ row.timeout_seconds \in Numbers
    /\ row.enabled \in BOOLEAN /\ row.shareable_logs \in BOOLEAN
    /\ row.on_empty_pipeline \in {"", "skip", "fail"}

JobRows == [id : Nat, repo : Repos, app : Nat, status : Statuses, shareable : BOOLEAN]

\* The bound of the ids.  A key is never taken again.
Counted(db) == 1..db.next \subseteq Numbers
Keys(db, rows) == DOMAIN rows \subseteq 1..(db.next - 1)

\* Slugs, and the repositories of an App, are unique.
WholeApps(db) ==
    Keys(db, db.apps) /\ \A n \in DOMAIN db.apps : AppRow(db.apps[n]) /\ SlugFree(db, db.apps[n], n)
WholeInstances(db) ==
    Keys(db, db.instances) /\ \A n \in DOMAIN db.instances : InstanceRow(db.instances[n])
WholeBindings(db) ==
    /\ Keys(db, db.bindings) /\ \A n \in DOMAIN db.bindings : BindingRow(db, db.bindings[n])
    /\ \A n \in DOMAIN db.bindings : SameKey(db, db.bindings[n]) \subseteq {n}
WholeJobs(db) ==
    /\ db.jobs \in Seq(JobRows)
    /\ \A i \in DOMAIN db.jobs : db.jobs[i].id < db.next
    /\ \A i, k \in DOMAIN db.jobs : db.jobs[i].id = db.jobs[k].id => i = k

Whole(db) ==
    /\ DOMAIN db = {"settings", "apps", "instances", "bindings", "jobs", "users", "docker", "next"}
    /\ db.next \in Nat \ {0} /\ Counted(db) /\ db.users \in BOOLEAN /\ db.docker \in BOOLEAN
    /\ SettingsRow(db.settings)
    /\ WholeApps(db) /\ WholeInstances(db) /\ WholeBindings(db) /\ WholeJobs(db)

ASSUME StartsAssumption == \A db \in Starts : Whole(db)
ASSUME BoundsAssumption == {MaxSubmits, MaxOthers, MaxRedirects} \subseteq Nat

PageNames == {"home", "login", "setup", "settings", "runner", "logs", "admin", "coolify", "apps",
              "apps.new", "app.edit", "repos", "pick", "repos.new", "repo.edit", "repo", "resolve",
              "jobs", "run", "status", "error", "github"}

ASSUME BookmarksAssumption ==
    \A a \in Bookmarks : a.page \in PageNames /\ a.app \in Numbers /\ a.coolify \in Numbers

TypeOK ==
    /\ Whole(d) /\ Whole(tab.of)
    /\ signedIn \in BOOLEAN /\ (signedIn => d.users)
    /\ load.hops \in 0..(MaxRedirects + 1)
    /\ submits \in 0..MaxSubmits /\ others \in 0..MaxOthers

Init ==
    /\ d \in Starts
    /\ signedIn \in {FALSE, d.users}
    /\ tab = [at |-> Nowhere, of |-> d, listed |-> {}, user |-> FALSE, token |-> TRUE]
    /\ load = [to |-> At("home"), referer |-> Nowhere, hops |-> 0]
    /\ sent = Unsent /\ submits = 0 /\ others = 0

-----------------------------------------------------------------------------
(* What a GET is answered with: its page, or the address of a redirect.    *)

Drawn == Nowhere

Guarded(user, to) == IF ~d.users THEN At("setup") ELSE IF ~user THEN At("login") ELSE to

ServeLogin(user) == IF ~d.users THEN At("setup") ELSE IF user THEN At("home") ELSE Drawn
ServeSetup == IF d.users THEN At("login") ELSE Drawn
ServeCoolify(a) == IF a.inspect \in DOMAIN d.instances \cup {0} THEN Drawn ELSE Back
ServeApps(a) ==
    IF a.edit # 0 THEN AtRow("app.edit", a.edit)
    ELSE IF a.inspect \in DOMAIN d.apps \cup {0} THEN Drawn ELSE Back
ServeAppEdit(a) == IF a.id \in DOMAIN d.apps THEN Drawn ELSE At("apps")
ServeRepos(a) == IF a.edit # 0 THEN AtRow("repo.edit", a.edit) ELSE Drawn
ServeRepo(a) == IF a.id \in DOMAIN d.bindings THEN Drawn ELSE At("repos")
ServeJobs(a) == IF a.status \in Statuses \cup {""} THEN Drawn ELSE Back

\* A job that is gone is drawn as an error, below.
ServeRun(user, a) ==
    IF user \/ \A j \in Job(d, a.id) : j.shareable THEN Drawn ELSE At("login")

Serve(user, a) ==
    CASE a.page = "login" -> ServeLogin(user)
      [] a.page = "setup" -> ServeSetup
      [] a.page = "run" -> ServeRun(user, a)
      [] a.page \in {"error", "github"} -> Drawn
      [] a.page = "coolify" -> Guarded(user, ServeCoolify(a))
      [] a.page = "apps" -> Guarded(user, ServeApps(a))
      [] a.page = "app.edit" -> Guarded(user, ServeAppEdit(a))
      [] a.page = "repos" -> Guarded(user, ServeRepos(a))
      [] a.page \in {"repo", "repo.edit", "resolve"} -> Guarded(user, ServeRepo(a))
      [] a.page = "jobs" -> Guarded(user, ServeJobs(a))
      [] OTHER -> Guarded(user, Drawn)

\* pageRun draws the guests' error page for a job that is gone, whoever asks.
PageOf(a) == IF a.page = "run" /\ Job(d, a.id) = {} THEN At("error") ELSE a
UserOf(user, a) == user /\ PageOf(a) = a

\* What GitHub or Coolify list for the pages that ask them: nothing when they fail.
Listings(a) ==
    IF \/ a.page = "apps" /\ a.inspect \in DOMAIN d.apps
       \/ a.page = "pick" /\ a.app # 0 /\ IF a.coolify # 0 THEN a.coolify \in DOMAIN d.instances
                                          ELSE a.app \in DOMAIN d.apps
    THEN SUBSET Repos ELSE {{}}

-----------------------------------------------------------------------------
(* What is on the screen.                                                  *)

GitHub ==
    Form("apps.callback", 0, [slug |-> [shown |-> One("openpreflight"), may |-> Each(Typed \ {"", Unfit})]])

View(t) ==
    CASE t.at.page \in {"", "gaveup"} -> Nothing
      [] t.at.page = "github" -> GitHub
      [] OTHER -> Render(t.of, t.at, t.listed, t.user)

-----------------------------------------------------------------------------
(* The browser.                                                            *)

Open(to, referer) ==
    /\ load = Idle
    /\ load' = [to |-> to, referer |-> referer, hops |-> 0]
    /\ UNCHANGED <<d, signedIn, tab, sent, submits, others>>

\* Bound: after the last form only the bookmarks are opened.
Follow ==
    /\ submits < MaxSubmits
    /\ \E a \in View(tab).links \cup View(tab).searches : Open(a, tab.at)

\* A bookmark names no Referer.
Visit == \E a \in Bookmarks : Open(a, Nowhere)

\* The button of the shell replaces the page by itself, and names it as the Referer.
Refresh == tab.user /\ tab.at.page # "error" /\ Open(tab.at, tab.at)

Redirect ==
    /\ load # Idle
    /\ LET to == Serve(signedIn, load.to)
       IN /\ to # Drawn
          /\ load' = [load EXCEPT !.hops = @ + 1,
                                  !.to = IF to # Back THEN to
                                         ELSE IF load.referer.page \in {"", "github"} THEN At("home")
                                         ELSE load.referer]
    /\ load.hops < MaxRedirects
    /\ sent' = Unsent
    /\ UNCHANGED <<d, signedIn, tab, submits, others>>

GiveUp ==
    /\ load # Idle /\ Serve(signedIn, load.to) # Drawn
    /\ load.hops = MaxRedirects
    /\ load' = Idle /\ sent' = Unsent
    /\ tab' = [at |-> At("gaveup"), of |-> d, listed |-> {}, user |-> FALSE, token |-> TRUE]
    /\ UNCHANGED <<d, signedIn, submits, others>>

\* page mints the token the browser lost.
Draw ==
    /\ load # Idle /\ Serve(signedIn, load.to) = Drawn
    /\ \E listed \in Listings(load.to) :
           tab' = [at |-> PageOf(load.to), of |-> d, listed |-> listed,
                   user |-> UserOf(signedIn, load.to), token |-> TRUE]
    /\ load' = Idle /\ sent' = Unsent
    /\ UNCHANGED <<d, signedIn, submits, others>>

-----------------------------------------------------------------------------
(* The forms.                                                              *)

Dispatch(form, in) ==
    LET n == form.id
    IN CASE form.to = "settings"         -> PatchSettings(d, in)
         [] form.to = "password"         -> ChangePassword(d)
         [] form.to = "coolify.create"   -> CreateCoolify(d, in)
         [] form.to = "coolify.update"   -> UpdateCoolify(d, n, in)
         [] form.to = "coolify.test"     -> TestCoolify(d, n)
         [] form.to = "coolify.delete"   -> DeleteCoolify(d, n)
         [] form.to = "coolify.install"  -> InstallWorkerOn(d, n, in)
         [] form.to = "apps.create"      -> CreateApp(d, in)
         [] form.to = "apps.update"      -> UpdateApp(d, n, in)
         [] form.to = "apps.test"        -> TestApp(d, n)
         [] form.to = "apps.delete"      -> DeleteApp(d, n)
         [] form.to = "apps.manifest"    -> StartAppManifest(d)
         [] form.to = "apps.callback"    -> CallbackAppManifest(d, in)
         [] form.to = "bindings.upsert"  -> UpsertBinding(d, in)
         [] form.to = "bindings.bulk"    -> BulkBindings(d, in)
         [] form.to = "bindings.toggle"  -> ToggleBinding(d, n)
         [] form.to = "bindings.delete"  -> DeleteBinding(d, n)
         [] form.to = "jobs.rerun"       -> RerunJob(d, n)
         [] form.to = "jobs.cancel"      -> CancelJob(d, n)

\* guard, and the state of a manifest's callback, which is the same token.
Handle(user, token, form, in) ==
    CASE form.to = "login"  -> HandleLogin(d, user)
      [] form.to = "setup"  -> HandleSetup(d, in, user)
      [] form.to = "logout" -> HandleLogout(d)
      [] OTHER ->
           IF ~d.users \/ ~user THEN {[Answer(d, Guarded(user, Drawn), "") EXCEPT !.user = user]}
           ELSE IF ~token THEN Refused(d)
           ELSE Dispatch(form, in)

Submit ==
    /\ load = Idle /\ submits < MaxSubmits
    /\ \E form \in View(tab).forms : \E in \in Fillings(form.fields) :
       \E answer \in Handle(signedIn, tab.token, form, in) :
           /\ d' = answer.d /\ Counted(answer.d)   \* Bound: the ids
           /\ signedIn' = answer.user
           /\ load' = [to |-> IF answer.to # Back THEN answer.to
                              ELSE IF tab.at.page = "github" THEN At("home") ELSE tab.at,
                       referer |-> tab.at, hops |-> 1]
           /\ sent' = [to |-> form.to, id |-> form.id, in |-> in]
    /\ submits' = submits + 1
    /\ UNCHANGED <<tab, others>>

-----------------------------------------------------------------------------
(* Others: another tab, a webhook, the runner, the sweep, time.            *)

Other(d2) ==
    /\ others < MaxOthers /\ others' = others + 1
    /\ d2 # d /\ Counted(d2) /\ d' = d2           \* Bound: the ids
    /\ UNCHANGED <<tab, load, submits>> /\ sent' = Unsent

AppGoes == (\E n \in DOMAIN d.apps : Other(DeletedApp(d, n))) /\ UNCHANGED signedIn
InstanceGoes == (\E n \in DOMAIN d.instances : Other(DeletedInstance(d, n))) /\ UNCHANGED signedIn
BindingGoes ==
    /\ \E n \in DOMAIN d.bindings : Other([d EXCEPT !.bindings = Without(@, {n})])
    /\ UNCHANGED signedIn
BindingTurns ==
    /\ \E n \in DOMAIN d.bindings : Other([d EXCEPT !.bindings[n].enabled = ~@])
    /\ UNCHANGED signedIn

BindingComes ==
    /\ \E n \in DOMAIN d.apps : \E repo \in Repos :
           LET row == [NoBinding EXCEPT !.github_app_id = n, !.repo = repo, !.enabled = TRUE]
           IN SameKey(d, row) = {} /\ Other(Upserted(d, row))
    /\ UNCHANGED signedIn

AddressChanges ==
    /\ \E text \in Typed \ {Unfit} : Other([d EXCEPT !.settings.public_base_url = text])
    /\ UNCHANGED signedIn

JobArrives ==
    /\ \E n \in Enabled(d) :
           Other([d EXCEPT !.jobs = <<[id |-> d.next, repo |-> d.bindings[n].repo,
                                       app |-> d.bindings[n].github_app_id, status |-> "queued",
                                       shareable |-> d.bindings[n].shareable_logs]>> \o @,
                           !.next = @ + 1])
    /\ UNCHANGED signedIn

JobMoves ==
    /\ \E i \in DOMAIN d.jobs :
       \E status \in IF d.jobs[i].status = "queued" THEN {"in_progress", "cancelled"}
                     ELSE IF d.jobs[i].status = "in_progress" THEN {"success", "failure"} ELSE {} :
           Other([d EXCEPT !.jobs[i].status = status])
    /\ UNCHANGED signedIn

\* The sweep deletes from the oldest, never a run in flight.
JobPruned ==
    /\ d.jobs # <<>> /\ ~JobInFlight(d.jobs[Len(d.jobs)])
    /\ Other([d EXCEPT !.jobs = SubSeq(@, 1, Len(@) - 1)])
    /\ UNCHANGED signedIn

DockerTurns == Other([d EXCEPT !.docker = ~@]) /\ UNCHANGED signedIn

SessionEnds ==
    /\ signedIn /\ signedIn' = FALSE
    /\ others < MaxOthers /\ others' = others + 1
    /\ sent' = Unsent
    /\ UNCHANGED <<d, tab, load, submits>>

\* The cookie of the token expires; the next page has another.
TokenExpires ==
    /\ tab.token /\ load = Idle /\ tab' = [tab EXCEPT !.token = FALSE]
    /\ others < MaxOthers /\ others' = others + 1
    /\ UNCHANGED <<d, signedIn, load, sent, submits>>

Next ==
    \/ Follow \/ Visit \/ Refresh \/ Redirect \/ GiveUp \/ Draw \/ Submit
    \/ AppGoes \/ InstanceGoes \/ BindingGoes \/ BindingTurns \/ BindingComes \/ AddressChanges
    \/ JobArrives \/ JobMoves \/ JobPruned \/ DockerTurns \/ SessionEnds \/ TokenExpires

Spec == Init /\ [][Next]_vars

-----------------------------------------------------------------------------
(* Properties.                                                             *)

Asked(form, in, c) == c \in DOMAIN form.fields /\ in[c] # form.fields[c].shown

(* What a form may do to a table it is the editor of. *)
RowsKept(form, in, old, new, update, delete) ==
    \A n \in DOMAIN old :
        IF n \notin DOMAIN new THEN form.to = delete /\ form.id = n
        ELSE \A c \in DOMAIN old[n] :
                new[n][c] # old[n][c] => form.to = update /\ form.id = n /\ Asked(form, in, c)

SettingsKept(form, in) ==
    \A c \in DOMAIN d.settings : d'.settings[c] # d.settings[c] =>
        Asked(form, in, c) \/ (c \in DOMAIN form.fields /\ tab.of.settings[c] # d.settings[c])

(* A row goes with its own form, with its App, or with its box: unchecked  *)
(* by the user, or not on the page, which was drawn before the row.        *)
BindingMayGo(form, in, n) ==
    \/ form.to = "bindings.delete" /\ form.id = n
    \/ form.to = "apps.delete" /\ form.id = d.bindings[n].github_app_id
    \/ /\ form.to = "bindings.bulk" /\ IntOf(in, "github_app_id", 0) = d.bindings[n].github_app_id
       /\ d.bindings[n].repo \notin in["repo"]
       /\ d.bindings[n].repo \in form.fields["repo"].shown \/ n \notin DOMAIN tab.of.bindings

(* The editor of the row, when the user changed the field, when the page   *)
(* was drawn before the column changed, or when it draws the default of a  *)
(* blank column; or a form that was not the row's and named its App and    *)
(* repository.                                                             *)
EditorMaySet(form, in, n, c) ==
    /\ form.to = "bindings.upsert"
    /\ \/ form.id # n
       \/ Asked(form, in, c)
       \/ tab.of.bindings[n][c] # d.bindings[n][c]
       \/ c = "on_empty_pipeline" /\ d.bindings[n][c] = ""

BindingMayChange(form, in, n, c) ==
    \/ EditorMaySet(form, in, n, c)
    \/ form.to = "bindings.toggle" /\ form.id = n /\ c = "enabled"
    \/ /\ form.to = "bindings.bulk" /\ c \in {"enabled", "coolify_instance_id"}
       /\ d.bindings[n].repo \in in["repo"]
    \/ form.to = "coolify.delete" /\ c = "coolify_instance_id" /\ d.bindings[n][c] = form.id

BindingsKept(form, in) ==
    \A n \in DOMAIN d.bindings :
        IF n \notin DOMAIN d'.bindings THEN BindingMayGo(form, in, n)
        ELSE \A c \in DOMAIN d.bindings[n] :
                d'.bindings[n][c] # d.bindings[n][c] => BindingMayChange(form, in, n, c)

JobsKept(form) ==
    \A j \in Elements(d.jobs) : j \in Elements(d'.jobs) \/ (form.to = "jobs.cancel" /\ form.id = j.id)

(* A form changes what its user changed in it, and nothing else: no row    *)
(* and no column that the page did not show, and of what it showed only    *)
(* what the user touched, or what the page had been drawn without.         *)
EditsKeepTheRest ==
    [][sent' # Unsent =>
         \A form \in View(tab).forms : form.to = sent'.to /\ form.id = sent'.id =>
             /\ SettingsKept(form, sent'.in)
             /\ RowsKept(form, sent'.in, d.apps, d'.apps, "apps.update", "apps.delete")
             /\ RowsKept(form, sent'.in, d.instances, d'.instances, "coolify.update", "coolify.delete")
             /\ BindingsKept(form, sent'.in)
             /\ JobsKept(form)]_vars

Fresh == load = Idle /\ tab.of = d /\ tab.user /\ signedIn /\ tab.token

LinksLand(links) == \A a \in links : Serve(TRUE, a) = Drawn /\ PageOf(a) = a

SlugTaken(in) == \E n \in DOMAIN d.apps : d.apps[n].slug \in StrList(in, "slug") \cup StrList(in, "name")
AddressIsStale == tab.at.app \notin DOMAIN d.apps \cup {0} \/ tab.at.coolify \notin DOMAIN d.instances \cup {0}

(* What the user is told of, having asked for it or having to mend it first. *)
Excused(form, in) ==
    \/ Unfit \in UNION {in[c] : c \in DOMAIN in}
    \/ form.to = "settings" /\ ~ForksAllowed(d, PatchedRunner(d.settings, in))
    \/ form.to \in {"apps.create", "apps.update", "apps.callback"} /\ SlugTaken(in)
    \/ form.to = "jobs.rerun" /\ \A j \in Job(d, form.id) : EnabledBinding(d, j) = {}
    \/ form.to = "bindings.bulk" /\ AddressIsStale

(* A page that was drawn a moment ago offers nothing the server refuses:   *)
(* its links and searches draw the page they name, and its forms, as drawn *)
(* or with one field changed in any way the browser lets through, are      *)
(* taken.                                                                  *)
OfferedControlsWork ==
    Fresh =>
        /\ LinksLand(View(tab).links \cup View(tab).searches)
        /\ \A form \in View(tab).forms : \A in \in Fillings(form.fields) :
              \A answer \in Handle(TRUE, TRUE, form, in) :
                  answer.notice = "err" => Excused(form, in)

\* Each address is a link of the page before it, whatever GitHub and Coolify answer.
Leads(way) == \A k \in 1..(Len(way) - 1) : way[k + 1] \in Render(d, way[k], {}, TRUE).links

\* The pages of the index up to the one the i-th job is on, and the job's run.
WayToRun(i) ==
    LET pages == ((i - 1) \div JobsLimit) + 1
    IN [k \in 1..(pages + 2) |->
           IF k = 1 THEN At("home")
           ELSE IF k <= pages + 1 THEN JobsPath("", "", (k - 2) * JobsLimit)
           ELSE AtRow("run", d.jobs[i].id)]

(* From the overview, by links alone, the user comes to the editor of      *)
(* every row and to every run.                                             *)
EveryRowIsInReach ==
    Fresh /\ tab.at = At("home") =>
        /\ \A n \in DOMAIN d.apps : Leads(<<At("home"), At("apps"), AtRow("app.edit", n)>>)
        /\ \A n \in DOMAIN d.instances :
               Leads(<<At("home"), At("coolify"), [At("coolify") EXCEPT !.edit = n]>>)
        /\ \A n \in DOMAIN d.bindings :
               Leads(<<At("home"), At("repos"), AtRow("repo", n), AtRow("repo.edit", n)>>)
        /\ \A i \in DOMAIN d.jobs : Leads(WayToRun(i))

(* An address that names a row that is gone is answered with a page, as    *)
(* pageRepo says of a stale id (pages.go:314): no chain of redirects runs  *)
(* until the browser gives up.                                             *)
StaleIdsLandOnAPage == load.hops < MaxRedirects
=============================================================================
