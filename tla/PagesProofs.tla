----------------------------- MODULE PagesProofs -----------------------------
(***************************************************************************)
(* Pages: for any database, texts and numbers, and any number of forms and *)
(* changes by others.  The database stays whole and every page was drawn   *)
(* from a whole one; so what a page offers the server takes, every row is  *)
(* a chain of links away from the overview, and a posted form changes what *)
(* its user changed and nothing else.                                      *)
(*                                                                         *)
(* First what each page draws: its forms (Offered), its links (Goes).      *)
(* Then what each handler leaves (Sound: a whole database; Mine: only its  *)
(* own table written), the invariant IInv and that every step keeps it,    *)
(* what a page that was drawn a moment ago offers, and last what the       *)
(* handlers leave as it was (Left).                                        *)
(***************************************************************************)
EXTENDS Pages, FiniteSetTheorems, SequenceTheorems, TLAPS

-----------------------------------------------------------------------------
(* The forms of a page.                                                    *)

\* What a page can have been drawn from: of, at and listed are those of tab.
DrawnFrom(of, at) ==
    /\ at.page \in PageNames
    /\ at.page = "coolify" => at.inspect \in DOMAIN of.instances \cup {0}
    /\ at.page = "apps" => at.inspect \in DOMAIN of.apps \cup {0}
    /\ at.page = "app.edit" => at.id \in DOMAIN of.apps
    /\ at.page \in {"repo", "repo.edit", "resolve"} => at.id \in DOMAIN of.bindings
    /\ at.page = "jobs" => at.status \in Statuses \cup {""}

BulkFields(of, at, listed) ==
    [github_app_id |-> PickerHidden(at.app), coolify_instance_id |-> PickerHidden(at.coolify),
     repo |-> PickerBoxes(Picker(of, at, listed), BoundRepos(of, at.app))]

\* What SettingsShell holds.
SettingsFieldsOf(of, page) ==
    CASE page = "settings" -> ConfigurationFields(of.settings)
      [] page = "runner" -> RunnerFields(of.settings)
      [] page = "logs" -> LogsFields(of.settings)

CallbackFields == [slug |-> [shown |-> One("openpreflight"), may |-> Each(Typed \ {"", Unfit})]]

\* The forms that are one button.
Buttons == {"logout", "coolify.test", "coolify.delete", "apps.test", "apps.delete",
            "bindings.toggle", "bindings.delete", "jobs.rerun", "jobs.cancel", "apps.manifest"}

FieldsOf(of, at, listed, to, n) ==
    CASE to = "login" -> LoginFields
      [] to = "setup" -> SetupFields
      [] to = "password" -> AdminFields
      [] to = "settings" -> SettingsFieldsOf(of, at.page)
      [] to = "coolify.create" -> InstanceFields(FALSE, NoInstance)
      [] to = "coolify.update" -> InstanceFields(TRUE, of.instances[n])
      [] to = "coolify.install" -> WorkerFields(of.instances[n])
      [] to = "apps.create" -> AppFields(FALSE, NoApp)
      [] to = "apps.update" -> AppFields(TRUE, of.apps[n])
      [] to = "apps.callback" -> CallbackFields
      [] to = "bindings.upsert" -> IF n # 0 THEN BindingFields(TRUE, of.bindings[n], of.apps, of.instances)
                                   ELSE BindingFields(FALSE, NoBinding, of.apps, of.instances)
      [] to = "bindings.bulk" -> BulkFields(of, at, listed)
      [] OTHER -> NoFields

Actions == Buttons \cup
    {"login", "setup", "password", "settings", "coolify.create", "coolify.update", "coolify.install",
     "apps.create", "apps.update", "apps.callback", "bindings.upsert", "bindings.bulk"}

\* The row a form names is on the page.
IsThere(of, at, to, n) ==
    /\ to \in Actions
    /\ to = "setup" => at.page = "setup"
    /\ to = "settings" => at.page \in {"settings", "runner", "logs"}
    /\ to \in {"coolify.update", "coolify.install", "coolify.test", "coolify.delete"} =>
          n \in DOMAIN of.instances
    /\ to \in {"apps.update", "apps.test", "apps.delete"} => n \in DOMAIN of.apps
    /\ to \in {"bindings.toggle", "bindings.delete"} => n \in DOMAIN of.bindings
    /\ to = "bindings.upsert" => n \in DOMAIN of.bindings \cup {0} /\ \E app : app \in DOMAIN of.apps
    /\ to = "bindings.bulk" => at.page = "pick" /\ at.app # 0
    /\ to \in {"jobs.rerun", "jobs.cancel"} =>
          \E j \in Elements(of.jobs) : j.id = n /\ (to = "jobs.cancel" => JobInFlight(j))
    /\ to = "apps.manifest" => of.settings.public_base_url # ""

Offered(of, at, listed, form) ==
    /\ form.fields = FieldsOf(of, at, listed, form.to, form.id)
    /\ IsThere(of, at, form.to, form.id)

LEMMA LinkForms == \A a, form : form \notin Links(a).forms /\ form \notin Link(a).forms /\ form \notin Nothing.forms
BY DEF Link, Links, Nothing

LEMMA FormForms ==
    \A to, n, fields, form : form \in Form(to, n, fields).forms =>
                                 form.to = to /\ form.id = n /\ form.fields = fields
BY DEF Form, Nothing

LEMMA SumForms == \A v, w, form : form \in (v (+) w).forms <=> form \in v.forms \/ form \in w.forms
BY DEF (+)

LEMMA EveryForms == \A views, form : form \in Every(views).forms => \E v \in views : form \in v.forms
BY DEF Every

LEMMA ShellForms ==
    ASSUME NEW crumbs, NEW body, NEW form \in Shell(crumbs, body).forms
    PROVE  form \in SidebarLogout.forms \/ form \in body.forms
BY LinkForms, SumForms DEF Shell, Crumbs, AppSidebar, Brand, SidebarOverview, SidebarJobs, SidebarRepos,
       SidebarStatus, SidebarApps, SidebarCoolify, SidebarSettings, MenuButton

LEMMA GuestForms == \A body, form : form \in Guest(body).forms => form \in body.forms
BY LinkForms, SumForms DEF Guest, Brand

LEMMA ButtonOffered ==
    ASSUME NEW of, NEW at, NEW listed, NEW to \in Buttons, NEW n, NEW form \in Form(to, n, NoFields).forms,
           IsThere(of, at, to, n)
    PROVE  Offered(of, at, listed, form)
<1>1. form.to = to /\ form.id = n /\ form.fields = NoFields
  BY FormForms
<1>2. FieldsOf(of, at, listed, to, n) = NoFields
  BY DEF FieldsOf, Buttons
<1>. QED BY <1>1, <1>2 DEF Offered

LEMMA LogoutOffered ==
    ASSUME NEW of, NEW at, NEW listed, NEW form \in SidebarLogout.forms
    PROVE  Offered(of, at, listed, form)
<1>1. IsThere(of, at, "logout", 0)
  BY DEF IsThere, Actions, Buttons
<1>. QED BY <1>1, ButtonOffered DEF SidebarLogout, Buttons

LEMMA FormOffered ==
    ASSUME NEW of, NEW at, NEW listed, NEW to, NEW n, IsThere(of, at, to, n),
           NEW fields, FieldsOf(of, at, listed, to, n) = fields, NEW form \in Form(to, n, fields).forms
    PROVE  Offered(of, at, listed, form)
<1>1. form.to = to /\ form.id = n /\ form.fields = fields
  BY FormForms
<1>. QED BY <1>1 DEF Offered

LEMMA SettingsForms ==
    ASSUME NEW of, NEW at, NEW listed, NEW user, at.page \in {"settings", "runner", "logs", "admin"},
           NEW form \in Render(of, at, listed, user).forms
    PROVE  Offered(of, at, listed, form)
<1>0. \A page : form \notin SettingsNavItem(page).forms
  BY LinkForms DEF SettingsNavItem
<1>1. ASSUME NEW body, form \in SettingsShell(at.page, body).forms
      PROVE  form \in SidebarLogout.forms \/ form \in body.forms
  <2>1. form \notin SettingsNav.forms
    BY <1>0, EveryForms DEF SettingsNav
  <2>. QED BY <1>1, <2>1, ShellForms, SumForms DEF SettingsShell
<1>2. CASE form \in SidebarLogout.forms
  BY <1>2, LogoutOffered
<1>3. CASE at.page # "admin" /\ form \in Form("settings", 0, SettingsFieldsOf(of, at.page)).forms
  <2>1. IsThere(of, at, "settings", 0)
    BY <1>3 DEF IsThere, Actions
  <2>2. FieldsOf(of, at, listed, "settings", 0) = SettingsFieldsOf(of, at.page)
    BY DEF FieldsOf
  <2>. QED BY <1>3, <2>1, <2>2, FormOffered
<1>4. CASE form \in SettingsAdmin.forms
  <2>1. IsThere(of, at, "password", 0)
    BY DEF IsThere, Actions
  <2>2. FieldsOf(of, at, listed, "password", 0) = AdminFields
    BY DEF FieldsOf
  <2>. QED BY <1>4, <2>1, <2>2, FormOffered DEF SettingsAdmin
<1>5. CASE at.page = "settings"
  BY <1>1, <1>2, <1>3, <1>5 DEF Render, SettingsConfiguration, SettingsFieldsOf
<1>6. CASE at.page = "runner"
  BY <1>1, <1>2, <1>3, <1>6 DEF Render, SettingsRunner, SettingsFieldsOf
<1>7. CASE at.page = "logs"
  BY <1>1, <1>2, <1>3, <1>7 DEF Render, SettingsLogs, SettingsFieldsOf
<1>8. CASE at.page = "admin"
  BY <1>1, <1>2, <1>4, <1>8 DEF Render
<1>. QED BY <1>5, <1>6, <1>7, <1>8

LEMMA CoolifyForms ==
    ASSUME NEW of, NEW at, DrawnFrom(of, at), NEW listed, NEW user, at.page = "coolify",
           NEW form \in Render(of, at, listed, user).forms
    PROVE  Offered(of, at, listed, form)
<1>1. form \in Coolify(of, at).forms
  BY DEF Render
<1>2. CASE form \in SidebarLogout.forms
  BY <1>2, LogoutOffered
<1>3. CASE form \in CoolifyHead(of).forms
  BY <1>3, LinkForms DEF CoolifyHead, When
<1>4. CASE form \in Every({InstanceCard(n) : n \in DOMAIN of.instances}).forms
  <2>1. PICK n \in DOMAIN of.instances : form \in InstanceCard(n).forms
    BY <1>4, EveryForms
  <2>2. form \in InstanceTest(n).forms \/ form \in InstanceRemove(n).forms
    BY <2>1, LinkForms, SumForms DEF InstanceCard, InstanceEdit, InstanceInspect
  <2>3. IsThere(of, at, "coolify.test", n) /\ IsThere(of, at, "coolify.delete", n)
    BY DEF IsThere, Actions, Buttons
  <2>. QED BY <2>2, <2>3, ButtonOffered DEF InstanceTest, InstanceRemove, Confirm, Buttons
<1>5. CASE form \in When(at.inspect # 0, InstallWorker(of, at.inspect)).forms
  <2>1. at.inspect \in DOMAIN of.instances /\ form \in InstallWorker(of, at.inspect).forms
    BY <1>5, LinkForms DEF DrawnFrom, When
  <2>2. IsThere(of, at, "coolify.install", at.inspect)
    BY <2>1 DEF IsThere, Actions
  <2>3. FieldsOf(of, at, listed, "coolify.install", at.inspect) = WorkerFields(of.instances[at.inspect])
    BY DEF FieldsOf
  <2>. QED BY <2>1, <2>2, <2>3, FormOffered DEF InstallWorker
<1>6. CASE form \in CoolifyForm(of, at.edit).forms
  <2>1. CASE at.edit \in DOMAIN of.instances
    <3>. DEFINE fields == InstanceFields(TRUE, of.instances[at.edit])
    <3>1. IsThere(of, at, "coolify.update", at.edit)
      BY <2>1 DEF IsThere, Actions
    <3>2. CoolifyForm(of, at.edit) = Form("coolify.update", at.edit, fields) (+) Link(At("coolify"))
      BY <2>1 DEF CoolifyForm
    <3>3. FieldsOf(of, at, listed, "coolify.update", at.edit) = fields
      BY DEF FieldsOf
    <3>. HIDE DEF fields
    <3>4. form \in Form("coolify.update", at.edit, fields).forms
      BY <1>6, <3>2, SumForms, LinkForms
    <3>. QED BY <3>1, <3>3, <3>4, FormOffered
  <2>2. CASE at.edit \notin DOMAIN of.instances
    <3>1. IsThere(of, at, "coolify.create", 0)
      BY DEF IsThere, Actions
    <3>2. form \in Form("coolify.create", 0, InstanceFields(FALSE, NoInstance)).forms
      BY <1>6, <2>2 DEF CoolifyForm
    <3>3. FieldsOf(of, at, listed, "coolify.create", 0) = InstanceFields(FALSE, NoInstance)
      BY DEF FieldsOf
    <3>. QED BY <3>1, <3>2, <3>3, FormOffered
  <2>. QED BY <2>1, <2>2
<1>. QED BY <1>1, <1>2, <1>3, <1>4, <1>5, <1>6, ShellForms, SumForms DEF Coolify

LEMMA AccountForms ==
    ASSUME NEW of, NEW at, NEW listed, NEW user, at.page \in {"login", "setup", "error", "status"},
           NEW form \in Render(of, at, listed, user).forms
    PROVE  Offered(of, at, listed, form)
<1>1. CASE form \in SidebarLogout.forms
  BY <1>1, LogoutOffered
<1>2. CASE form \in Form("login", 0, LoginFields).forms
  <2>1. IsThere(of, at, "login", 0) /\ FieldsOf(of, at, listed, "login", 0) = LoginFields
    BY DEF IsThere, Actions, FieldsOf
  <2>. QED BY <1>2, <2>1, FormOffered
<1>3. CASE form \in Form("setup", 0, SetupFields).forms /\ at.page = "setup"
  <2>1. IsThere(of, at, "setup", 0) /\ FieldsOf(of, at, listed, "setup", 0) = SetupFields
    BY <1>3 DEF IsThere, Actions, FieldsOf
  <2>. QED BY <1>3, <2>1, FormOffered
<1>4. CASE at.page = "login"
  BY <1>2, <1>4, GuestForms DEF Render, Login
<1>5. CASE at.page = "setup"
  BY <1>3, <1>5, GuestForms DEF Render, Setup
<1>6. CASE at.page = "error"
  <2>1. form \in Error(user).forms /\ form \notin ErrorWays(TRUE).forms /\ form \notin ErrorWays(FALSE).forms
    BY <1>6, LinkForms DEF Render, ErrorWays
  <2>. QED BY <1>1, <2>1, ShellForms, GuestForms DEF Error
<1>7. CASE at.page = "status"
  BY <1>1, <1>7, ShellForms, LinkForms DEF Render, Status
<1>. QED BY <1>4, <1>5, <1>6, <1>7

LEMMA DashboardForms ==
    ASSUME NEW of, NEW at, NEW listed, NEW user, at.page = "home",
           NEW form \in Render(of, at, listed, user).forms
    PROVE  Offered(of, at, listed, form)
<1>1. form \in Dashboard(of).forms
  BY DEF Render
<1>2. form \notin DashHead(of).forms
  BY LinkForms, SumForms DEF DashHead, When
<1>3. form \notin SetupRows(of).forms
  <2>1. \A a : form \notin SetupRow(a).forms
    BY LinkForms DEF SetupRow
  <2>2. /\ form \notin SetupAddressRow.forms /\ form \notin SetupAppRow(of).forms
        /\ form \notin SetupRepoRow.forms /\ form \notin SetupCoolifyRow.forms
    BY <2>1 DEF SetupAddressRow, SetupAppRow, SetupRepoRow, SetupCoolifyRow
  <2>3. form \notin SetupRunRow(of).forms
    BY <2>1, LinkForms DEF SetupRunRow, When
  <2>. QED BY <2>2, <2>3, LinkForms, SumForms DEF SetupRows, When
<1>4. form \notin ActiveRuns(of).forms
  BY LinkForms, SumForms DEF ActiveRuns, When, JobTable
<1>5. form \notin RecentRuns(of).forms
  BY LinkForms, SumForms DEF RecentRuns, JobTable
<1>6. form \notin DashRepos(of).forms
  <2>1. \A n : form \notin DashCard(of, n).forms
    BY LinkForms, SumForms DEF DashCard, LastRun
  <2>2. form \notin Every({DashCard(of, n) : n \in Cards(of)}).forms
    BY <2>1, EveryForms
  <2>. QED BY <2>2, LinkForms, SumForms DEF DashRepos, When
<1>. QED BY <1>1, <1>2, <1>3, <1>4, <1>5, <1>6, ShellForms, SumForms, LogoutOffered DEF Dashboard

LEMMA AppsForms ==
    ASSUME NEW of, NEW at, DrawnFrom(of, at), NEW listed, NEW user, at.page \in {"apps", "apps.new", "app.edit"},
           NEW form \in Render(of, at, listed, user).forms
    PROVE  Offered(of, at, listed, form)
<1>1. CASE form \in SidebarLogout.forms
  BY <1>1, LogoutOffered
<1>2. CASE at.page = "apps"
  <2>1. form \in GitHubApps(of, at, listed).forms
    BY <1>2 DEF Render
  <2>2. form \notin AppsHead.forms /\ form \notin AppsEmpty(of).forms /\ form \notin AppInstallations(at, listed).forms
    BY LinkForms DEF AppsHead, AppsEmpty, AppInstallations, When
  <2>3. CASE form \in Every({AppCard(n) : n \in DOMAIN of.apps}).forms
    <3>1. PICK n \in DOMAIN of.apps : form \in AppCard(n).forms
      BY <2>3, EveryForms
    <3>2. form \in AppTest(n).forms \/ form \in AppRemove(n).forms
      BY <3>1, LinkForms, SumForms DEF AppCard, AppEdit, AppInspect
    <3>3. IsThere(of, at, "apps.test", n) /\ IsThere(of, at, "apps.delete", n)
      BY DEF IsThere, Actions, Buttons
    <3>. QED BY <3>2, <3>3, ButtonOffered DEF AppTest, AppRemove, Confirm, Buttons
  <2>. QED BY <1>1, <2>1, <2>2, <2>3, ShellForms, SumForms DEF GitHubApps
<1>3. CASE at.page = "apps.new"
  <2>. DEFINE fields == AppFields(FALSE, NoApp)
  <2>1. form \in GitHubAppsNew(of).forms
    BY <1>3 DEF Render
  <2>2. CredentialsForm("apps.create", 0, FALSE, NoApp) = Form("apps.create", 0, fields) (+) Link(At("apps"))
    BY DEF CredentialsForm
  <2>3. IsThere(of, at, "apps.create", 0) /\ FieldsOf(of, at, listed, "apps.create", 0) = fields
    BY DEF IsThere, Actions, FieldsOf
  <2>. HIDE DEF fields
  <2>4. CASE form \in CredentialsForm("apps.create", 0, FALSE, NoApp).forms
    <3>1. form \in (Form("apps.create", 0, fields) (+) Link(At("apps"))).forms
      BY <2>2, <2>4
    <3>2. form \in Form("apps.create", 0, fields).forms
      BY <3>1, LinkForms, SumForms
    <3>. QED BY <3>2, <2>3, FormOffered
  <2>5. CASE form \in ManifestCard(of.settings).forms
    <3>1. of.settings.public_base_url # "" /\ form \in Form("apps.manifest", 0, NoFields).forms
      BY <2>5, LinkForms DEF ManifestCard
    <3>2. IsThere(of, at, "apps.manifest", 0)
      BY <3>1 DEF IsThere, Actions, Buttons
    <3>. QED BY <3>1, <3>2, ButtonOffered DEF Buttons
  <2>6. \/ form \in SidebarLogout.forms
        \/ form \in (ManifestCard(of.settings) (+) CredentialsForm("apps.create", 0, FALSE, NoApp)).forms
    BY <2>1, ShellForms DEF GitHubAppsNew
  <2>. QED BY <1>1, <2>4, <2>5, <2>6, SumForms
<1>4. CASE at.page = "app.edit"
  <2>. DEFINE fields == AppFields(TRUE, of.apps[at.id])
  <2>1. form \in GitHubAppsEdit(of, at.id).forms
    BY <1>4 DEF Render
  <2>2. CredentialsForm("apps.update", at.id, TRUE, of.apps[at.id]) =
           Form("apps.update", at.id, fields) (+) Link(At("apps"))
    BY DEF CredentialsForm
  <2>3. IsThere(of, at, "apps.update", at.id) /\ FieldsOf(of, at, listed, "apps.update", at.id) = fields
    BY <1>4 DEF DrawnFrom, IsThere, Actions, FieldsOf
  <2>. HIDE DEF fields
  <2>4. CASE form \in CredentialsForm("apps.update", at.id, TRUE, of.apps[at.id]).forms
    <3>1. form \in (Form("apps.update", at.id, fields) (+) Link(At("apps"))).forms
      BY <2>2, <2>4
    <3>2. form \in Form("apps.update", at.id, fields).forms
      BY <3>1, LinkForms, SumForms
    <3>. QED BY <3>2, <2>3, FormOffered
  <2>. QED BY <1>1, <2>1, <2>4, ShellForms DEF GitHubAppsEdit
<1>. QED BY <1>2, <1>3, <1>4

LEMMA ReposForms ==
    ASSUME NEW of, NEW at, NEW listed, NEW user, at.page = "repos",
           NEW form \in Render(of, at, listed, user).forms
    PROVE  Offered(of, at, listed, form)
<1>1. form \in Repositories(of).forms
  BY DEF Render
<1>2. form \notin ReposHead(of).forms /\ form \notin ReposEmpty(of).forms
  BY LinkForms DEF ReposHead, ReposEmpty, ReposNeedApp, When
<1>3. CASE form \in Every({RepoCard(of, n) : n \in DOMAIN of.bindings}).forms
  <2>1. PICK n \in DOMAIN of.bindings : form \in RepoCard(of, n).forms
    BY <1>3, EveryForms
  <2>2. form \in RepoToggle(n).forms \/ form \in RepoRemove(n).forms
    BY <2>1, LinkForms, SumForms DEF RepoCard, RepoTitle, LastRun
  <2>3. IsThere(of, at, "bindings.toggle", n) /\ IsThere(of, at, "bindings.delete", n)
    BY DEF IsThere, Actions, Buttons
  <2>. QED BY <2>2, <2>3, ButtonOffered DEF RepoToggle, RepoRemove, Confirm, Buttons
<1>. QED BY <1>1, <1>2, <1>3, ShellForms, SumForms, LogoutOffered DEF Repositories

LEMMA PickForms ==
    ASSUME NEW of, NEW at, NEW listed, NEW user, at.page = "pick",
           NEW form \in Render(of, at, listed, user).forms
    PROVE  Offered(of, at, listed, form)
<1>. DEFINE fields == BulkFields(of, at, listed)
<1>1. form \in ReposPick(of, at, listed).forms
  BY DEF Render
<1>2. form \notin ReposNeedApp.forms /\ form \notin PickSource(of, at).forms
  BY LinkForms DEF ReposNeedApp, PickSource, Search, Nothing
<1>3. CASE form \in PickForm(of, at, listed).forms
  <2>1. at.app # 0 /\ form \in Form("bindings.bulk", 0, fields).forms
    BY <1>3, LinkForms DEF PickForm, When, Picker, BulkFields
  <2>2. IsThere(of, at, "bindings.bulk", 0)
    BY <2>1 DEF IsThere, Actions
  <2>3. FieldsOf(of, at, listed, "bindings.bulk", 0) = fields
    BY DEF FieldsOf
  <2>. HIDE DEF fields
  <2>. QED BY <2>1, <2>2, <2>3, FormOffered
<1>. QED BY <1>1, <1>2, <1>3, ShellForms, SumForms, LogoutOffered DEF ReposPick

LEMMA EditorForms ==
    ASSUME NEW of, NEW at, NEW listed, NEW n \in DOMAIN of.bindings \cup {0},
           NEW row, n # 0 => row = of.bindings[n], n = 0 => row = NoBinding,
           NEW form \in ReposEditor(of, n, row).forms
    PROVE  Offered(of, at, listed, form)
<1>. DEFINE fields == BindingFields(n # 0, row, of.apps, of.instances)
<1>1. CASE form \in SidebarLogout.forms
  BY <1>1, LogoutOffered
<1>2. CASE form \in Form("bindings.upsert", n, fields).forms /\ \E app : app \in DOMAIN of.apps
  <2>1. IsThere(of, at, "bindings.upsert", n)
    BY <1>2 DEF IsThere, Actions
  <2>2. FieldsOf(of, at, listed, "bindings.upsert", n) = fields
    <3>1. CASE n = 0
      BY <3>1 DEF FieldsOf
    <3>2. CASE n # 0
      BY <3>2 DEF FieldsOf
    <3>. QED BY <3>1, <3>2
  <2>. HIDE DEF fields
  <2>. QED BY <1>2, <2>1, <2>2, FormOffered
<1>3. form \notin ReposNeedApp.forms /\ form \notin EditorActions(n).forms
  BY LinkForms, SumForms DEF ReposNeedApp, EditorActions, When
<1>4. CASE DOMAIN of.apps = {}
  <2>1. form \in Shell({At("repos")}, ReposNeedApp).forms
    BY <1>4 DEF ReposEditor
  <2>. QED BY <2>1, <1>1, <1>3, ShellForms
<1>5. CASE DOMAIN of.apps # {}
  <2>1. form \in Shell({At("repos")}, Form("bindings.upsert", n, fields) (+) EditorActions(n)).forms
    BY <1>5 DEF ReposEditor
  <2>2. \E app : app \in DOMAIN of.apps
    BY <1>5
  <2>. HIDE DEF fields
  <2>. QED BY <2>1, <2>2, <1>1, <1>2, <1>3, ShellForms, SumForms
<1>. QED BY <1>4, <1>5

LEMMA RepoForms ==
    ASSUME NEW of, NEW at, DrawnFrom(of, at), NEW listed, NEW user,
           0 \notin DOMAIN of.bindings, at.page \in {"repos.new", "repo.edit", "repo", "resolve"},
           NEW form \in Render(of, at, listed, user).forms
    PROVE  Offered(of, at, listed, form)
<1>1. CASE at.page = "repos.new"
  <2>1. form \in ReposEditor(of, 0, NoBinding).forms
    BY <1>1 DEF Render
  <2>2. 0 \in DOMAIN of.bindings \cup {0}
    OBVIOUS
  <2>. QED BY <2>1, <2>2, EditorForms
<1>2. CASE at.page = "repo.edit"
  <2>1. form \in ReposEditor(of, at.id, of.bindings[at.id]).forms
    BY <1>2 DEF Render
  <2>2. at.id \in DOMAIN of.bindings
    BY <1>2 DEF DrawnFrom
  <2>3. CASE at.id # 0
    BY <2>1, <2>2, <2>3, EditorForms
  <2>. QED BY <2>2, <2>3
<1>3. CASE at.page = "repo"
  <2>1. form \in Repo(of, at.id).forms
    BY <1>3 DEF Render
  <2>2. \A places, jobs : /\ form \notin RepoHead(at.id).forms /\ form \notin RepoLast(of, places).forms
                          /\ form \notin JobTable(jobs).forms
    BY LinkForms DEF RepoHead, RepoLast, LastRun, JobTable
  <2>3. PICK crumbs, places, jobs : form \in Shell(crumbs, RepoHead(at.id) (+) RepoLast(of, places) (+) JobTable(jobs)).forms
    BY <2>1 DEF Repo
  <2>4. form \in SidebarLogout.forms
    BY <2>2, <2>3, ShellForms, SumForms
  <2>. QED BY <2>4, LogoutOffered
<1>4. CASE at.page = "resolve"
  <2>1. form \in RepoResolve(at.id, at.ref).forms
    BY <1>4 DEF Render
  <2>2. form \notin ResolveForm(at.id, at.ref).forms
    BY DEF ResolveForm, Search, Nothing
  <2>. QED BY <2>1, <2>2, ShellForms, SumForms, LinkForms, LogoutOffered DEF RepoResolve
<1>. QED BY <1>1, <1>2, <1>3, <1>4

LEMMA ControlsOffered ==
    ASSUME NEW of, NEW at, NEW listed, NEW j \in Elements(of.jobs), NEW form,
           form \in RowRerun(j).forms \/ form \in When(JobInFlight(j), Confirm("jobs.cancel", j.id)).forms
    PROVE  Offered(of, at, listed, form)
<1>1. CASE form \in RowRerun(j).forms
  <2>1. IsThere(of, at, "jobs.rerun", j.id)
    BY DEF IsThere, Actions, Buttons
  <2>. QED BY <1>1, <2>1, ButtonOffered DEF RowRerun, Buttons
<1>2. CASE form \in When(JobInFlight(j), Confirm("jobs.cancel", j.id)).forms
  <2>1. JobInFlight(j) /\ form \in Form("jobs.cancel", j.id, NoFields).forms
    BY <1>2, LinkForms DEF When, Confirm
  <2>2. IsThere(of, at, "jobs.cancel", j.id)
    BY <2>1 DEF IsThere, Actions, Buttons
  <2>. QED BY <2>1, <2>2, ButtonOffered DEF Buttons
<1>. QED BY <1>1, <1>2

LEMMA SliceFromJobs == \A of, places, offset, limit :
    places \subseteq DOMAIN of.jobs => Slice(of, places, offset, limit) \subseteq Elements(of.jobs)
BY DEF Slice, Elements

LEMMA JobsForms ==
    ASSUME NEW of, NEW at, NEW listed, NEW user, at.page = "jobs",
           NEW form \in Render(of, at, listed, user).forms
    PROVE  Offered(of, at, listed, form)
<1>. DEFINE list == ListJobs(of, at.repo, at.status, at.offset)
<1>1. form \in Jobs(of, at).forms
  BY DEF Render
<1>2. list \subseteq Elements(of.jobs)
  BY SliceFromJobs DEF ListJobs, Matching
<1>3. form \notin JobsFilter(at.repo, at.status).forms
  BY DEF JobsFilter, Search, Nothing
<1>4. form \notin JobsClear(at.repo, at.status).forms
  BY LinkForms DEF JobsClear, When
<1>5. \A n : form \notin JobsPager(at, n).forms
  BY LinkForms, SumForms DEF JobsPager, PagerPrevious, PagerNext, When
<1>6. ASSUME form \in JobsTable(list, JobFiltered(at)).forms
      PROVE  Offered(of, at, listed, form)
  <2>1. form \in Every({JobsRow(j) : j \in list}).forms
    BY <1>6, LinkForms DEF JobsTable, JobsEmpty
  <2>2. PICK j \in list : form \in JobsRow(j).forms
    BY <2>1, EveryForms
  <2>3. form \in RowRerun(j).forms \/ form \in When(JobInFlight(j), Confirm("jobs.cancel", j.id)).forms
    BY <2>2, LinkForms, SumForms DEF JobsRow, RowLinks, RowCancel
  <2>. QED BY <1>2, <2>3, ControlsOffered
<1>. HIDE DEF list
<1>7. form \in SidebarLogout.forms \/ form \in JobsTable(list, JobFiltered(at)).forms
  BY <1>1, <1>3, <1>4, <1>5, ShellForms, SumForms DEF Jobs, list
<1>. QED BY <1>6, <1>7, LogoutOffered

LEMMA RunForms ==
    ASSUME NEW of, NEW at, NEW listed, NEW user, at.page = "run",
           NEW form \in Render(of, at, listed, user).forms
    PROVE  Offered(of, at, listed, form)
<1>. DEFINE shown == {j \in Elements(of.jobs) : j.id = at.id}
<1>1. CASE user
  <2>1. form \in Shell({At("jobs")}, Every({RunControls(j) : j \in shown})).forms
    BY <1>1 DEF Render, Run
  <2>2. CASE form \in Every({RunControls(j) : j \in shown}).forms
    <3>1. PICK j \in shown : form \in RunControls(j).forms
      BY <2>2, EveryForms
    <3>2. form \in RowRerun(j).forms \/ form \in When(JobInFlight(j), Confirm("jobs.cancel", j.id)).forms
      BY <3>1, SumForms DEF RunControls
    <3>. QED BY <3>2, ControlsOffered
  <2>. QED BY <2>1, <2>2, ShellForms, LogoutOffered
<1>2. CASE ~user
  BY <1>2, GuestForms, LinkForms DEF Render, Run
<1>. QED BY <1>1, <1>2

LEMMA RenderForms ==
    ASSUME NEW of, 0 \notin DOMAIN of.bindings, NEW at, DrawnFrom(of, at), at.page # "github",
           NEW listed, NEW user, NEW form \in Render(of, at, listed, user).forms
    PROVE  Offered(of, at, listed, form)
<1>3. CASE at.page \in {"login", "setup", "error", "status"}
  BY <1>3, AccountForms
<1>4. CASE at.page \in {"settings", "runner", "logs", "admin"}
  BY <1>4, SettingsForms
<1>5. CASE at.page \in {"apps", "apps.new", "app.edit"}
  BY <1>5, AppsForms
<1>6. CASE at.page \in {"repos.new", "repo.edit", "repo", "resolve"}
  BY <1>6, RepoForms
<1>7. CASE at.page = "home"
  BY <1>7, DashboardForms
<1>8. CASE at.page = "repos"
  BY <1>8, ReposForms
<1>9. CASE at.page = "coolify"
  BY <1>9, CoolifyForms
<1>10. CASE at.page = "pick"
  BY <1>10, PickForms
<1>11. CASE at.page = "jobs"
  BY <1>11, JobsForms
<1>12. CASE at.page = "run"
  BY <1>12, RunForms
<1>. QED BY <1>3, <1>4, <1>5, <1>6, <1>7, <1>8, <1>9, <1>10, <1>11, <1>12 DEF DrawnFrom, PageNames

\* A page offers the forms of what it was drawn from, and of a row it has.
LEMMA ViewForms ==
    ASSUME NEW t, 0 \notin DOMAIN t.of.bindings, t.at.page \notin {"", "gaveup"} => DrawnFrom(t.of, t.at),
           NEW form \in View(t).forms
    PROVE  Offered(t.of, t.at, t.listed, form) /\ t.at.page \notin {"", "gaveup"}
<1>1. t.at.page \notin {"", "gaveup"}
  BY LinkForms DEF View
<1>2. CASE t.at.page = "github"
  <2>1. form \in Form("apps.callback", 0, CallbackFields).forms
    BY <1>2 DEF View, GitHub, CallbackFields
  <2>2. /\ IsThere(t.of, t.at, "apps.callback", 0)
        /\ FieldsOf(t.of, t.at, t.listed, "apps.callback", 0) = CallbackFields
    BY DEF IsThere, Actions, FieldsOf
  <2>. QED BY <1>1, <2>1, <2>2, FormOffered
<1>3. CASE t.at.page # "github"
  <2>1. form \in Render(t.of, t.at, t.listed, t.user).forms
    BY <1>1, <1>3 DEF View
  <2>. QED BY <1>1, <1>3, <2>1, RenderForms
<1>. QED BY <1>2, <1>3

\* Every number is written out in one way, and none is blank.
LEMMA ZeroIsANumber == 0 \in Numbers
BY NumbersAssumption

LEMMA FillingsFit ==
    ASSUME NEW fields, \A f \in DOMAIN fields : \E v : v \in fields[f].may, NEW in \in Fillings(fields)
    PROVE  /\ DOMAIN in = DOMAIN fields
           /\ \A f \in DOMAIN fields : in[f] \in fields[f].may
<1>1. ASSUME NEW f \in DOMAIN fields
      PROVE  Untouched(fields)[f] \in fields[f].may
  <2>1. CASE fields[f].shown \in fields[f].may
    BY <2>1 DEF Untouched
  <2>2. CASE fields[f].shown \notin fields[f].may
    <3>1. (CHOOSE sent_1 \in fields[f].may : TRUE) \in fields[f].may
      OBVIOUS
    <3>. QED BY <2>2, <3>1 DEF Untouched
  <2>. QED BY <2>1, <2>2
<1>2. DOMAIN Untouched(fields) = DOMAIN fields
  BY DEF Untouched
<1>3. in = Untouched(fields) \/ \E f \in DOMAIN fields : \E sent_1 \in fields[f].may : in = [Untouched(fields) EXCEPT ![f] = sent_1]
  BY DEF Fillings
<1>5. Untouched(fields) = [f \in DOMAIN fields |-> Untouched(fields)[f]]
  BY DEF Untouched
<1>. HIDE DEF Untouched
<1>. QED BY <1>1, <1>2, <1>3, <1>5

LEMMA StrOne ==
    ASSUME NEW in, NEW f \in DOMAIN in, NEW v, in[f] = {v}
    PROVE  Has(in, f) /\ Str(in, f) = v /\ StrList(in, f) = {v}
<1>1. StrList(in, f) = {v}
  BY DEF StrList
<1>2. v \in StrList(in, f)
  BY <1>1
<1>. QED BY <1>1, <1>2 DEF Has, Str

LEMMA StrNone ==
    ASSUME NEW in, NEW f, f \notin DOMAIN in \/ in[f] = {}
    PROVE  ~Has(in, f) /\ Str(in, f) = ""
BY DEF Has, Str, StrList

LEMMA IntOfNumeral ==
    ASSUME NEW in, NEW f, NEW n \in Numbers, Str(in, f) = Numeral(n), NEW default
    PROVE  IntOf(in, f, default) = n
BY NumeralsAssumption DEF IntOf

LEMMA IntOfBlank ==
    ASSUME NEW in, NEW f, Str(in, f) = "", NEW default
    PROVE  IntOf(in, f, default) = default
BY NumeralsAssumption DEF IntOf

LEMMA IntOfIsANumber ==
    ASSUME NEW in, NEW f, NEW default \in Numbers
    PROVE  IntOf(in, f, default) \in Numbers
BY DEF IntOf

-----------------------------------------------------------------------------
(* The links and the searches of a page.                                   *)

Ways(v) == v.links \cup v.searches

\* An address the server draws, when it reads what the page was drawn from.
Goes(of, a) ==
    /\ a.page \in PageNames \ {"login", "setup", "github", "error"}
    /\ a.app \in Numbers /\ a.coolify \in Numbers
    /\ a.page \in {"apps", "repos"} => a.edit = 0
    /\ a.page = "coolify" => a.inspect \in DOMAIN of.instances \cup {0}
    /\ a.page = "apps" => a.inspect \in DOMAIN of.apps \cup {0}
    /\ a.page = "app.edit" => a.id \in DOMAIN of.apps
    /\ a.page \in {"repo", "repo.edit", "resolve"} => a.id \in DOMAIN of.bindings
    /\ a.page = "jobs" => a.status \in Statuses \cup {""}
    /\ a.page = "run" => \E j \in Elements(of.jobs) : j.id = a.id

PlainPages == {"home", "jobs", "repos", "status", "apps", "coolify", "settings", "runner", "logs", "admin",
               "apps.new", "pick", "repos.new"}

LEMMA PlainGoes == ASSUME NEW of, NEW page \in PlainPages PROVE Goes(of, At(page))
BY ZeroIsANumber DEF Goes, At, PlainPages, PageNames

LEMMA RowGoes ==
    ASSUME NEW of, NEW page, NEW n,
           \/ page = "app.edit" /\ n \in DOMAIN of.apps
           \/ page \in {"repo", "repo.edit", "resolve"} /\ n \in DOMAIN of.bindings
           \/ page = "run" /\ \E j \in Elements(of.jobs) : j.id = n
    PROVE  Goes(of, AtRow(page, n))
BY ZeroIsANumber DEF Goes, At, AtRow, PageNames

LEMMA LinkWays ==
    /\ \A addresses, a : a \in Ways(Links(addresses)) => a \in addresses
    /\ \A address, a : a \in Ways(Link(address)) => a = address
    /\ \A addresses, a : a \in Ways(Search(addresses)) => a \in addresses
    /\ \A a : a \notin Ways(Nothing)
    /\ \A to, n, fields, a : a \notin Ways(Form(to, n, fields))
BY DEF Ways, Link, Links, Search, Nothing, Form

LEMMA SumWays == \A v, w, a : a \in Ways(v (+) w) => a \in Ways(v) \/ a \in Ways(w)
BY DEF Ways, (+)

LEMMA EveryWays == \A views, a : a \in Ways(Every(views)) => \E v \in views : a \in Ways(v)
BY DEF Ways, Every

LEMMA SidebarWays == ASSUME NEW of, NEW a \in Ways(AppSidebar) PROVE Goes(of, a)
<1>1. \A page, b : b \in Ways(MenuButton(At(page))) => b = At(page)
  BY LinkWays DEF MenuButton
<1>2. a \notin Ways(SidebarLogout)
  BY LinkWays DEF SidebarLogout
<1>3. a \in Ways(Brand) => a = At("home")
  BY LinkWays DEF Brand
<1>4. \E page \in PlainPages : a = At(page)
  BY <1>1, <1>2, <1>3, SumWays DEF AppSidebar, SidebarOverview, SidebarJobs, SidebarRepos, SidebarStatus,
     SidebarApps, SidebarCoolify, SidebarSettings, PlainPages
<1>. QED BY <1>4, PlainGoes

LEMMA ShellWays ==
    ASSUME NEW of, NEW crumbs, NEW body, NEW a \in Ways(Shell(crumbs, body))
    PROVE  Goes(of, a) \/ a \in crumbs \/ a \in Ways(body)
BY LinkWays, SumWays, SidebarWays DEF Shell, Crumbs

LEMMA GuestWays ==
    ASSUME NEW of, NEW body, NEW a \in Ways(Guest(body))
    PROVE  Goes(of, a) \/ a \in Ways(body)
<1>1. a \in Ways(Brand) => Goes(of, a)
  BY LinkWays, PlainGoes DEF Brand, PlainPages
<1>. QED BY <1>1, SumWays DEF Guest

LEMMA RunWays ==
    ASSUME NEW of, NEW jobs, jobs \subseteq Elements(of.jobs), NEW a,
           a \in Ways(JobTable(jobs)) \/ a \in Ways(LastRun(jobs))
    PROVE  Goes(of, a)
<1>1. PICK j \in jobs : a = AtRow("run", j.id)
  BY LinkWays DEF JobTable, LastRun
<1>. QED BY <1>1, RowGoes

LEMMA SettingsWays ==
    ASSUME NEW of, NEW at, NEW listed, NEW user, at.page \in {"settings", "runner", "logs", "admin"},
           NEW a \in Ways(Render(of, at, listed, user))
    PROVE  Goes(of, a)
<1>1. a \in Ways(SettingsNav) => Goes(of, a)
  <2>1. ASSUME a \in Ways(SettingsNav)
        PROVE  \E page \in {"settings", "runner", "logs", "admin"} : a \in Ways(SettingsNavItem(page))
    BY <2>1, EveryWays DEF SettingsNav
  <2>2. \A page : a \in Ways(SettingsNavItem(page)) => a = At(page)
    BY LinkWays DEF SettingsNavItem
  <2>. QED BY <2>1, <2>2, PlainGoes DEF PlainPages
<1>2. \A body : a \in Ways(SettingsShell(at.page, body)) => Goes(of, a) \/ a \in Ways(body)
  <2>. SUFFICES ASSUME NEW body, a \in Ways(SettingsShell(at.page, body))
                PROVE  Goes(of, a) \/ a \in Ways(body)
    OBVIOUS
  <2>1. PICK crumbs : /\ crumbs \subseteq {At("settings")}
                      /\ a \in Ways(Shell(crumbs, SettingsNav (+) body))
    BY DEF SettingsShell
  <2>2. Goes(of, At("settings"))
    BY PlainGoes DEF PlainPages
  <2>. QED BY <1>1, <2>1, <2>2, ShellWays, SumWays
<1>3. /\ a \notin Ways(SettingsConfiguration(of.settings)) /\ a \notin Ways(SettingsRunner(of.settings))
      /\ a \notin Ways(SettingsLogs(of.settings)) /\ a \notin Ways(SettingsAdmin)
  BY LinkWays DEF SettingsConfiguration, SettingsRunner, SettingsLogs, SettingsAdmin
<1>4. \E body : a \in Ways(SettingsShell(at.page, body)) /\ a \notin Ways(body)
  BY <1>3 DEF Render
<1>. QED BY <1>2, <1>4

LEMMA SubsetOfSize ==
    ASSUME NEW S, IsFiniteSet(S), NEW k \in Nat, k <= Cardinality(S)
    PROVE  \E T \in SUBSET S : Cardinality(T) = k
<1>1. Cardinality(S) \in Nat /\ ExistsBijection(1..Cardinality(S), S)
  BY FS_CardinalityType
<1>2. PICK f : f \in Bijection(1..Cardinality(S), S)
  BY <1>1 DEF ExistsBijection
<1>. DEFINE T == {f[i] : i \in 1..k}
            g == [i \in 1..k |-> f[i]]
<1>3. /\ \A i \in 1..Cardinality(S) : f[i] \in S
      /\ \A i, j \in 1..Cardinality(S) : f[i] = f[j] => i = j
  BY <1>2 DEF Bijection, Injection, IsInjective
<1>4. 1..k \subseteq 1..Cardinality(S)
  BY <1>1
<1>5. T \in SUBSET S
  BY <1>3, <1>4
<1>6. g \in Bijection(1..k, T)
  <2>1. g \in [1..k -> T]
    OBVIOUS
  <2>2. \A i, j \in 1..k : g[i] = g[j] => i = j
    BY <1>3, <1>4
  <2>3. \A t \in T : \E i \in 1..k : g[i] = t
    OBVIOUS
  <2>. HIDE DEF g, T
  <2>. QED BY <2>1, <2>2, <2>3 DEF Bijection, Injection, Surjection, IsInjective
<1>7. ExistsBijection(1..k, T)
  BY <1>6 DEF ExistsBijection
<1>8. IsFiniteSet(1..k) /\ Cardinality(1..k) = k
  BY FS_Interval
<1>9. Cardinality(T) = k
  BY <1>7, <1>8, FS_Bijection
<1>. QED BY <1>5, <1>9

LEMMA KeysAreFinite ==
    ASSUME NEW db, Whole(db)
    PROVE  /\ IsFiniteSet(DOMAIN db.apps) /\ IsFiniteSet(DOMAIN db.instances) /\ IsFiniteSet(DOMAIN db.bindings)
           /\ 0 \notin DOMAIN db.apps /\ 0 \notin DOMAIN db.instances /\ 0 \notin DOMAIN db.bindings
           /\ DOMAIN db.apps \subseteq Numbers /\ DOMAIN db.instances \subseteq Numbers
           /\ DOMAIN db.bindings \subseteq Numbers
<1>1. /\ db.next \in Nat \ {0} /\ 1..db.next \subseteq Numbers
      /\ DOMAIN db.apps \subseteq 1..(db.next - 1) /\ DOMAIN db.instances \subseteq 1..(db.next - 1)
      /\ DOMAIN db.bindings \subseteq 1..(db.next - 1)
  BY DEF Whole, WholeApps, WholeInstances, WholeBindings, Keys, Counted
<1>2. IsFiniteSet(1..(db.next - 1))
  BY <1>1, FS_Interval
<1>3. 1..(db.next - 1) \subseteq 1..db.next /\ 0 \notin 1..(db.next - 1)
  BY <1>1
<1>. QED BY <1>1, <1>2, <1>3, FS_Subset

LEMMA CardsAreEnabled == ASSUME NEW of, Whole(of) PROVE Cards(of) \subseteq DOMAIN of.bindings
<1>1. Enabled(of) \subseteq DOMAIN of.bindings
  BY DEF Enabled
<1>2. IsFiniteSet(Enabled(of)) /\ Cardinality(Enabled(of)) \in Nat
  BY <1>1, KeysAreFinite, FS_Subset, FS_CardinalityType
<1>3. /\ Least(DashCards, Cardinality(Enabled(of))) \in Nat
      /\ Least(DashCards, Cardinality(Enabled(of))) <= Cardinality(Enabled(of))
  BY <1>2, LimitsAssumption DEF Least
<1>4. \E ns \in SUBSET Enabled(of) : Cardinality(ns) = Least(DashCards, Cardinality(Enabled(of)))
  BY <1>2, <1>3, SubsetOfSize
<1>5. Cards(of) \in SUBSET Enabled(of)
  BY <1>4 DEF Cards
<1>. QED BY <1>1, <1>5

LEMMA RecentAreJobs ==
    ASSUME NEW of, Whole(of), NEW n \in Nat \ {0}
    PROVE  /\ Elements(Newest(of.jobs, n)) \subseteq Elements(of.jobs)
           /\ \A repo : LatestJob(of, repo) \subseteq Elements(of.jobs)
<1>1. of.jobs \in Seq(JobRows)
  BY DEF Whole, WholeJobs
<1>2. Len(of.jobs) \in Nat /\ DOMAIN of.jobs = 1..Len(of.jobs)
  BY <1>1
<1>3. \A m \in Nat \ {0} : Elements(Newest(of.jobs, m)) \subseteq Elements(of.jobs)
  <2>. SUFFICES ASSUME NEW m \in Nat \ {0} PROVE Elements(Newest(of.jobs, m)) \subseteq Elements(of.jobs)
    OBVIOUS
  <2>1. /\ Least(m, Len(of.jobs)) \in Nat /\ Least(m, Len(of.jobs)) <= Len(of.jobs)
    BY <1>2 DEF Least
  <2>2. /\ DOMAIN Newest(of.jobs, m) = 1..Least(m, Len(of.jobs))
        /\ \A i \in 1..Least(m, Len(of.jobs)) : Newest(of.jobs, m)[i] = of.jobs[i]
    BY <1>1, <2>1 DEF Newest
  <2>. QED BY <1>2, <2>1, <2>2 DEF Elements
<1>4. Elements(Recent(of)) \subseteq Elements(of.jobs)
  BY <1>3, LimitsAssumption DEF Recent
<1>5. \A repo : LatestJob(of, repo) \subseteq Elements(Recent(of))
  BY DEF LatestJob
<1>. QED BY <1>3, <1>4, <1>5

LEMMA UserErrorWays ==
    ASSUME NEW of, NEW user, user, NEW a \in Ways(Error(user))
    PROVE  Goes(of, a)
<1>1. a \in Ways(Shell({}, Links({At("home"), At("jobs")})))
  BY DEF Error, ErrorWays
<1>2. Goes(of, a) \/ a \in {At("home"), At("jobs")}
  BY <1>1, ShellWays, LinkWays
<1>. QED BY <1>2, PlainGoes DEF PlainPages

LEMMA AccountWays ==
    ASSUME NEW of, NEW at, NEW listed, NEW user, at.page \in {"login", "setup", "error", "status"},
           NEW a \in Ways(Render(of, at, listed, user))
    PROVE  Goes(of, a) \/ (at.page = "error" /\ a = At("login"))
<1>1. CASE at.page = "login"
  <2>1. a \in Ways(Guest(Form("login", 0, LoginFields)))
    BY <1>1 DEF Render, Login
  <2>. QED BY <2>1, GuestWays, LinkWays
<1>2. CASE at.page = "setup"
  <2>1. a \in Ways(Guest(Form("setup", 0, SetupFields)))
    BY <1>2 DEF Render, Setup
  <2>. QED BY <2>1, GuestWays, LinkWays
<1>3. CASE at.page = "error" /\ user
  BY <1>3, UserErrorWays DEF Render
<1>4. CASE at.page = "error" /\ ~user
  <2>1. a \in Ways(Guest(Link(At("login"))))
    BY <1>4 DEF Render, Error, ErrorWays
  <2>2. Goes(of, a) \/ a \in Ways(Link(At("login")))
    BY <2>1, GuestWays
  <2>. QED BY <1>4, <2>2, LinkWays
<1>5. CASE at.page = "status"
  <2>1. a \in Ways(Shell({}, Nothing))
    BY <1>5 DEF Render, Status
  <2>. QED BY <2>1, ShellWays, LinkWays
<1>. QED BY <1>1, <1>2, <1>3, <1>4, <1>5

LEMMA DashboardWays ==
    ASSUME NEW of, Whole(of), NEW a \in Ways(Dashboard(of))
    PROVE  Goes(of, a)
<1>0. \A page \in PlainPages : a = At(page) => Goes(of, a)
  BY PlainGoes
<1>1. a \in Ways(DashHead(of)) => Goes(of, a)
  <2>1. a \in Ways(DashHead(of)) => a = At("apps.new") \/ a = At("repos")
    BY LinkWays, SumWays DEF DashHead, When
  <2>. QED BY <1>0, <2>1 DEF PlainPages
<1>2. a \in Ways(SetupRows(of)) => Goes(of, a)
  <2>1. \A b : a \in Ways(SetupRow(b)) => a = b
    BY LinkWays DEF SetupRow
  <2>2. /\ a \in Ways(SetupAddressRow) => a = At("settings")
        /\ a \in Ways(SetupAppRow(of)) => a = At("apps") \/ a = At("apps.new")
        /\ a \in Ways(SetupRepoRow) => a = At("repos")
        /\ a \in Ways(SetupCoolifyRow) => a = At("coolify")
    BY <2>1 DEF SetupAddressRow, SetupAppRow, SetupRepoRow, SetupCoolifyRow
  <2>3. a \in Ways(SetupRunRow(of)) => a = At("jobs")
    BY <2>1, LinkWays DEF SetupRunRow, When
  <2>4. a \in Ways(SetupRows(of)) => \E page \in PlainPages : a = At(page)
    BY <2>2, <2>3, LinkWays, SumWays DEF SetupRows, When, PlainPages
  <2>. QED BY <1>0, <2>4
<1>3. a \in Ways(ActiveRuns(of)) => Goes(of, a)
  <2>1. a \in Ways(ActiveRuns(of)) => a = At("jobs") \/ a \in Ways(JobTable({j \in Elements(of.jobs) : JobInFlight(j)}))
    BY LinkWays, SumWays DEF ActiveRuns, When
  <2>2. {j \in Elements(of.jobs) : JobInFlight(j)} \subseteq Elements(of.jobs)
    OBVIOUS
  <2>. QED BY <1>0, <2>1, <2>2, RunWays DEF PlainPages
<1>4. a \in Ways(RecentRuns(of)) => Goes(of, a)
  <2>1. a \in Ways(RecentRuns(of)) =>
          a = At("jobs") \/ a = At("repos") \/ a \in Ways(JobTable(Elements(Newest(of.jobs, DashJobs))))
    BY LinkWays, SumWays DEF RecentRuns
  <2>2. Elements(Newest(of.jobs, DashJobs)) \subseteq Elements(of.jobs)
    BY RecentAreJobs, LimitsAssumption
  <2>. QED BY <1>0, <2>1, <2>2, RunWays DEF PlainPages
<1>5. a \in Ways(DashRepos(of)) => Goes(of, a)
  <2>1. a \in Ways(DashRepos(of)) => a = At("repos") \/ a \in Ways(Every({DashCard(of, n) : n \in Cards(of)}))
    BY LinkWays, SumWays DEF DashRepos, When
  <2>2. ASSUME NEW n \in Cards(of), a \in Ways(DashCard(of, n))
        PROVE  Goes(of, a)
    <3>1. a = AtRow("repo", n) \/ a \in Ways(LastRun(LatestJob(of, of.bindings[n].repo)))
      BY <2>2, LinkWays, SumWays DEF DashCard
    <3>2. LatestJob(of, of.bindings[n].repo) \subseteq Elements(of.jobs)
      BY RecentAreJobs, LimitsAssumption
    <3>3. n \in DOMAIN of.bindings
      BY CardsAreEnabled
    <3>. QED BY <3>1, <3>2, <3>3, RunWays, RowGoes
  <2>. QED BY <1>0, <2>1, <2>2, EveryWays DEF PlainPages
<1>. QED BY <1>1, <1>2, <1>3, <1>4, <1>5, ShellWays, SumWays DEF Dashboard

LEMMA CoolifyWays ==
    ASSUME NEW of, NEW at, NEW a \in Ways(Coolify(of, at))
    PROVE  Goes(of, a)
<1>1. Goes(of, At("coolify"))
  BY PlainGoes DEF PlainPages
<1>2. a \in Ways(CoolifyHead(of)) => Goes(of, a)
  BY <1>1, LinkWays DEF CoolifyHead, When
<1>3. ASSUME NEW n \in DOMAIN of.instances, a \in Ways(InstanceCard(n))
      PROVE  Goes(of, a)
  <2>1. a = [At("coolify") EXCEPT !.edit = n] \/ a = [At("coolify") EXCEPT !.inspect = n]
    BY <1>3, LinkWays, SumWays DEF InstanceCard, InstanceTest, InstanceEdit, InstanceInspect, InstanceRemove, Confirm
  <2>. QED BY <2>1, ZeroIsANumber DEF Goes, At, PageNames
<1>4. a \notin Ways(When(at.inspect # 0, InstallWorker(of, at.inspect)))
  BY LinkWays DEF When, InstallWorker
<1>5. a \in Ways(CoolifyForm(of, at.edit)) => Goes(of, a)
  <2>1. CASE at.edit \in DOMAIN of.instances
    <3>1. \E fields : CoolifyForm(of, at.edit) = Form("coolify.update", at.edit, fields) (+) Link(At("coolify"))
      BY <2>1 DEF CoolifyForm
    <3>. QED BY <1>1, <3>1, LinkWays, SumWays
  <2>2. CASE at.edit \notin DOMAIN of.instances
    BY <2>2, LinkWays DEF CoolifyForm
  <2>. QED BY <2>1, <2>2
<1>. QED BY <1>2, <1>3, <1>4, <1>5, ShellWays, SumWays, EveryWays DEF Coolify

LEMMA AppsWays ==
    ASSUME NEW of, NEW at, NEW listed, NEW user, at.page \in {"apps", "apps.new", "app.edit"},
           NEW a \in Ways(Render(of, at, listed, user))
    PROVE  Goes(of, a)
<1>0. /\ Goes(of, At("apps.new")) /\ Goes(of, At("apps")) /\ Goes(of, At("repos")) /\ Goes(of, At("settings"))
  BY PlainGoes DEF PlainPages
<1>1. CASE at.page = "apps"
  <2>1. a \in Ways(GitHubApps(of, at, listed))
    BY <1>1 DEF Render
  <2>2. ASSUME NEW n \in DOMAIN of.apps, a \in Ways(AppCard(n))
        PROVE  Goes(of, a)
    <3>1. a = AtRow("app.edit", n) \/ a = [At("apps") EXCEPT !.inspect = n]
      BY <2>2, LinkWays, SumWays DEF AppCard, AppTest, AppEdit, AppInspect, AppRemove, Confirm
    <3>2. CASE a = [At("apps") EXCEPT !.inspect = n]
      BY <3>2, ZeroIsANumber DEF Goes, At, PageNames
    <3>. QED BY <3>1, <3>2, RowGoes
  <2>3. a \in Ways(AppsHead) \/ a \in Ways(AppsEmpty(of)) \/ a \in Ways(AppInstallations(at, listed)) => Goes(of, a)
    BY <1>0, LinkWays DEF AppsHead, AppsEmpty, AppInstallations, When
  <2>. QED BY <2>1, <2>2, <2>3, ShellWays, SumWays, EveryWays DEF GitHubApps
<1>2. \A to, n, editing, row : a \in Ways(CredentialsForm(to, n, editing, row)) => Goes(of, a)
  <2>. SUFFICES ASSUME NEW to, NEW n, NEW editing, NEW row, a \in Ways(CredentialsForm(to, n, editing, row))
                PROVE  Goes(of, a)
    OBVIOUS
  <2>1. PICK fields : a \in Ways(Form(to, n, fields) (+) Link(At("apps")))
    BY DEF CredentialsForm
  <2>. QED BY <1>0, <2>1, LinkWays, SumWays
<1>3. CASE at.page = "apps.new"
  <2>1. a \in Ways(GitHubAppsNew(of))
    BY <1>3 DEF Render
  <2>2. a \in Ways(ManifestCard(of.settings)) => Goes(of, a)
    BY <1>0, LinkWays DEF ManifestCard
  <2>. DEFINE editor == CredentialsForm("apps.create", 0, FALSE, NoApp)
  <2>3. a \in Ways(editor) => Goes(of, a)
    BY <1>2
  <2>4. a \in Ways(Shell({At("apps")}, ManifestCard(of.settings) (+) editor))
    BY <2>1 DEF GitHubAppsNew
  <2>. HIDE DEF editor
  <2>. QED BY <1>0, <2>2, <2>3, <2>4, ShellWays, SumWays
<1>4. CASE at.page = "app.edit"
  <2>1. a \in Ways(GitHubAppsEdit(of, at.id))
    BY <1>4 DEF Render
  <2>. QED BY <1>0, <1>2, <2>1, ShellWays DEF GitHubAppsEdit
<1>. QED BY <1>1, <1>3, <1>4

LEMMA ReposWays ==
    ASSUME NEW of, Whole(of), NEW a \in Ways(Repositories(of))
    PROVE  Goes(of, a)
<1>0. /\ Goes(of, At("apps.new")) /\ Goes(of, At("pick")) /\ Goes(of, At("repos.new"))
  BY PlainGoes DEF PlainPages
<1>1. a \in Ways(ReposHead(of)) \/ a \in Ways(ReposEmpty(of)) => Goes(of, a)
  BY <1>0, LinkWays DEF ReposHead, ReposEmpty, ReposNeedApp, When
<1>2. ASSUME NEW n \in DOMAIN of.bindings, a \in Ways(RepoCard(of, n))
      PROVE  Goes(of, a)
  <2>1. a = AtRow("repo", n) \/ a \in Ways(LastRun(LatestJob(of, of.bindings[n].repo)))
    BY <1>2, LinkWays, SumWays DEF RepoCard, RepoTitle, RepoToggle, RepoRemove, Confirm
  <2>2. LatestJob(of, of.bindings[n].repo) \subseteq Elements(of.jobs)
    BY RecentAreJobs, LimitsAssumption
  <2>. QED BY <2>1, <2>2, RunWays, RowGoes
<1>. QED BY <1>1, <1>2, ShellWays, SumWays, EveryWays DEF Repositories

LEMMA PickWays ==
    ASSUME NEW of, NEW at, NEW listed, NEW a \in Ways(ReposPick(of, at, listed))
    PROVE  Goes(of, a)
<1>0. Goes(of, At("apps.new")) /\ Goes(of, At("repos"))
  BY PlainGoes DEF PlainPages
<1>1. a \in Ways(ReposNeedApp) => Goes(of, a)
  BY <1>0, LinkWays DEF ReposNeedApp
<1>2. \A app, coolify \in Numbers : Goes(of, PickPath(app, coolify))
  BY DEF PickPath, Goes, At, PageNames
<1>3. a \in Ways(PickSource(of, at)) => Goes(of, a)
  <2>1. ASSUME a \in Ways(PickSource(of, at))
        PROVE  \E in : a = PickPath(IntOf(in, "app_id", 0), IntOf(in, "coolify_id", 0))
    BY <2>1, LinkWays DEF PickSource
  <2>2. \A in : IntOf(in, "app_id", 0) \in Numbers /\ IntOf(in, "coolify_id", 0) \in Numbers
    BY ZeroIsANumber, IntOfIsANumber
  <2>. QED BY <1>2, <2>1, <2>2
<1>4. a \notin Ways(PickForm(of, at, listed))
  BY LinkWays DEF PickForm, When
<1>5. Goes(of, a) \/ a \in {At("repos")} \/ a \in Ways(ReposNeedApp)
      \/ a \in Ways(PickSource(of, at) (+) PickForm(of, at, listed))
  BY ShellWays DEF ReposPick
<1>. QED BY <1>0, <1>1, <1>3, <1>4, <1>5, SumWays

LEMMA EditorWays ==
    ASSUME NEW of, NEW n \in DOMAIN of.bindings \cup {0}, NEW row, NEW a \in Ways(ReposEditor(of, n, row))
    PROVE  Goes(of, a)
<1>0. Goes(of, At("apps.new")) /\ Goes(of, At("repos"))
  BY PlainGoes DEF PlainPages
<1>1. a \in Ways(ReposNeedApp) => Goes(of, a)
  BY <1>0, LinkWays DEF ReposNeedApp
<1>2. a \in Ways(EditorActions(n)) => Goes(of, a)
  <2>1. a \in Ways(EditorActions(n)) => a = At("repos") \/ (n # 0 /\ a = AtRow("resolve", n))
    BY LinkWays, SumWays DEF EditorActions, When
  <2>2. n # 0 => Goes(of, AtRow("resolve", n))
    BY RowGoes
  <2>. QED BY <1>0, <2>1, <2>2
<1>3. PICK fields : a \in Ways(Shell({At("repos")}, IF DOMAIN of.apps = {} THEN ReposNeedApp
                                   ELSE Form("bindings.upsert", n, fields) (+) EditorActions(n)))
  BY DEF ReposEditor
<1>4. a \in Ways(IF DOMAIN of.apps = {} THEN ReposNeedApp
                 ELSE Form("bindings.upsert", n, fields) (+) EditorActions(n)) => Goes(of, a)
  <2>1. a \in Ways(Form("bindings.upsert", n, fields) (+) EditorActions(n)) => Goes(of, a)
    BY <1>2, LinkWays, SumWays
  <2>. QED BY <1>1, <2>1
<1>. QED BY <1>0, <1>3, <1>4, ShellWays

LEMMA RepoWays ==
    ASSUME NEW of, Whole(of), NEW n \in DOMAIN of.bindings, NEW a \in Ways(Repo(of, n))
    PROVE  Goes(of, a)
<1>. DEFINE places == Matching(of, of.bindings[n].repo, "")
<1>0. Goes(of, At("repos")) /\ Goes(of, AtRow("resolve", n)) /\ Goes(of, AtRow("repo.edit", n))
  BY PlainGoes, RowGoes DEF PlainPages
<1>1. a \in Ways(RepoHead(n)) => Goes(of, a)
  BY <1>0, LinkWays DEF RepoHead
<1>2. places \subseteq DOMAIN of.jobs
  BY DEF Matching
<1>. HIDE DEF places
<1>3. \A limit : Slice(of, places, 0, limit) \subseteq Elements(of.jobs)
  BY <1>2, SliceFromJobs
<1>4. a \in Ways(RepoLast(of, places)) \/ a \in Ways(JobTable(Slice(of, places, 0, RepoJobs))) => Goes(of, a)
  BY <1>3, RunWays DEF RepoLast
<1>5. a \in Ways(Shell({At("repos")}, RepoHead(n) (+) RepoLast(of, places)
                                     (+) JobTable(Slice(of, places, 0, RepoJobs))))
  BY DEF Repo, places
<1>. QED BY <1>0, <1>1, <1>4, <1>5, ShellWays, SumWays

LEMMA ResolveWays ==
    ASSUME NEW of, NEW n \in DOMAIN of.bindings, NEW ref, NEW a \in Ways(RepoResolve(n, ref))
    PROVE  Goes(of, a)
<1>0. Goes(of, At("repos")) /\ Goes(of, AtRow("repo", n))
  BY PlainGoes, RowGoes DEF PlainPages
<1>1. a \in Ways(ResolveForm(n, ref)) => Goes(of, a)
  <2>1. ASSUME a \in Ways(ResolveForm(n, ref))
        PROVE  \E in : a = [AtRow("resolve", n) EXCEPT !.ref = Str(in, "ref")]
    BY <2>1, LinkWays DEF ResolveForm
  <2>2. \A in : Goes(of, [AtRow("resolve", n) EXCEPT !.ref = Str(in, "ref")])
    BY ZeroIsANumber DEF Goes, AtRow, At, PageNames
  <2>. QED BY <2>1, <2>2
<1>2. Goes(of, a) \/ a \in {At("repos"), AtRow("repo", n)} \/ a \in Ways(Link(AtRow("repo", n)) (+) ResolveForm(n, ref))
  BY ShellWays DEF RepoResolve
<1>. QED BY <1>0, <1>1, <1>2, LinkWays, SumWays

LEMMA StatusRead ==
    ASSUME NEW repo, NEW status \in Statuses \cup {""},
           NEW in \in Fillings([status |-> FilterStatus(status), repo |-> FilterRepo(repo)])
    PROVE  Str(in, "status") \in Statuses \cup {""}
<1>. DEFINE fields == [status |-> FilterStatus(status), repo |-> FilterRepo(repo)]
<1>1. DOMAIN fields = {"status", "repo"}
  OBVIOUS
<1>2. fields["status"].may = {{v} : v \in Statuses \cup {""}}
  BY DEF FilterStatus, Select, Each
<1>3. {""} \in fields["repo"].may
  BY DEF FilterRepo, Each
<1>4. in \in Fillings(fields)
  OBVIOUS
<1>. HIDE DEF fields
<1>5. \A f \in DOMAIN fields : \E v : v \in fields[f].may
  <2>1. {""} \in fields["status"].may
    BY <1>2
  <2>. QED BY <1>1, <1>3, <2>1
<1>6. "status" \in DOMAIN in /\ in["status"] \in fields["status"].may
  BY <1>1, <1>4, <1>5, FillingsFit
<1>7. PICK v \in Statuses \cup {""} : in["status"] = {v}
  BY <1>2, <1>6
<1>. QED BY <1>6, <1>7, StrOne

LEMMA JobsWays ==
    ASSUME NEW of, NEW at, at.status \in Statuses \cup {""}, NEW a \in Ways(Jobs(of, at))
    PROVE  Goes(of, a)
<1>. DEFINE list == ListJobs(of, at.repo, at.status, at.offset)
<1>0. /\ Goes(of, At("jobs")) /\ Goes(of, At("repos"))
      /\ \A repo, offset : \A status \in Statuses \cup {""} : Goes(of, JobsPath(repo, status, offset))
  <2>1. \A repo, offset : \A status \in Statuses \cup {""} : Goes(of, JobsPath(repo, status, offset))
    <3>. SUFFICES ASSUME NEW repo, NEW offset, NEW status \in Statuses \cup {""}
                  PROVE  Goes(of, JobsPath(repo, status, offset))
      OBVIOUS
    <3>1. /\ JobsPath(repo, status, offset).page = "jobs" /\ JobsPath(repo, status, offset).status = status
          /\ JobsPath(repo, status, offset).app = 0 /\ JobsPath(repo, status, offset).coolify = 0
      BY DEF JobsPath, At
    <3>. QED BY <3>1, ZeroIsANumber DEF Goes, PageNames
  <2>. QED BY <2>1, PlainGoes DEF PlainPages
<1>1. a \in Ways(JobsFilter(at.repo, at.status)) => Goes(of, a)
  <2>1. ASSUME a \in Ways(JobsFilter(at.repo, at.status))
        PROVE  \E in \in Fillings([status |-> FilterStatus(at.status), repo |-> FilterRepo(at.repo)]) :
                  a = JobsPath(Str(in, "repo"), Str(in, "status"), 0)
    BY <2>1, LinkWays DEF JobsFilter
  <2>. QED BY <1>0, <2>1, StatusRead
<1>2. a \in Ways(JobsClear(at.repo, at.status)) => Goes(of, a)
  BY <1>0, LinkWays DEF JobsClear, When
<1>3. \A n : a \in Ways(JobsPager(at, n)) => Goes(of, a)
  <2>. SUFFICES ASSUME NEW n, a \in Ways(JobsPager(at, n)) PROVE Goes(of, a)
    OBVIOUS
  <2>1. a \in Ways(PagerPrevious(at) (+) PagerNext(at, n))
    BY LinkWays DEF JobsPager, When
  <2>2. a \in Ways(PagerPrevious(at)) => \E offset : a = JobsPath(at.repo, at.status, offset)
    BY LinkWays DEF PagerPrevious, When
  <2>3. a \in Ways(PagerNext(at, n)) => \E offset : a = JobsPath(at.repo, at.status, offset)
    BY LinkWays DEF PagerNext, When
  <2>. QED BY <1>0, <2>1, <2>2, <2>3, SumWays
<1>4. list \subseteq Elements(of.jobs)
  BY SliceFromJobs DEF ListJobs, Matching
<1>. HIDE DEF list
<1>5. \A filtered : a \in Ways(JobsTable(list, filtered)) => Goes(of, a)
  <2>. SUFFICES ASSUME NEW filtered, a \in Ways(JobsTable(list, filtered)) PROVE Goes(of, a)
    OBVIOUS
  <2>1. ASSUME NEW j \in list, a \in Ways(JobsRow(j))
        PROVE  a = AtRow("run", j.id)
    <3>1. a \notin Ways(RowRerun(j)) /\ a \notin Ways(RowCancel(j))
      BY LinkWays DEF RowRerun, RowCancel, When, Confirm
    <3>2. a \in Ways(RowLinks(j))
      BY <2>1, <3>1, SumWays DEF JobsRow
    <3>. QED BY <3>2, LinkWays DEF RowLinks
  <2>2. CASE list = {}
    BY <1>0, <2>2, LinkWays DEF JobsTable, JobsEmpty
  <2>3. CASE list # {}
    <3>1. a \in Ways(Every({JobsRow(j) : j \in list}))
      BY <2>3 DEF JobsTable
    <3>2. \E v \in {JobsRow(j) : j \in list} : a \in Ways(v)
      BY <3>1, EveryWays
    <3>4. PICK j \in list : a \in Ways(JobsRow(j))
      BY <3>2
    <3>3. a = AtRow("run", j.id) /\ j \in Elements(of.jobs)
      BY <1>4, <2>1, <3>4
    <3>. QED BY <3>3, RowGoes
  <2>. QED BY <2>2, <2>3
<1>6. PICK n, filtered : a \in Ways(Shell({}, JobsFilter(at.repo, at.status) (+) JobsClear(at.repo, at.status)
                                              (+) JobsTable(list, filtered) (+) JobsPager(at, n)))
  BY DEF Jobs, list
<1>7. \/ Goes(of, a)
      \/ a \in Ways(JobsFilter(at.repo, at.status) (+) JobsClear(at.repo, at.status)
                   (+) JobsTable(list, filtered) (+) JobsPager(at, n))
  BY <1>6, ShellWays
<1>8. ASSUME NEW v, NEW w, NEW x, NEW y, a \in Ways(v (+) w (+) x (+) y)
      PROVE  a \in Ways(v) \/ a \in Ways(w) \/ a \in Ways(x) \/ a \in Ways(y)
  <2>1. a \in Ways(v (+) w (+) x) \/ a \in Ways(y)
    BY <1>8, SumWays
  <2>2. a \in Ways(v (+) w (+) x) => a \in Ways(v (+) w) \/ a \in Ways(x)
    BY SumWays
  <2>3. a \in Ways(v (+) w) => a \in Ways(v) \/ a \in Ways(w)
    BY SumWays
  <2>. QED BY <2>1, <2>2, <2>3
<1>9. \/ Goes(of, a) \/ a \in Ways(JobsFilter(at.repo, at.status)) \/ a \in Ways(JobsClear(at.repo, at.status))
      \/ a \in Ways(JobsTable(list, filtered)) \/ a \in Ways(JobsPager(at, n))
  BY <1>7, <1>8
<1>. QED BY <1>1, <1>2, <1>3, <1>5, <1>9

LEMMA RunPageWays ==
    ASSUME NEW of, NEW at, NEW user, NEW a \in Ways(Run(of, at, user))
    PROVE  Goes(of, a)
<1>. DEFINE shown == {j \in Elements(of.jobs) : j.id = at.id}
<1>1. CASE user
  <2>1. a \in Ways(Shell({At("jobs")}, Every({RunControls(j) : j \in shown})))
    BY <1>1 DEF Run
  <2>2. \A j : a \notin Ways(RunControls(j))
    BY LinkWays, SumWays DEF RunControls, RowRerun, Confirm, When
  <2>3. Goes(of, At("jobs"))
    BY PlainGoes DEF PlainPages
  <2>. QED BY <2>1, <2>2, <2>3, ShellWays, EveryWays
<1>2. CASE ~user
  BY <1>2, GuestWays, LinkWays DEF Run
<1>. QED BY <1>1, <1>2

\* The error page of a guest leads to the login, too.
Leaves(of, at, a) == Goes(of, a) \/ (at.page = "error" /\ a = At("login"))

LEMMA RenderWays ==
    ASSUME NEW of, Whole(of), NEW at, DrawnFrom(of, at), at.page # "github", NEW listed, NEW user,
           NEW a \in Ways(Render(of, at, listed, user))
    PROVE  Leaves(of, at, a)
<1>0. SUFFICES Goes(of, a) \/ (at.page = "error" /\ a = At("login"))
  BY DEF Leaves
<1>1. CASE at.page \in {"login", "setup", "error", "status"}
  BY <1>1, AccountWays
<1>2. CASE at.page \in {"settings", "runner", "logs", "admin"}
  BY <1>2, SettingsWays
<1>3. CASE at.page \in {"apps", "apps.new", "app.edit"}
  BY <1>3, AppsWays
<1>4. CASE at.page = "home"
  BY <1>4, DashboardWays DEF Render
<1>5. CASE at.page = "coolify"
  BY <1>5, CoolifyWays DEF Render
<1>6. CASE at.page = "repos"
  BY <1>6, ReposWays DEF Render
<1>7. CASE at.page = "pick"
  BY <1>7, PickWays DEF Render
<1>8. CASE at.page = "repos.new"
  <2>1. a \in Ways(ReposEditor(of, 0, NoBinding))
    BY <1>8 DEF Render
  <2>2. 0 \in DOMAIN of.bindings \cup {0}
    OBVIOUS
  <2>. QED BY <2>1, <2>2, EditorWays
<1>9. CASE at.page = "repo.edit"
  BY <1>9, EditorWays DEF Render, DrawnFrom
<1>10. CASE at.page = "repo"
  BY <1>10, RepoWays DEF Render, DrawnFrom
<1>11. CASE at.page = "resolve"
  BY <1>11, ResolveWays DEF Render, DrawnFrom
<1>12. CASE at.page = "jobs"
  BY <1>12, JobsWays DEF Render, DrawnFrom
<1>13. CASE at.page = "run"
  BY <1>13, RunPageWays DEF Render
<1>. QED BY <1>1, <1>2, <1>3, <1>4, <1>5, <1>6, <1>7, <1>8, <1>9, <1>10, <1>11, <1>12, <1>13 DEF DrawnFrom, PageNames

\* A page leads where the server, of what the page was drawn from, draws a page.
LEMMA ViewWays ==
    ASSUME NEW t, Whole(t.of), t.at.page \notin {"", "gaveup"} => DrawnFrom(t.of, t.at), NEW a \in Ways(View(t))
    PROVE  Leaves(t.of, t.at, a)
<1>1. t.at.page \notin {"", "gaveup"} /\ t.at.page # "github"
  BY LinkWays DEF View, GitHub
<1>2. a \in Ways(Render(t.of, t.at, t.listed, t.user))
  BY <1>1 DEF View
<1>3. ASSUME NEW of, NEW at, NEW listed, NEW user, Whole(of), DrawnFrom(of, at), at.page # "github",
             a \in Ways(Render(of, at, listed, user))
      PROVE  Leaves(of, at, a)
  BY <1>3, RenderWays
<1>4. DrawnFrom(t.of, t.at)
  BY <1>1
<1>. QED BY <1>1, <1>2, <1>3, <1>4

-----------------------------------------------------------------------------
(* What a handler leaves is whole.                                         *)

LEMMA AnswerIs ==
    ASSUME NEW db, NEW to, NEW notice
    PROVE  /\ Answer(db, to, notice).d = db /\ Answer(db, to, notice).to = to
           /\ Answer(db, to, notice).notice = notice
BY DEF Answer

LEMMA AddedIs ==
    ASSUME NEW rows, NEW n, NEW row
    PROVE  /\ DOMAIN Added(rows, n, row) = DOMAIN rows \cup {n}
           /\ Added(rows, n, row)[n] = row
           /\ \A k \in DOMAIN rows \ {n} : Added(rows, n, row)[k] = rows[k]
BY DEF Added, With

LEMMA WithoutIs ==
    ASSUME NEW rows, NEW ns
    PROVE  /\ DOMAIN Without(rows, ns) = DOMAIN rows \ ns
           /\ \A k \in DOMAIN rows \ ns : Without(rows, ns)[k] = rows[k]
BY DEF Without, Restrict

\* Where a redirect leads.
Lands(to) == to = Back \/ (to.page \in PageNames /\ to.app \in Numbers /\ to.coolify \in Numbers)
Sound(answer) == Lands(answer.to) /\ (Counted(answer.d) => Whole(answer.d))

LEMMA PlainLands ==
    /\ \A page \in PageNames : Lands(At(page))
    /\ Lands(Back)
BY ZeroIsANumber DEF Lands, At

LEMMA RefusedSound == ASSUME NEW db, Whole(db), NEW answer \in Refused(db) PROVE Sound(answer)
<1>1. answer = Answer(db, Back, "err")
  BY DEF Refused
<1>2. answer.d = db /\ answer.to = Back
  BY <1>1, AnswerIs
<1>. QED BY <1>2, PlainLands DEF Sound

LEMMA AnswerSound ==
    ASSUME NEW db, Counted(db) => Whole(db), NEW to, Lands(to), NEW notice
    PROVE  Sound(Answer(db, to, notice))
<1>1. Answer(db, to, notice).d = db /\ Answer(db, to, notice).to = to
  BY AnswerIs
<1>. QED BY <1>1 DEF Sound

LEMMA TriedSound ==
    ASSUME NEW db, NEW db2, Whole(db), Counted(db2) => Whole(db2), NEW to, Lands(to), NEW answer \in Tried(db2, to)
    PROVE  Sound(answer)
<1>1. answer \in {Answer(db2, to, "ok"), Answer(db2, to, "outside")}
  BY DEF Tried
<1>. QED BY <1>1, AnswerSound

LEMMA IfSound ==
    ASSUME NEW db, Whole(db), NEW condition, NEW answers,
           condition => \A answer \in answers : Sound(answer)
    PROVE  /\ \A answer \in IfFound(condition, db, answers) : Sound(answer)
           /\ \A answer \in IfFit(condition, db, answers) : Sound(answer)
BY RefusedSound DEF IfFound, IfFit

-----------------------------------------------------------------------------

LEMMA AtLeastIs ==
    ASSUME NEW n \in Numbers, NEW least \in Numbers
    PROVE  AtLeast(n, least) \in Numbers /\ AtLeast(n, least) >= least
BY NumbersAssumption DEF AtLeast

LEMMA PatchedNumbersIs ==
    ASSUME NEW s, NEW in, DOMAIN s = SettingsColumns
    PROVE  LET p == PatchedNumbers(s, in)
           IN /\ DOMAIN p = DOMAIN s
              /\ p.default_timeout_seconds = AtLeast(IntOf(in, "default_timeout_seconds", s.default_timeout_seconds), 30)
              /\ p.max_concurrent_jobs = AtLeast(IntOf(in, "max_concurrent_jobs", s.max_concurrent_jobs), 1)
              /\ p.max_log_bytes = AtLeast(IntOf(in, "max_log_bytes", s.max_log_bytes), 4096)
              /\ p.log_retention_days = AtLeast(IntOf(in, "log_retention_days", s.log_retention_days), 1)
              /\ p.public_base_url = s.public_base_url /\ p.default_check_name = s.default_check_name
              /\ p.default_pipeline_file = s.default_pipeline_file
              /\ p.skip_fork_prs = s.skip_fork_prs /\ p.default_runtime = s.default_runtime
BY DEF PatchedNumbers, SettingsColumns

LEMMA PatchedTextsIs ==
    ASSUME NEW s, NEW in, DOMAIN s = SettingsColumns
    PROVE  LET p == PatchedTexts(s, in)
           IN /\ DOMAIN p = DOMAIN s
              /\ p.public_base_url = Given(in, "public_base_url", s.public_base_url)
              /\ p.default_check_name = OrDefault(Given(in, "default_check_name", s.default_check_name), "openpreflight")
              /\ p.default_pipeline_file = OrDefault(Given(in, "default_pipeline_file", s.default_pipeline_file), ".ci.yml")
              /\ p.default_timeout_seconds = s.default_timeout_seconds /\ p.max_log_bytes = s.max_log_bytes
              /\ p.max_concurrent_jobs = s.max_concurrent_jobs /\ p.log_retention_days = s.log_retention_days
              /\ p.skip_fork_prs = s.skip_fork_prs /\ p.default_runtime = s.default_runtime
BY DEF PatchedTexts, SettingsColumns

LEMMA PatchedRunnerIs ==
    ASSUME NEW s, NEW in, DOMAIN s = SettingsColumns
    PROVE  LET p == PatchedRunner(s, in)
           IN /\ DOMAIN p = DOMAIN s
              /\ p.skip_fork_prs = IF Has(in, "max_concurrent_jobs") THEN Bool(in, "skip_fork_prs") ELSE s.skip_fork_prs
              /\ p.default_runtime = Given(in, "default_runtime", s.default_runtime)
              /\ \A c \in SettingsColumns \ {"skip_fork_prs", "default_runtime"} : p[c] = s[c]
BY DEF PatchedRunner, SettingsColumns

LEMMA PatchedIs ==
    ASSUME NEW s, NEW in, DOMAIN s = SettingsColumns
    PROVE  LET p == PatchedRunner(PatchedNumbers(PatchedTexts(s, in), in), in)
           IN /\ DOMAIN p = DOMAIN s
              /\ p.public_base_url = Given(in, "public_base_url", s.public_base_url)
              /\ p.default_check_name = OrDefault(Given(in, "default_check_name", s.default_check_name), "openpreflight")
              /\ p.default_pipeline_file = OrDefault(Given(in, "default_pipeline_file", s.default_pipeline_file), ".ci.yml")
              /\ p.default_timeout_seconds = AtLeast(IntOf(in, "default_timeout_seconds", s.default_timeout_seconds), 30)
              /\ p.max_concurrent_jobs = AtLeast(IntOf(in, "max_concurrent_jobs", s.max_concurrent_jobs), 1)
              /\ p.max_log_bytes = AtLeast(IntOf(in, "max_log_bytes", s.max_log_bytes), 4096)
              /\ p.log_retention_days = AtLeast(IntOf(in, "log_retention_days", s.log_retention_days), 1)
              /\ p.skip_fork_prs = IF Has(in, "max_concurrent_jobs") THEN Bool(in, "skip_fork_prs") ELSE s.skip_fork_prs
              /\ p.default_runtime = Given(in, "default_runtime", s.default_runtime)
<1>. DEFINE t == PatchedTexts(s, in)
            n == PatchedNumbers(t, in)
            p == PatchedRunner(n, in)
<1>1. DOMAIN t = SettingsColumns /\ DOMAIN n = SettingsColumns
  BY PatchedTextsIs, PatchedNumbersIs
<1>2. /\ t.public_base_url = Given(in, "public_base_url", s.public_base_url)
      /\ t.default_check_name = OrDefault(Given(in, "default_check_name", s.default_check_name), "openpreflight")
      /\ t.default_pipeline_file = OrDefault(Given(in, "default_pipeline_file", s.default_pipeline_file), ".ci.yml")
      /\ t.default_timeout_seconds = s.default_timeout_seconds /\ t.max_log_bytes = s.max_log_bytes
      /\ t.max_concurrent_jobs = s.max_concurrent_jobs /\ t.log_retention_days = s.log_retention_days
      /\ t.skip_fork_prs = s.skip_fork_prs /\ t.default_runtime = s.default_runtime
  BY PatchedTextsIs
<1>. HIDE DEF t
<1>3. /\ n.default_timeout_seconds = AtLeast(IntOf(in, "default_timeout_seconds", t.default_timeout_seconds), 30)
      /\ n.max_concurrent_jobs = AtLeast(IntOf(in, "max_concurrent_jobs", t.max_concurrent_jobs), 1)
      /\ n.max_log_bytes = AtLeast(IntOf(in, "max_log_bytes", t.max_log_bytes), 4096)
      /\ n.log_retention_days = AtLeast(IntOf(in, "log_retention_days", t.log_retention_days), 1)
      /\ n.public_base_url = t.public_base_url /\ n.default_check_name = t.default_check_name
      /\ n.default_pipeline_file = t.default_pipeline_file
      /\ n.skip_fork_prs = t.skip_fork_prs /\ n.default_runtime = t.default_runtime
  BY <1>1, PatchedNumbersIs
<1>. HIDE DEF n
<1>4. /\ DOMAIN p = DOMAIN n
      /\ p.skip_fork_prs = IF Has(in, "max_concurrent_jobs") THEN Bool(in, "skip_fork_prs") ELSE n.skip_fork_prs
      /\ p.default_runtime = Given(in, "default_runtime", n.default_runtime)
      /\ \A c \in SettingsColumns \ {"skip_fork_prs", "default_runtime"} : p[c] = n[c]
  BY <1>1, PatchedRunnerIs
<1>. HIDE DEF p
<1>5. /\ p.default_timeout_seconds = n.default_timeout_seconds /\ p.max_concurrent_jobs = n.max_concurrent_jobs
      /\ p.max_log_bytes = n.max_log_bytes /\ p.log_retention_days = n.log_retention_days
      /\ p.public_base_url = n.public_base_url /\ p.default_check_name = n.default_check_name
      /\ p.default_pipeline_file = n.default_pipeline_file
  BY <1>4 DEF SettingsColumns
<1>. QED BY <1>1, <1>2, <1>3, <1>4, <1>5 DEF p, n, t

LEMMA PatchedSettings ==
    ASSUME NEW s, NEW in, SettingsRow(s), Given(in, "default_runtime", s.default_runtime) # Unfit
    PROVE  SettingsRow(PatchedRunner(PatchedNumbers(PatchedTexts(s, in), in), in))
<1>. DEFINE p == PatchedRunner(PatchedNumbers(PatchedTexts(s, in), in), in)
<1>1. DOMAIN s = SettingsColumns
  BY DEF SettingsRow
<1>2. 30 \in Numbers /\ 1 \in Numbers /\ 4096 \in Numbers
  BY NumbersAssumption
<1>3. /\ s.default_timeout_seconds \in Numbers /\ s.max_concurrent_jobs \in Numbers
      /\ s.max_log_bytes \in Numbers /\ s.log_retention_days \in Numbers
  BY DEF SettingsRow, SettingsNumbers
<1>4. /\ DOMAIN p = SettingsColumns
      /\ p.default_check_name = OrDefault(Given(in, "default_check_name", s.default_check_name), "openpreflight")
      /\ p.default_pipeline_file = OrDefault(Given(in, "default_pipeline_file", s.default_pipeline_file), ".ci.yml")
      /\ p.default_timeout_seconds = AtLeast(IntOf(in, "default_timeout_seconds", s.default_timeout_seconds), 30)
      /\ p.max_concurrent_jobs = AtLeast(IntOf(in, "max_concurrent_jobs", s.max_concurrent_jobs), 1)
      /\ p.max_log_bytes = AtLeast(IntOf(in, "max_log_bytes", s.max_log_bytes), 4096)
      /\ p.log_retention_days = AtLeast(IntOf(in, "log_retention_days", s.log_retention_days), 1)
      /\ p.skip_fork_prs = IF Has(in, "max_concurrent_jobs") THEN Bool(in, "skip_fork_prs") ELSE s.skip_fork_prs
      /\ p.default_runtime = Given(in, "default_runtime", s.default_runtime)
  BY <1>1, PatchedIs
<1>. HIDE DEF p
<1>5. p.default_check_name # "" /\ p.default_pipeline_file # ""
  <2>1. PICK check, file : /\ p.default_check_name = OrDefault(check, "openpreflight")
                           /\ p.default_pipeline_file = OrDefault(file, ".ci.yml")
    BY <1>4
  <2>. QED BY <2>1 DEF OrDefault
<1>6. p.default_timeout_seconds \in Numbers /\ p.default_timeout_seconds >= 30
  BY <1>2, <1>3, <1>4, IntOfIsANumber, AtLeastIs
<1>7. p.max_concurrent_jobs \in Numbers /\ p.max_concurrent_jobs >= 1
  BY <1>2, <1>3, <1>4, IntOfIsANumber, AtLeastIs
<1>8. p.max_log_bytes \in Numbers /\ p.max_log_bytes >= 4096
  BY <1>2, <1>3, <1>4, IntOfIsANumber, AtLeastIs
<1>9. p.log_retention_days \in Numbers /\ p.log_retention_days >= 1
  BY <1>2, <1>3, <1>4, IntOfIsANumber, AtLeastIs
<1>10. p.skip_fork_prs \in BOOLEAN
  <2>1. s.skip_fork_prs \in BOOLEAN
    BY DEF SettingsRow
  <2>2. Bool(in, "skip_fork_prs") \in BOOLEAN
    BY DEF Bool
  <2>. QED BY <1>4, <2>1, <2>2
<1>11. p.default_runtime # Unfit
  BY <1>4
<1>12. SettingsTexts(p) /\ SettingsNumbers(p)
  <2>1. SettingsTexts(p)
    BY <1>5, <1>11 DEF SettingsTexts
  <2>2. SettingsNumbers(p)
    BY <1>6, <1>7, <1>8, <1>9 DEF SettingsNumbers
  <2>. QED BY <2>1, <2>2
<1>13. SettingsRow(p)
  BY <1>4, <1>10, <1>12 DEF SettingsRow
<1>. QED BY <1>13 DEF p

LEMMA SettingsNextLands == ASSUME NEW in PROVE Lands(SettingsNext(in))
<1>1. \E page \in PageNames : SettingsNext(in) = At(page)
  BY DEF SettingsNext, PageNames
<1>. QED BY <1>1, PlainLands

\* The tables depend on no other row than these.
LEMMA SameTables ==
    ASSUME NEW db, Whole(db), NEW db2, DOMAIN db2 = DOMAIN db, db2.next = db.next,
           db2.users \in BOOLEAN, db2.docker \in BOOLEAN, SettingsRow(db2.settings),
           db2.apps = db.apps, db2.instances = db.instances, db2.bindings = db.bindings, db2.jobs = db.jobs
    PROVE  Whole(db2)
<1>1. Counted(db2) /\ \A rows : Keys(db2, rows) <=> Keys(db, rows)
  BY DEF Whole, Counted, Keys
<1>2. WholeApps(db2)
  BY <1>1 DEF Whole, WholeApps, SlugFree
<1>3. WholeInstances(db2)
  BY <1>1 DEF Whole, WholeInstances
<1>4. WholeBindings(db2)
  BY <1>1 DEF Whole, WholeBindings, BindingRow, BindingFit, SameKey
<1>5. WholeJobs(db2)
  BY DEF Whole, WholeJobs
<1>. QED BY <1>1, <1>2, <1>3, <1>4, <1>5 DEF Whole

LEMMA PatchSettingsSound ==
    ASSUME NEW db, Whole(db), NEW in, NEW answer \in PatchSettings(db, in)
    PROVE  Sound(answer)
<1>. DEFINE s == PatchedRunner(PatchedNumbers(PatchedTexts(db.settings, in), in), in)
            db2 == [db EXCEPT !.settings = s]
<1>1. CASE answer \in Refused(db)
  BY <1>1, RefusedSound
<1>2. CASE s.default_runtime # Unfit /\ answer = Answer(db2, SettingsNext(in), "ok")
  <2>1. SettingsRow(db.settings) /\ DOMAIN db.settings = SettingsColumns
    BY DEF Whole, SettingsRow
  <2>2. s.default_runtime = Given(in, "default_runtime", db.settings.default_runtime)
    BY <2>1, PatchedIs
  <2>3. SettingsRow(s)
    BY <1>2, <2>1, <2>2, PatchedSettings
  <2>. HIDE DEF s
  <2>4. /\ DOMAIN db2 = DOMAIN db /\ db2.next = db.next /\ db2.users = db.users /\ db2.docker = db.docker
        /\ db2.settings = s /\ db2.apps = db.apps /\ db2.instances = db.instances /\ db2.bindings = db.bindings
        /\ db2.jobs = db.jobs
    BY DEF Whole
  <2>. HIDE DEF db2
  <2>5. db.users \in BOOLEAN /\ db.docker \in BOOLEAN
    BY DEF Whole
  <2>6. Whole(db2)
    BY <2>3, <2>4, <2>5, SameTables
  <2>. QED BY <1>2, <2>6, AnswerSound, SettingsNextLands
<1>3. answer \in Refused(db) \/ (s.default_runtime # Unfit /\ answer = Answer(db2, SettingsNext(in), "ok"))
  BY DEF PatchSettings, IfFit
<1>. QED BY <1>1, <1>2, <1>3

AppColumns == {"name", "slug", "app_id", "api_url", "check_name", "pem", "webhook_secret"}

LEMMA NormalIs ==
    ASSUME NEW row, DOMAIN row = AppColumns
    PROVE  /\ DOMAIN Normal(row) = AppColumns
           /\ Normal(row).name = row.name /\ Normal(row).app_id = row.app_id
           /\ Normal(row).check_name = row.check_name /\ Normal(row).pem = row.pem
           /\ Normal(row).webhook_secret = row.webhook_secret
           /\ Normal(row).slug = Slug(row)
           /\ Normal(row).api_url = OrDefault(row.api_url, DefaultAPI)
BY DEF Normal, AppColumns

LEMMA NormalRow ==
    ASSUME NEW row, DOMAIN row = AppColumns, AppFit(row), row.app_id \in Numbers
    PROVE  AppRow(Normal(row)) /\ Slug(Normal(row)) = Slug(row)
<1>1. Slug(row) # "" /\ Slug(row) # Unfit
  BY DEF AppFit
<1>2. Normal(row).slug = Slug(row) /\ DOMAIN Normal(row) = AppColumns
  BY NormalIs
<1>3. Slug(Normal(row)) = Slug(row)
  BY <1>1, <1>2 DEF Slug
<1>4. Normal(row).name = row.name /\ Normal(row).app_id = row.app_id /\ Normal(row).pem = row.pem
  BY NormalIs
<1>5. AppFit(Normal(row))
  BY <1>3, <1>4 DEF AppFit
<1>6. Normal(row).api_url # ""
  <2>1. Normal(row).api_url = OrDefault(row.api_url, DefaultAPI)
    BY NormalIs
  <2>. QED BY <2>1 DEF OrDefault, DefaultAPI
<1>7. DOMAIN NoApp = AppColumns
  BY DEF NoApp, AppColumns
<1>8. Normal(row).slug # "" /\ Normal(row).app_id \in Numbers
  BY <1>1, <1>2, <1>4
<1>. QED BY <1>2, <1>3, <1>5, <1>6, <1>7, <1>8 DEF AppRow

\* The tables but one are the same, and the next id is no smaller.
SameBut(db, db2, table) ==
    /\ DOMAIN db2 = DOMAIN db
    /\ db2.users = db.users /\ db2.docker = db.docker /\ db2.settings = db.settings
    /\ table # "apps" => db2.apps = db.apps
    /\ table # "instances" => db2.instances = db.instances
    /\ table # "bindings" => db2.bindings = db.bindings
    /\ table # "jobs" => db2.jobs = db.jobs

Later(db, db2) == db2.next \in Nat /\ db.next <= db2.next

\* rows2 is rows with this row.
Put(rows, rows2, n, row) ==
    /\ DOMAIN rows2 = DOMAIN rows \cup {n} /\ rows2[n] = row
    /\ \A k \in DOMAIN rows \ {n} : rows2[k] = rows[k]

LEMMA AddedPut == ASSUME NEW rows, NEW n, NEW row PROVE Put(rows, Added(rows, n, row), n, row)
BY DEF Put, Added, With

\* A key of the table, or the next.
MayPut(db, db2, rows, n) == n \in DOMAIN rows \/ (n = db.next /\ db2.next = db.next + 1)

LEMMA KeysStay ==
    ASSUME NEW db, db.next \in Nat \ {0}, NEW db2, Later(db, db2), NEW rows, Keys(db, rows)
    PROVE  Keys(db2, rows)
<1>1. 1..(db.next - 1) \subseteq 1..(db2.next - 1)
  BY DEF Later
<1>. QED BY <1>1 DEF Keys

LEMMA KeysPut ==
    ASSUME NEW db, db.next \in Nat \ {0}, NEW db2, Later(db, db2), NEW rows, Keys(db, rows), NEW n, NEW rows2, NEW row, MayPut(db, db2, rows, n), Put(rows, rows2, n, row)
    PROVE  Keys(db2, rows2)
<1>1. DOMAIN rows \subseteq 1..(db2.next - 1)
  BY KeysStay DEF Keys
<1>2. n \in 1..(db2.next - 1)
  BY <1>1 DEF MayPut, Later
<1>. QED BY <1>1, <1>2 DEF Put, Keys

LEMMA WholeJobsStay ==
    ASSUME NEW db, db.next \in Nat \ {0}, WholeJobs(db), NEW db2, Later(db, db2), db2.jobs = db.jobs
    PROVE  WholeJobs(db2)
<1>1. \A i \in DOMAIN db.jobs : db.jobs[i].id \in Nat
  <2>1. \A i \in DOMAIN db.jobs : db.jobs[i] \in JobRows
    BY DEF WholeJobs
  <2>. QED BY <2>1 DEF JobRows
<1>. QED BY <1>1 DEF WholeJobs, Later

LEMMA SlugOfRow == ASSUME NEW row, AppRow(row) PROVE Slug(row) = row.slug
BY DEF AppRow, Slug

LEMMA AppPut ==
    ASSUME NEW db, Whole(db), NEW db2, Counted(db2), SameBut(db, db2, "apps"), Later(db, db2),
           NEW n, NEW row, AppRow(row), SlugFree(db, row, n), MayPut(db, db2, db.apps, n), Put(db.apps, db2.apps, n, row)
    PROVE  Whole(db2)
<1>1. /\ db.next \in Nat \ {0} /\ DOMAIN db2 = DOMAIN db
      /\ db2.users = db.users /\ db2.docker = db.docker /\ db2.settings = db.settings
      /\ db2.instances = db.instances /\ db2.bindings = db.bindings /\ db2.jobs = db.jobs
  BY DEF Whole, SameBut
<1>2. \A rows : Keys(db, rows) => Keys(db2, rows)
  BY <1>1, KeysStay
<1>3. Keys(db2, db2.apps)
  BY <1>1, KeysPut DEF Whole, WholeApps
<1>4. DOMAIN db2.apps = DOMAIN db.apps \cup {n} /\ db2.apps[n] = row
  BY DEF Put
<1>5. \A k \in DOMAIN db2.apps : k # n => k \in DOMAIN db.apps /\ db2.apps[k] = db.apps[k]
  BY DEF Put
<1>6. \A k \in DOMAIN db.apps : AppRow(db.apps[k]) /\ SlugFree(db, db.apps[k], k)
  BY DEF Whole, WholeApps
<1>7. \A k \in DOMAIN db2.apps : AppRow(db2.apps[k])
  BY <1>4, <1>5, <1>6
<1>8. ASSUME NEW k \in DOMAIN db2.apps
      PROVE  SlugFree(db2, db2.apps[k], k)
  <2>1. SUFFICES ASSUME NEW a \in DOMAIN db2.apps \ {k}
                 PROVE  db2.apps[a].slug # db2.apps[k].slug
    BY <1>7, <1>8, SlugOfRow DEF SlugFree
  <2>2. Slug(row) = row.slug
    BY SlugOfRow
  <2>3. CASE k = n
    BY <1>4, <1>5, <2>2, <2>3 DEF SlugFree
  <2>4. CASE a = n
    BY <1>4, <1>5, <2>2, <2>4 DEF SlugFree
  <2>5. CASE k # n /\ a # n
    <3>1. db.apps[a].slug # Slug(db.apps[k])
      BY <1>5, <1>6, <2>5 DEF SlugFree
    <3>. QED BY <1>5, <1>6, <2>5, <3>1, SlugOfRow
  <2>. QED BY <2>3, <2>4, <2>5
<1>9. WholeInstances(db2)
  BY <1>1, <1>2 DEF Whole, WholeInstances
<1>10. WholeBindings(db2)
  BY <1>1, <1>2, <1>4 DEF Whole, WholeBindings, BindingRow, BindingFit, SameKey
<1>11. WholeJobs(db2)
  BY <1>1, WholeJobsStay DEF Whole
<1>12. WholeApps(db2)
  BY <1>3, <1>7, <1>8 DEF WholeApps
<1>13. DOMAIN db2 = DOMAIN db /\ SettingsRow(db2.settings) /\ db2.users \in BOOLEAN /\ db2.docker \in BOOLEAN
       /\ db2.next \in Nat \ {0}
  BY <1>1 DEF Whole, Later
<1>. QED BY <1>9, <1>10, <1>11, <1>12, <1>13 DEF Whole

LEMMA CreatedWhole ==
    ASSUME NEW db, Whole(db), NEW row, DOMAIN row = AppColumns, AppFit(row), row.app_id \in Numbers,
           SlugFree(db, row, 0), Counted(Created(db, row))
    PROVE  Whole(Created(db, row))
<1>. DEFINE db2 == Created(db, row)
<1>1. /\ DOMAIN db2 = DOMAIN db /\ db2.next = db.next + 1 /\ db2.users = db.users /\ db2.docker = db.docker
      /\ db2.settings = db.settings /\ db2.instances = db.instances /\ db2.bindings = db.bindings
      /\ db2.jobs = db.jobs /\ db2.apps = Added(db.apps, db.next, Normal(row))
  BY DEF Whole, Created
<1>. HIDE DEF db2
<1>2. Put(db.apps, db2.apps, db.next, Normal(row))
  <2>. DEFINE row2 == Normal(row)
  <2>. HIDE DEF row2
  <2>1. Put(db.apps, Added(db.apps, db.next, row2), db.next, row2)
    BY AddedPut
  <2>2. db2.apps = Added(db.apps, db.next, row2)
    BY <1>1 DEF row2
  <2>3. Put(db.apps, db2.apps, db.next, row2)
    BY <2>1, <2>2
  <2>. QED BY <2>3 DEF row2
<1>3. AppRow(Normal(row)) /\ Slug(Normal(row)) = Slug(row)
  BY NormalRow
<1>4. SlugFree(db, Normal(row), db.next)
  <2>1. 0 \notin DOMAIN db.apps
    BY KeysAreFinite
  <2>. QED BY <1>3, <2>1 DEF SlugFree
<1>5. SameBut(db, db2, "apps") /\ Later(db, db2) /\ MayPut(db, db2, db.apps, db.next)
  BY <1>1 DEF SameBut, MayPut, Later, Whole
<1>6. Counted(db2)
  BY DEF db2
<1>7. Whole(db2)
  BY <1>2, <1>3, <1>4, <1>5, <1>6, AppPut
<1>. QED BY <1>7 DEF db2

LEMMA CreatedSound ==
    ASSUME NEW db, Whole(db), NEW row, DOMAIN row = AppColumns, row.app_id \in Numbers,
           AppFit(row), SlugFree(db, row, 0), NEW answer \in Tried(Created(db, row), At("apps"))
    PROVE  Sound(answer)
<1>1. Counted(Created(db, row)) => Whole(Created(db, row))
  BY CreatedWhole
<1>2. Lands(At("apps"))
  BY PlainLands DEF PageNames
<1>. QED BY <1>1, <1>2, TriedSound

LEMMA CreateAppSound ==
    ASSUME NEW db, Whole(db), NEW in, NEW answer \in CreateApp(db, in)
    PROVE  Sound(answer)
<1>. DEFINE row == PostedApp(in)
<1>1. DOMAIN row = AppColumns /\ row.app_id = IntOf(in, "app_id", 0)
  BY DEF PostedApp, AppColumns
<1>2. row.app_id \in Numbers
  BY <1>1, ZeroIsANumber, IntOfIsANumber
<1>3. answer \in Refused(db) \/ (AppFit(row) /\ SlugFree(db, row, 0) /\ answer \in Tried(Created(db, row), At("apps")))
  BY DEF CreateApp, IfFit
<1>. HIDE DEF row
<1>. QED BY <1>1, <1>2, <1>3, RefusedSound, CreatedSound

LEMMA MostIs == Most \in Numbers /\ Most > 0
<1>1. Numbers \subseteq Nat /\ 1 \in Numbers
  BY NumbersAssumption
<1>2. \E m \in Numbers : \A k \in Numbers : k <= m
  BY NumbersAssumption
<1>3. Most \in Numbers /\ \A k \in Numbers : k <= Most
  BY <1>2 DEF Most
<1>4. 1 <= Most /\ Most \in Nat
  BY <1>1, <1>3
<1>. QED BY <1>3, <1>4

LEMMA CallbackSound ==
    ASSUME NEW db, Whole(db), NEW in, Str(in, "slug") \notin {"", Unfit}, NEW answer \in CallbackAppManifest(db, in)
    PROVE  Sound(answer)
<1>. DEFINE row == [name |-> Str(in, "slug"), slug |-> Str(in, "slug"), app_id |-> Most, check_name |-> "",
                    api_url |-> DefaultAPI, pem |-> "key", webhook_secret |-> "secret"]
<1>1. DOMAIN row = AppColumns /\ row.app_id = Most /\ row.name = Str(in, "slug") /\ row.slug = Str(in, "slug")
      /\ row.pem = "key"
  BY DEF AppColumns
<1>2. Most \in Numbers /\ Most > 0
  BY MostIs
<1>3. \/ answer \in {Answer(db, At("error"), "")} \/ answer \in Refused(db)
      \/ SlugFree(db, row, 0) /\ answer \in Tried(Created(db, row), At("apps"))
  BY DEF CallbackAppManifest, IfFit
<1>. HIDE DEF row
<1>4. AppFit(row)
  BY <1>1, <1>2, UnfitAssumption DEF AppFit, Slug
<1>5. CASE answer = Answer(db, At("error"), "")
  <2>1. Lands(At("error"))
    BY PlainLands DEF PageNames
  <2>. QED BY <1>5, <2>1, AnswerSound
<1>6. row.app_id \in Numbers
  BY <1>1, <1>2
<1>. QED BY <1>1, <1>3, <1>4, <1>5, <1>6, RefusedSound, CreatedSound

LEMMA AppsLand == Lands(At("apps"))
BY PlainLands DEF PageNames

LEMMA MergedAppIs ==
    ASSUME NEW old, NEW in, old.app_id \in Numbers
    PROVE  DOMAIN MergedApp(old, in) = AppColumns /\ MergedApp(old, in).app_id \in Numbers
<1>1. DOMAIN MergedApp(old, in) = AppColumns /\ MergedApp(old, in).app_id = IntOf(in, "app_id", old.app_id)
  BY DEF MergedApp, AppColumns
<1>. QED BY <1>1, IntOfIsANumber

LEMMA ExceptPut ==
    ASSUME NEW rows, NEW n \in DOMAIN rows, NEW row
    PROVE  Put(rows, [rows EXCEPT ![n] = row], n, row)
BY DEF Put

LEMMA UpdateAppSound ==
    ASSUME NEW db, Whole(db), NEW n, NEW in, NEW answer \in UpdateApp(db, n, in)
    PROVE  Sound(answer)
<1>. DEFINE row == MergedApp(db.apps[n], in)
            db2 == [db EXCEPT !.apps[n] = Normal(row)]
<1>1. \/ answer \in Refused(db)
      \/ n \in DOMAIN db.apps /\ AppFit(row) /\ SlugFree(db, row, n) /\ answer = Answer(db2, At("apps"), "ok")
  BY DEF UpdateApp, IfFound, IfFit
<1>2. CASE answer \in Refused(db)
  BY <1>2, RefusedSound
<1>3. CASE n \in DOMAIN db.apps /\ AppFit(row) /\ SlugFree(db, row, n) /\ answer = Answer(db2, At("apps"), "ok")
  <2>1. db.apps[n].app_id \in Numbers
    BY <1>3 DEF Whole, WholeApps, AppRow
  <2>2. DOMAIN row = AppColumns /\ row.app_id \in Numbers
    BY <2>1, MergedAppIs
  <2>. HIDE DEF row
  <2>. DEFINE row2 == Normal(row)
  <2>3. AppRow(row2) /\ Slug(row2) = Slug(row)
    BY <1>3, <2>2, NormalRow
  <2>. HIDE DEF row2
  <2>4. SlugFree(db, row2, n)
    BY <1>3, <2>3 DEF SlugFree
  <2>5. /\ DOMAIN db2 = DOMAIN db /\ db2.next = db.next /\ db2.users = db.users /\ db2.docker = db.docker
        /\ db2.settings = db.settings /\ db2.instances = db.instances /\ db2.bindings = db.bindings
        /\ db2.jobs = db.jobs /\ db2.apps = [db.apps EXCEPT ![n] = row2]
    BY DEF Whole, row2
  <2>. HIDE DEF db2
  <2>6. Put(db.apps, db2.apps, n, row2)
    BY <1>3, <2>5, ExceptPut
  <2>7. SameBut(db, db2, "apps") /\ Later(db, db2) /\ MayPut(db, db2, db.apps, n) /\ Counted(db2)
    BY <1>3, <2>5 DEF SameBut, Later, MayPut, Whole, Counted
  <2>8. Whole(db2)
    BY <2>3, <2>4, <2>6, <2>7, AppPut
  <2>. QED BY <1>3, <2>8, AppsLand, AnswerSound
<1>. QED BY <1>1, <1>2, <1>3

LEMMA TestAppSound ==
    ASSUME NEW db, Whole(db), NEW n, NEW answer \in TestApp(db, n)
    PROVE  Sound(answer)
<1>1. answer \in Tried(db, At("apps")) \/ answer = Answer(db, At("apps"), "err")
  BY DEF TestApp
<1>. QED BY <1>1, TriedSound, AnswerSound, AppsLand

\* rows2 is rows without these.
Less(rows, rows2, ns) ==
    DOMAIN rows2 = DOMAIN rows \ ns /\ \A k \in DOMAIN rows2 : rows2[k] = rows[k]

LEMMA WithoutLess == ASSUME NEW rows, NEW ns PROVE Less(rows, Without(rows, ns), ns)
BY DEF Less, Without, Restrict

LEMMA DeletedAppWhole ==
    ASSUME NEW db, Whole(db), NEW n
    PROVE  Whole(DeletedApp(db, n))
<1>. DEFINE db2 == DeletedApp(db, n)
            gone == {b \in DOMAIN db.bindings : db.bindings[b].github_app_id = n}
<1>1. /\ DOMAIN db2 = DOMAIN db /\ db2.next = db.next /\ db2.users = db.users /\ db2.docker = db.docker
      /\ db2.settings = db.settings /\ db2.instances = db.instances /\ db2.jobs = db.jobs
      /\ db2.apps = Without(db.apps, {n}) /\ db2.bindings = Without(db.bindings, gone)
  BY DEF Whole, DeletedApp
<1>. HIDE DEF db2
<1>2. /\ DOMAIN db2.apps = DOMAIN db.apps \ {n}
      /\ \A k \in DOMAIN db2.apps : db2.apps[k] = db.apps[k]
  <2>1. Less(db.apps, db2.apps, {n})
    BY <1>1, WithoutLess
  <2>. QED BY <2>1 DEF Less
<1>3. /\ DOMAIN db2.bindings = DOMAIN db.bindings \ gone
      /\ \A k \in DOMAIN db2.bindings : db2.bindings[k] = db.bindings[k]
  <2>1. Less(db.bindings, db2.bindings, gone)
    BY <1>1, WithoutLess
  <2>. QED BY <2>1 DEF Less
<1>4. \A rows : Keys(db2, rows) <=> Keys(db, rows)
  BY <1>1 DEF Keys
<1>5. WholeApps(db2)
  <2>1. \A k \in DOMAIN db2.apps : k \in DOMAIN db.apps /\ db2.apps[k] = db.apps[k]
    BY <1>2
  <2>2. Keys(db, db.apps) /\ \A k \in DOMAIN db.apps : AppRow(db.apps[k]) /\ SlugFree(db, db.apps[k], k)
    BY DEF Whole, WholeApps
  <2>3. Keys(db2, db2.apps)
    BY <1>1, <1>2, <2>2 DEF Keys
  <2>4. \A k \in DOMAIN db2.apps : SlugFree(db2, db2.apps[k], k)
    BY <2>1, <2>2 DEF SlugFree
  <2>. QED BY <2>1, <2>2, <2>3, <2>4 DEF WholeApps
<1>6. WholeInstances(db2)
  BY <1>1, <1>4 DEF Whole, WholeInstances
<1>7. WholeBindings(db2)
  <2>1. \A k \in DOMAIN db2.bindings :
           k \in DOMAIN db.bindings /\ db2.bindings[k] = db.bindings[k] /\ db.bindings[k].github_app_id # n
    BY <1>3
  <2>2. /\ Keys(db, db.bindings)
        /\ \A k \in DOMAIN db.bindings : BindingRow(db, db.bindings[k]) /\ SameKey(db, db.bindings[k]) \subseteq {k}
    BY DEF Whole, WholeBindings
  <2>3. Keys(db2, db2.bindings)
    BY <1>1, <1>3, <2>2 DEF Keys
  <2>4. \A k \in DOMAIN db2.bindings : BindingRow(db2, db2.bindings[k])
    BY <1>1, <1>2, <2>1, <2>2 DEF BindingRow, BindingFit
  <2>5. \A k \in DOMAIN db2.bindings : SameKey(db2, db2.bindings[k]) \subseteq SameKey(db, db.bindings[k])
    BY <2>1 DEF SameKey
  <2>6. \A k \in DOMAIN db2.bindings : SameKey(db2, db2.bindings[k]) \subseteq {k}
    BY <2>1, <2>2, <2>5
  <2>. QED BY <2>3, <2>4, <2>6 DEF WholeBindings
<1>8. WholeJobs(db2)
  BY <1>1 DEF Whole, WholeJobs
<1>9. /\ DOMAIN db2 = DOMAIN db /\ db2.next \in Nat \ {0} /\ Counted(db2) /\ db2.users \in BOOLEAN
      /\ db2.docker \in BOOLEAN /\ SettingsRow(db2.settings)
  BY <1>1 DEF Whole, Counted
<1>10. Whole(db2)
  BY <1>5, <1>6, <1>7, <1>8, <1>9 DEF Whole
<1>. QED BY <1>10 DEF db2

LEMMA DeleteAppSound ==
    ASSUME NEW db, Whole(db), NEW n, NEW answer \in DeleteApp(db, n)
    PROVE  Sound(answer)
<1>1. answer \in Refused(db) \/ answer = Answer(DeletedApp(db, n), At("apps"), "ok")
  BY DEF DeleteApp, IfFound
<1>2. Whole(DeletedApp(db, n))
  BY DeletedAppWhole
<1>. QED BY <1>1, <1>2, RefusedSound, AnswerSound, AppsLand

LEMMA StartAppManifestSound ==
    ASSUME NEW db, Whole(db), NEW answer \in StartAppManifest(db)
    PROVE  Sound(answer)
<1>1. answer \in Refused(db) \/ answer = Answer(db, At("github"), "")
  BY DEF StartAppManifest
<1>2. Lands(At("github"))
  BY PlainLands DEF PageNames
<1>. QED BY <1>1, <1>2, RefusedSound, AnswerSound

InstanceColumns == {"name", "base_url", "api_token", "default_server_uuid", "default_project_uuid"}

LEMMA CoolifyLands == Lands(At("coolify")) /\ \A n : Lands([At("coolify") EXCEPT !.inspect = n])
<1>1. Lands(At("coolify"))
  BY PlainLands DEF PageNames
<1>2. \A n : Lands([At("coolify") EXCEPT !.inspect = n])
  <2>1. ASSUME NEW n
        PROVE  /\ [At("coolify") EXCEPT !.inspect = n].page = "coolify"
               /\ [At("coolify") EXCEPT !.inspect = n].app = 0 /\ [At("coolify") EXCEPT !.inspect = n].coolify = 0
    BY DEF At
  <2>. QED BY <2>1, ZeroIsANumber DEF Lands, PageNames
<1>. QED BY <1>1, <1>2

LEMMA LabelledRow ==
    ASSUME NEW row, DOMAIN row = InstanceColumns, InstanceFit(row)
    PROVE  InstanceRow(Labelled(row))
<1>1. /\ DOMAIN Labelled(row) = InstanceColumns /\ Labelled(row).base_url = row.base_url
      /\ Labelled(row).name = OrDefault(row.name, row.base_url)
  BY DEF Labelled, InstanceColumns
<1>2. Labelled(row).name # ""
  BY <1>1 DEF OrDefault, InstanceFit
<1>3. DOMAIN NoInstance = InstanceColumns
  BY DEF NoInstance, InstanceColumns
<1>. QED BY <1>1, <1>2, <1>3 DEF InstanceRow, InstanceFit

LEMMA InstancePut ==
    ASSUME NEW db, Whole(db), NEW db2, Counted(db2), SameBut(db, db2, "instances"), Later(db, db2),
           NEW n, NEW row, InstanceRow(row), MayPut(db, db2, db.instances, n), Put(db.instances, db2.instances, n, row)
    PROVE  Whole(db2)
<1>1. /\ db.next \in Nat \ {0} /\ DOMAIN db2 = DOMAIN db
      /\ db2.users = db.users /\ db2.docker = db.docker /\ db2.settings = db.settings
      /\ db2.apps = db.apps /\ db2.bindings = db.bindings /\ db2.jobs = db.jobs
  BY DEF Whole, SameBut
<1>2. \A rows : Keys(db, rows) => Keys(db2, rows)
  BY <1>1, KeysStay
<1>3. Keys(db2, db2.instances)
  BY <1>1, KeysPut DEF Whole, WholeInstances
<1>4. DOMAIN db2.instances = DOMAIN db.instances \cup {n} /\ db2.instances[n] = row
  BY DEF Put
<1>5. \A k \in DOMAIN db2.instances : k # n => k \in DOMAIN db.instances /\ db2.instances[k] = db.instances[k]
  BY DEF Put
<1>6. \A k \in DOMAIN db2.instances : InstanceRow(db2.instances[k])
  BY <1>4, <1>5 DEF Whole, WholeInstances
<1>7. WholeInstances(db2)
  BY <1>3, <1>6 DEF WholeInstances
<1>8. WholeApps(db2)
  BY <1>1, <1>2 DEF Whole, WholeApps, SlugFree
<1>9. WholeBindings(db2)
  BY <1>1, <1>2, <1>4 DEF Whole, WholeBindings, BindingRow, BindingFit, SameKey
<1>10. WholeJobs(db2)
  BY <1>1, WholeJobsStay DEF Whole
<1>11. DOMAIN db2 = DOMAIN db /\ SettingsRow(db2.settings) /\ db2.users \in BOOLEAN /\ db2.docker \in BOOLEAN
       /\ db2.next \in Nat \ {0}
  BY <1>1 DEF Whole, Later
<1>. QED BY <1>7, <1>8, <1>9, <1>10, <1>11 DEF Whole

LEMMA CreateCoolifySound ==
    ASSUME NEW db, Whole(db), NEW in, NEW answer \in CreateCoolify(db, in)
    PROVE  Sound(answer)
<1>. DEFINE row == [name |-> Str(in, "name"), base_url |-> Str(in, "base_url"),
                    api_token |-> Str(in, "api_token"),
                    default_server_uuid |-> Str(in, "default_server_uuid"),
                    default_project_uuid |-> Str(in, "default_project_uuid")]
            row2 == Labelled(row)
            db2 == [db EXCEPT !.instances = Added(@, db.next, row2), !.next = @ + 1]
<1>1. answer \in Refused(db) \/ (InstanceFit(row) /\ answer \in Tried(db2, At("coolify")))
  BY DEF CreateCoolify, IfFit
<1>2. CASE InstanceFit(row) /\ answer \in Tried(db2, At("coolify"))
  <2>1. DOMAIN row = InstanceColumns
    BY DEF InstanceColumns
  <2>. HIDE DEF row
  <2>2. InstanceRow(row2)
    BY <1>2, <2>1, LabelledRow
  <2>. HIDE DEF row2
  <2>3. /\ DOMAIN db2 = DOMAIN db /\ db2.next = db.next + 1 /\ db2.users = db.users /\ db2.docker = db.docker
        /\ db2.settings = db.settings /\ db2.apps = db.apps /\ db2.bindings = db.bindings
        /\ db2.jobs = db.jobs /\ db2.instances = Added(db.instances, db.next, row2)
    BY DEF Whole
  <2>. HIDE DEF db2
  <2>4. Put(db.instances, db2.instances, db.next, row2)
    BY <2>3, AddedPut
  <2>5. SameBut(db, db2, "instances") /\ Later(db, db2) /\ MayPut(db, db2, db.instances, db.next)
    BY <2>3 DEF SameBut, Later, MayPut, Whole
  <2>6. Counted(db2) => Whole(db2)
    BY <2>2, <2>4, <2>5, InstancePut
  <2>. QED BY <1>2, <2>6, TriedSound, CoolifyLands
<1>. QED BY <1>1, <1>2, RefusedSound

LEMMA UpdateCoolifySound ==
    ASSUME NEW db, Whole(db), NEW n, NEW in, NEW answer \in UpdateCoolify(db, n, in)
    PROVE  Sound(answer)
<1>. DEFINE row == MergedInstance(db.instances[n], in)
            row2 == Labelled(row)
            db2 == [db EXCEPT !.instances[n] = row2]
<1>1. \/ answer \in Refused(db)
      \/ n \in DOMAIN db.instances /\ InstanceFit(row) /\ answer = Answer(db2, At("coolify"), "ok")
  BY DEF UpdateCoolify, IfFound, IfFit
<1>2. CASE n \in DOMAIN db.instances /\ InstanceFit(row) /\ answer = Answer(db2, At("coolify"), "ok")
  <2>1. DOMAIN row = InstanceColumns
    BY DEF MergedInstance, InstanceColumns
  <2>. HIDE DEF row
  <2>2. InstanceRow(row2)
    BY <1>2, <2>1, LabelledRow
  <2>. HIDE DEF row2
  <2>3. /\ DOMAIN db2 = DOMAIN db /\ db2.next = db.next /\ db2.users = db.users /\ db2.docker = db.docker
        /\ db2.settings = db.settings /\ db2.apps = db.apps /\ db2.bindings = db.bindings
        /\ db2.jobs = db.jobs /\ db2.instances = [db.instances EXCEPT ![n] = row2]
    BY DEF Whole
  <2>. HIDE DEF db2
  <2>4. Put(db.instances, db2.instances, n, row2)
    BY <1>2, <2>3, ExceptPut
  <2>5. SameBut(db, db2, "instances") /\ Later(db, db2) /\ MayPut(db, db2, db.instances, n) /\ Counted(db2)
    BY <1>2, <2>3 DEF SameBut, Later, MayPut, Whole, Counted
  <2>6. Whole(db2)
    BY <2>2, <2>4, <2>5, InstancePut
  <2>. QED BY <1>2, <2>6, AnswerSound, CoolifyLands
<1>. QED BY <1>1, <1>2, RefusedSound

LEMMA TestCoolifySound ==
    ASSUME NEW db, Whole(db), NEW n, NEW answer \in TestCoolify(db, n)
    PROVE  Sound(answer)
<1>1. answer \in Tried(db, At("coolify")) \/ answer = Answer(db, At("coolify"), "err")
  BY DEF TestCoolify
<1>. QED BY <1>1, TriedSound, AnswerSound, CoolifyLands

LEMMA InstallWorkerSound ==
    ASSUME NEW db, Whole(db), NEW n, NEW in, NEW answer \in InstallWorkerOn(db, n, in)
    PROVE  Sound(answer)
<1>1. answer \in Refused(db) \/ answer \in Tried(db, [At("coolify") EXCEPT !.inspect = n])
  BY DEF InstallWorkerOn, IfFound, IfFit
<1>2. Lands([At("coolify") EXCEPT !.inspect = n])
  BY CoolifyLands
<1>. QED BY <1>1, <1>2, TriedSound, RefusedSound

\* The rows of the instance that goes name none.
Released(row, n) == IF row.coolify_instance_id = n THEN [row EXCEPT !.coolify_instance_id = 0] ELSE row

LEMMA ReleasedIs ==
    ASSUME NEW row, DOMAIN row = DOMAIN NoBinding, NEW n
    PROVE  /\ DOMAIN Released(row, n) = DOMAIN row
           /\ Released(row, n).coolify_instance_id = IF row.coolify_instance_id = n THEN 0 ELSE row.coolify_instance_id
           /\ \A c \in DOMAIN row \ {"coolify_instance_id"} : Released(row, n)[c] = row[c]
<1>1. "coolify_instance_id" \in DOMAIN row
  BY DEF NoBinding
<1>. QED BY <1>1 DEF Released

LEMMA ReleasedRow ==
    ASSUME NEW db, NEW db2, NEW row, BindingRow(db, row), NEW n, db2.apps = db.apps,
           DOMAIN db2.instances = DOMAIN db.instances \ {n}
    PROVE  BindingRow(db2, Released(row, n))
<1>. DEFINE row2 == Released(row, n)
<1>1. DOMAIN row = DOMAIN NoBinding
  BY DEF BindingRow
<1>2. /\ DOMAIN row2 = DOMAIN row
      /\ row2.coolify_instance_id = IF row.coolify_instance_id = n THEN 0 ELSE row.coolify_instance_id
      /\ \A c \in DOMAIN row \ {"coolify_instance_id"} : row2[c] = row[c]
  BY <1>1, ReleasedIs
<1>. HIDE DEF row2
<1>3. /\ row2.github_app_id = row.github_app_id /\ row2.repo = row.repo /\ row2.pipeline_file = row.pipeline_file
      /\ row2.timeout_seconds = row.timeout_seconds /\ row2.enabled = row.enabled
      /\ row2.shareable_logs = row.shareable_logs /\ row2.on_empty_pipeline = row.on_empty_pipeline
  BY <1>1, <1>2 DEF NoBinding
<1>4. BindingFit(db2, row2)
  BY <1>2, <1>3 DEF BindingRow, BindingFit
<1>5. BindingRow(db2, row2)
  BY <1>2, <1>3, <1>4 DEF BindingRow
<1>. QED BY <1>5 DEF row2

LEMMA DeletedInstanceWhole ==
    ASSUME NEW db, Whole(db), NEW n
    PROVE  Whole(DeletedInstance(db, n))
<1>. DEFINE db2 == DeletedInstance(db, n)
<1>1. /\ DOMAIN db2 = DOMAIN db /\ db2.next = db.next /\ db2.users = db.users /\ db2.docker = db.docker
      /\ db2.settings = db.settings /\ db2.apps = db.apps /\ db2.jobs = db.jobs
      /\ db2.instances = Without(db.instances, {n})
      /\ DOMAIN db2.bindings = DOMAIN db.bindings
      /\ \A k \in DOMAIN db.bindings : db2.bindings[k] = Released(db.bindings[k], n)
  BY DEF Whole, DeletedInstance, Released
<1>. HIDE DEF db2
<1>2. /\ DOMAIN db2.instances = DOMAIN db.instances \ {n}
      /\ \A k \in DOMAIN db2.instances : db2.instances[k] = db.instances[k]
  <2>1. Less(db.instances, db2.instances, {n})
    BY <1>1, WithoutLess
  <2>. QED BY <2>1 DEF Less
<1>4. \A rows : Keys(db2, rows) <=> Keys(db, rows)
  BY <1>1 DEF Keys
<1>5. WholeApps(db2)
  BY <1>1, <1>4 DEF Whole, WholeApps, SlugFree
<1>6. WholeInstances(db2)
  BY <1>1, <1>2 DEF Whole, WholeInstances, Keys
<1>7. WholeBindings(db2)
  <2>1. /\ Keys(db, db.bindings)
        /\ \A k \in DOMAIN db.bindings : BindingRow(db, db.bindings[k]) /\ SameKey(db, db.bindings[k]) \subseteq {k}
    BY DEF Whole, WholeBindings
  <2>2. Keys(db2, db2.bindings)
    BY <1>1, <2>1 DEF Keys
  <2>3. \A k \in DOMAIN db2.bindings : BindingRow(db2, db2.bindings[k])
    <3>. SUFFICES ASSUME NEW k \in DOMAIN db.bindings PROVE BindingRow(db2, db2.bindings[k])
      BY <1>1
    <3>. DEFINE row == db.bindings[k]
    <3>1. BindingRow(db, row) /\ db2.bindings[k] = Released(row, n)
      BY <1>1, <2>1
    <3>2. db2.apps = db.apps /\ DOMAIN db2.instances = DOMAIN db.instances \ {n}
      BY <1>1, <1>2
    <3>. HIDE DEF row
    <3>3. BindingRow(db2, Released(row, n))
      BY <3>1, <3>2, ReleasedRow
    <3>. QED BY <3>1, <3>3
  <2>4. \A k \in DOMAIN db2.bindings : /\ db2.bindings[k].github_app_id = db.bindings[k].github_app_id
                                       /\ db2.bindings[k].repo = db.bindings[k].repo
    <3>1. ASSUME NEW k \in DOMAIN db.bindings
          PROVE  \A c \in DOMAIN db.bindings[k] \ {"coolify_instance_id"} : db2.bindings[k][c] = db.bindings[k][c]
      <4>. DEFINE row == db.bindings[k]
      <4>1. DOMAIN row = DOMAIN NoBinding
        BY <2>1 DEF BindingRow
      <4>2. db2.bindings[k] = Released(row, n)
        BY <1>1
      <4>. HIDE DEF row
      <4>3. \A c \in DOMAIN row \ {"coolify_instance_id"} : Released(row, n)[c] = row[c]
        BY <4>1, ReleasedIs
      <4>. QED BY <4>2, <4>3 DEF row
    <3>2. \A k \in DOMAIN db.bindings : {"github_app_id", "repo"} \subseteq DOMAIN db.bindings[k]
      BY <2>1 DEF BindingRow, NoBinding
    <3>. QED BY <1>1, <3>1, <3>2
  <2>5. \A k \in DOMAIN db2.bindings : SameKey(db2, db2.bindings[k]) \subseteq SameKey(db, db.bindings[k])
    BY <1>1, <2>4 DEF SameKey
  <2>6. \A k \in DOMAIN db2.bindings : SameKey(db2, db2.bindings[k]) \subseteq {k}
    BY <1>1, <2>1, <2>5
  <2>. QED BY <2>2, <2>3, <2>6 DEF WholeBindings
<1>8. WholeJobs(db2)
  BY <1>1 DEF Whole, WholeJobs
<1>9. /\ DOMAIN db2 = DOMAIN db /\ db2.next \in Nat \ {0} /\ Counted(db2) /\ db2.users \in BOOLEAN
      /\ db2.docker \in BOOLEAN /\ SettingsRow(db2.settings)
  BY <1>1 DEF Whole, Counted
<1>10. Whole(db2)
  BY <1>5, <1>6, <1>7, <1>8, <1>9 DEF Whole
<1>. QED BY <1>10 DEF db2

LEMMA DeleteCoolifySound ==
    ASSUME NEW db, Whole(db), NEW n, NEW answer \in DeleteCoolify(db, n)
    PROVE  Sound(answer)
<1>1. answer \in Refused(db) \/ answer = Answer(DeletedInstance(db, n), At("coolify"), "ok")
  BY DEF DeleteCoolify, IfFound
<1>2. Whole(DeletedInstance(db, n))
  BY DeletedInstanceWhole
<1>. QED BY <1>1, <1>2, RefusedSound, AnswerSound, CoolifyLands

LEMMA ReposLand == Lands(At("repos"))
BY PlainLands DEF PageNames

\* One row of an App and a repository.
OneEach(rows) ==
    \A m, n \in DOMAIN rows :
        rows[m].github_app_id = rows[n].github_app_id /\ rows[m].repo = rows[n].repo => m = n

LEMMA OneEachIs ==
    ASSUME NEW db
    PROVE  OneEach(db.bindings) <=> \A n \in DOMAIN db.bindings : SameKey(db, db.bindings[n]) \subseteq {n}
BY DEF OneEach, SameKey

LEMMA BindingsWhole ==
    ASSUME NEW db, Whole(db), NEW db2, Counted(db2), SameBut(db, db2, "bindings"), Later(db, db2),
           Keys(db2, db2.bindings), \A n \in DOMAIN db2.bindings : BindingRow(db, db2.bindings[n]),
           OneEach(db2.bindings)
    PROVE  Whole(db2)
<1>1. /\ db.next \in Nat \ {0} /\ DOMAIN db2 = DOMAIN db
      /\ db2.users = db.users /\ db2.docker = db.docker /\ db2.settings = db.settings
      /\ db2.apps = db.apps /\ db2.instances = db.instances /\ db2.jobs = db.jobs
  BY DEF Whole, SameBut
<1>2. \A rows : Keys(db, rows) => Keys(db2, rows)
  BY <1>1, KeysStay
<1>3. \A row : BindingRow(db, row) => BindingRow(db2, row)
  BY <1>1 DEF BindingRow, BindingFit
<1>4. \A n \in DOMAIN db2.bindings : SameKey(db2, db2.bindings[n]) \subseteq {n}
  BY OneEachIs
<1>5. WholeBindings(db2)
  BY <1>3, <1>4 DEF WholeBindings
<1>6. WholeApps(db2)
  BY <1>1, <1>2 DEF Whole, WholeApps, SlugFree
<1>7. WholeInstances(db2)
  BY <1>1, <1>2 DEF Whole, WholeInstances
<1>8. WholeJobs(db2)
  BY <1>1, WholeJobsStay DEF Whole
<1>9. DOMAIN db2 = DOMAIN db /\ SettingsRow(db2.settings) /\ db2.users \in BOOLEAN /\ db2.docker \in BOOLEAN
       /\ db2.next \in Nat \ {0}
  BY <1>1 DEF Whole, Later
<1>. QED BY <1>5, <1>6, <1>7, <1>8, <1>9 DEF Whole

LEMMA BindingRows ==
    ASSUME NEW db, Whole(db)
    PROVE  /\ Keys(db, db.bindings) /\ OneEach(db.bindings)
           /\ \A n \in DOMAIN db.bindings : BindingRow(db, db.bindings[n])
<1>1. /\ Keys(db, db.bindings) /\ \A n \in DOMAIN db.bindings : BindingRow(db, db.bindings[n])
      /\ \A n \in DOMAIN db.bindings : SameKey(db, db.bindings[n]) \subseteq {n}
  BY DEF Whole, WholeBindings
<1>. QED BY <1>1, OneEachIs

\* The only row of the key, or the next.
LEMMA SameKeyOne ==
    ASSUME NEW db, OneEach(db.bindings), NEW row, NEW n \in SameKey(db, row)
    PROVE  SameKey(db, row) = {n} /\ n \in DOMAIN db.bindings
BY DEF OneEach, SameKey

LEMMA UpsertedIs ==
    ASSUME NEW db, Whole(db), NEW row
    PROVE  LET db2 == Upserted(db, row)
           IN /\ SameBut(db, db2, "bindings") /\ Later(db, db2)
              /\ \E n : /\ MayPut(db, db2, db.bindings, n) /\ Put(db.bindings, db2.bindings, n, row)
                        /\ n = db.next \/ n \in SameKey(db, row)
                        /\ \A k \in SameKey(db, row) : k = n
<1>. DEFINE db2 == Upserted(db, row)
<1>0. db.next \in Nat /\ OneEach(db.bindings)
  BY BindingRows DEF Whole
<1>1. CASE SameKey(db, row) = {}
  <2>1. /\ DOMAIN db2 = DOMAIN db /\ db2.next = db.next + 1 /\ db2.users = db.users /\ db2.docker = db.docker
        /\ db2.settings = db.settings /\ db2.apps = db.apps /\ db2.instances = db.instances
        /\ db2.jobs = db.jobs /\ db2.bindings = Added(db.bindings, db.next, row)
    BY <1>1 DEF Whole, Upserted
  <2>. HIDE DEF db2
  <2>2. Put(db.bindings, db2.bindings, db.next, row)
    BY <2>1, AddedPut
  <2>3. SameBut(db, db2, "bindings") /\ Later(db, db2) /\ MayPut(db, db2, db.bindings, db.next)
    BY <1>0, <2>1 DEF SameBut, Later, MayPut
  <2>4. \A k \in SameKey(db, row) : k = db.next
    BY <1>1
  <2>. QED BY <2>2, <2>3, <2>4 DEF db2
<1>2. ASSUME NEW n \in SameKey(db, row)
      PROVE  /\ SameBut(db, db2, "bindings") /\ Later(db, db2)
             /\ MayPut(db, db2, db.bindings, n) /\ Put(db.bindings, db2.bindings, n, row)
             /\ \A k \in SameKey(db, row) : k = n
  <2>1. SameKey(db, row) = {n} /\ n \in DOMAIN db.bindings
    BY <1>0, SameKeyOne
  <2>2. SameKey(db, row) # {}
    BY <1>2
  <2>3. /\ DOMAIN db2 = DOMAIN db /\ db2.next = db.next /\ db2.users = db.users /\ db2.docker = db.docker
        /\ db2.settings = db.settings /\ db2.apps = db.apps /\ db2.instances = db.instances
        /\ db2.jobs = db.jobs
        /\ db2.bindings = With(db.bindings, SameKey(db, row), LAMBDA k : row)
    BY <2>2 DEF Whole, Upserted
  <2>. HIDE DEF db2
  <2>4. db2.bindings = [k \in DOMAIN db.bindings \cup {n} |-> IF k \in {n} THEN row ELSE db.bindings[k]]
    BY <2>1, <2>3 DEF With
  <2>5. Put(db.bindings, db2.bindings, n, row)
    BY <2>4 DEF Put
  <2>6. SameBut(db, db2, "bindings") /\ Later(db, db2) /\ MayPut(db, db2, db.bindings, n)
    BY <1>0, <2>1, <2>3 DEF SameBut, Later, MayPut
  <2>. QED BY <2>1, <2>5, <2>6
<1>. QED BY <1>1, <1>2

LEMMA UpsertedWhole ==
    ASSUME NEW db, Whole(db), NEW row, BindingRow(db, row), Counted(Upserted(db, row))
    PROVE  Whole(Upserted(db, row))
<1>. DEFINE db2 == Upserted(db, row)
<1>1. SameBut(db, db2, "bindings") /\ Later(db, db2)
  BY UpsertedIs
<1>2. PICK n : /\ MayPut(db, db2, db.bindings, n) /\ Put(db.bindings, db2.bindings, n, row)
               /\ \A k \in SameKey(db, row) : k = n
  BY UpsertedIs
<1>3. Counted(db2)
  OBVIOUS
<1>. HIDE DEF db2
<1>4. Keys(db, db.bindings) /\ OneEach(db.bindings) /\ \A k \in DOMAIN db.bindings : BindingRow(db, db.bindings[k])
  BY BindingRows
<1>5. Keys(db2, db2.bindings)
  BY <1>1, <1>2, <1>4, KeysPut DEF Whole
<1>6. DOMAIN db2.bindings = DOMAIN db.bindings \cup {n} /\ db2.bindings[n] = row
      /\ \A k \in DOMAIN db2.bindings : k # n => k \in DOMAIN db.bindings /\ db2.bindings[k] = db.bindings[k]
  BY <1>2 DEF Put
<1>7. \A k \in DOMAIN db2.bindings : BindingRow(db, db2.bindings[k])
  BY <1>4, <1>6
<1>8. OneEach(db2.bindings)
  <2>. SUFFICES ASSUME NEW a \in DOMAIN db2.bindings, NEW b \in DOMAIN db2.bindings, a # b,
                       db2.bindings[a].github_app_id = db2.bindings[b].github_app_id,
                       db2.bindings[a].repo = db2.bindings[b].repo
                PROVE  FALSE
    BY DEF OneEach
  <2>1. CASE a = n
    <3>1. b \in SameKey(db, row)
      BY <1>6, <2>1 DEF SameKey
    <3>. QED BY <1>2, <2>1, <3>1
  <2>2. CASE b = n
    <3>1. a \in SameKey(db, row)
      BY <1>6, <2>2 DEF SameKey
    <3>. QED BY <1>2, <2>2, <3>1
  <2>3. CASE a # n /\ b # n
    BY <1>4, <1>6, <2>3 DEF OneEach
  <2>. QED BY <2>1, <2>2, <2>3
<1>9. Whole(db2)
  BY <1>1, <1>3, <1>5, <1>7, <1>8, BindingsWhole
<1>. QED BY <1>9 DEF db2

LEMMA PostedRow ==
    ASSUME NEW db, NEW in, Str(in, "repo") \in Repos, Str(in, "on_empty_pipeline") \in {"skip", "fail"},
           BindingFit(db, PostedBinding(in))
    PROVE  BindingRow(db, PostedBinding(in))
<1>. DEFINE row == PostedBinding(in)
<1>1. DOMAIN row = DOMAIN NoBinding /\ row.repo = Str(in, "repo") /\ row.timeout_seconds = IntOf(in, "timeout_seconds", 0)
      /\ row.enabled = Bool(in, "enabled") /\ row.shareable_logs = Bool(in, "shareable_logs")
      /\ row.on_empty_pipeline = Str(in, "on_empty_pipeline")
  BY DEF PostedBinding, NoBinding
<1>2. row.timeout_seconds \in Numbers
  BY <1>1, ZeroIsANumber, IntOfIsANumber
<1>3. row.enabled \in BOOLEAN /\ row.shareable_logs \in BOOLEAN
  BY <1>1 DEF Bool
<1>4. BindingFit(db, row)
  OBVIOUS
<1>. HIDE DEF row
<1>5. BindingRow(db, row)
  BY <1>1, <1>2, <1>3, <1>4 DEF BindingRow
<1>. QED BY <1>5 DEF row

LEMMA UpsertBindingSound ==
    ASSUME NEW db, Whole(db), NEW in, Str(in, "repo") \in Repos, Str(in, "on_empty_pipeline") \in {"skip", "fail"},
           NEW answer \in UpsertBinding(db, in)
    PROVE  Sound(answer)
<1>. DEFINE row == PostedBinding(in)
<1>1. answer \in Refused(db) \/ (BindingFit(db, row) /\ answer = Answer(Upserted(db, row), At("repos"), "ok"))
  BY DEF UpsertBinding, IfFit
<1>2. CASE BindingFit(db, row) /\ answer = Answer(Upserted(db, row), At("repos"), "ok")
  <2>1. BindingRow(db, row)
    BY <1>2, PostedRow
  <2>. HIDE DEF row
  <2>2. Counted(Upserted(db, row)) => Whole(Upserted(db, row))
    BY <2>1, UpsertedWhole
  <2>. QED BY <1>2, <2>2, AnswerSound, ReposLand
<1>. QED BY <1>1, <1>2, RefusedSound

LEMMA TurnedRow ==
    ASSUME NEW db, NEW row, BindingRow(db, row)
    PROVE  /\ BindingRow(db, [row EXCEPT !.enabled = ~@])
           /\ [row EXCEPT !.enabled = ~@].github_app_id = row.github_app_id
           /\ [row EXCEPT !.enabled = ~@].repo = row.repo
<1>. DEFINE row2 == [row EXCEPT !.enabled = ~@]
<1>1. DOMAIN row = DOMAIN NoBinding
  BY DEF BindingRow
<1>2. /\ DOMAIN row2 = DOMAIN row
      /\ row2.enabled = ~row.enabled
      /\ \A c \in DOMAIN row \ {"enabled"} : row2[c] = row[c]
  BY <1>1 DEF NoBinding
<1>. HIDE DEF row2
<1>3. /\ row2.github_app_id = row.github_app_id /\ row2.repo = row.repo /\ row2.pipeline_file = row.pipeline_file
      /\ row2.timeout_seconds = row.timeout_seconds /\ row2.coolify_instance_id = row.coolify_instance_id
      /\ row2.shareable_logs = row.shareable_logs /\ row2.on_empty_pipeline = row.on_empty_pipeline
  BY <1>1, <1>2 DEF NoBinding
<1>4. BindingFit(db, row2)
  BY <1>2, <1>3 DEF BindingRow, BindingFit
<1>6. row2.enabled \in BOOLEAN
  BY <1>2
<1>5. BindingRow(db, row2)
  BY <1>2, <1>3, <1>4, <1>6 DEF BindingRow
<1>. QED BY <1>3, <1>5 DEF row2

LEMMA ToggleBindingSound ==
    ASSUME NEW db, Whole(db), NEW n, NEW answer \in ToggleBinding(db, n)
    PROVE  Sound(answer)
<1>. DEFINE row == [db.bindings[n] EXCEPT !.enabled = ~@]
<1>1. answer \in Refused(db) \/ (n \in DOMAIN db.bindings /\ answer = Answer(Upserted(db, row), At("repos"), "ok"))
  BY DEF ToggleBinding, IfFound
<1>2. CASE n \in DOMAIN db.bindings /\ answer = Answer(Upserted(db, row), At("repos"), "ok")
  <2>1. BindingRow(db, row)
    BY <1>2, TurnedRow, BindingRows
  <2>. HIDE DEF row
  <2>2. Counted(Upserted(db, row)) => Whole(Upserted(db, row))
    BY <2>1, UpsertedWhole
  <2>. QED BY <1>2, <2>2, AnswerSound, ReposLand
<1>. QED BY <1>1, <1>2, RefusedSound

LEMMA BindingGoneWhole ==
    ASSUME NEW db, Whole(db), NEW n
    PROVE  Whole([db EXCEPT !.bindings = Without(@, {n})])
<1>. DEFINE db2 == [db EXCEPT !.bindings = Without(@, {n})]
<1>1. /\ DOMAIN db2 = DOMAIN db /\ db2.next = db.next /\ db2.users = db.users /\ db2.docker = db.docker
      /\ db2.settings = db.settings /\ db2.apps = db.apps /\ db2.instances = db.instances /\ db2.jobs = db.jobs
      /\ db2.bindings = Without(db.bindings, {n})
  BY DEF Whole
<1>. HIDE DEF db2
<1>2. SameBut(db, db2, "bindings") /\ Later(db, db2) /\ Counted(db2)
  BY <1>1 DEF SameBut, Later, Whole, Counted
<1>3. Less(db.bindings, db2.bindings, {n})
  BY <1>1, WithoutLess
<1>4. Keys(db, db.bindings) /\ OneEach(db.bindings) /\ \A k \in DOMAIN db.bindings : BindingRow(db, db.bindings[k])
  BY BindingRows
<1>5. Keys(db2, db2.bindings)
  BY <1>1, <1>3, <1>4 DEF Keys, Less
<1>6. OneEach(db2.bindings) /\ \A k \in DOMAIN db2.bindings : BindingRow(db, db2.bindings[k])
  BY <1>3, <1>4 DEF OneEach, Less
<1>7. Whole(db2)
  BY <1>2, <1>5, <1>6, BindingsWhole
<1>. QED BY <1>7 DEF db2

LEMMA DeleteBindingSound ==
    ASSUME NEW db, Whole(db), NEW n, NEW answer \in DeleteBinding(db, n)
    PROVE  Sound(answer)
<1>. DEFINE db2 == [db EXCEPT !.bindings = Without(@, {n})]
<1>1. answer \in Refused(db) \/ answer = Answer(db2, At("repos"), "ok")
  BY DEF DeleteBinding, IfFound
<1>2. Whole(db2)
  BY BindingGoneWhole
<1>. HIDE DEF db2
<1>. QED BY <1>1, <1>2, RefusedSound, AnswerSound, ReposLand

\* What the picker does to the rows of the App.
Had(db, app) == {n \in DOMAIN db.bindings : db.bindings[n].github_app_id = app}
Unchecked(db, app, wanted) == {n \in Had(db, app) : db.bindings[n].repo \notin wanted}
New(db, app, wanted) == wanted \ {db.bindings[n].repo : n \in Had(db, app)}
Fresher(app, coolify, repo) ==
    [NoBinding EXCEPT !.github_app_id = app, !.coolify_instance_id = coolify, !.repo = repo, !.enabled = TRUE]
KeptRow(db, app, coolify, n) ==
    IF n \in Had(db, app) THEN Wanted(db.bindings[n], coolify) ELSE db.bindings[n]

\* The rows after it: these ids are new.
Picked(db, app, coolify, wanted, rows, ids) ==
    /\ DOMAIN rows = (DOMAIN db.bindings \ Unchecked(db, app, wanted)) \cup ids
    /\ \A n \in DOMAIN db.bindings \ Unchecked(db, app, wanted) :
           n \notin ids => rows[n] = KeptRow(db, app, coolify, n)
    /\ \A n \in ids : \E repo \in New(db, app, wanted) : rows[n] = Fresher(app, coolify, repo)
    /\ \A m, n \in ids : rows[m].repo = rows[n].repo => m = n

IsFresh(row, app, coolify, repo) ==
    /\ DOMAIN row = DOMAIN NoBinding /\ row.github_app_id = app /\ row.coolify_instance_id = coolify
    /\ row.repo = repo /\ row.enabled = TRUE /\ row.shareable_logs = FALSE
    /\ row.pipeline_file = "" /\ row.timeout_seconds = 0 /\ row.on_empty_pipeline = ""

LEMMA FresherIs == ASSUME NEW app, NEW coolify, NEW repo PROVE IsFresh(Fresher(app, coolify, repo), app, coolify, repo)
BY DEF IsFresh, Fresher, NoBinding

LEMMA BulkIs ==
    ASSUME NEW db, Whole(db), NEW app, NEW coolify, NEW wanted, wanted \subseteq Repos,
           NEW after \in Bulk(db, app, coolify, wanted)
    PROVE  \E c \in Nat : /\ SameBut(db, after, "bindings") /\ after.next = db.next + c
                          /\ Picked(db, app, coolify, wanted, after.bindings, db.next..(db.next + c - 1))
<1>. DEFINE have == {n \in DOMAIN db.bindings : db.bindings[n].github_app_id = app}
            unchecked == {n \in have : db.bindings[n].repo \notin wanted}
            added == wanted \ {db.bindings[n].repo : n \in have}
            c == Cardinality(added)
            blank(repo) == [NoBinding EXCEPT !.github_app_id = app, !.coolify_instance_id = coolify,
                                             !.repo = repo, !.enabled = TRUE]
            kept == [n \in DOMAIN db.bindings \ unchecked |->
                        IF n \in have THEN Wanted(db.bindings[n], coolify) ELSE db.bindings[n]]
            ids == db.next..(db.next + c - 1)
            rows(order) == With(kept, ids, LAMBDA n : blank(order[n]))
<1>1. have = Had(db, app) /\ unchecked = Unchecked(db, app, wanted) /\ added = New(db, app, wanted)
  BY DEF Had, Unchecked, New
<1>2. \A repo : blank(repo) = Fresher(app, coolify, repo)
  BY DEF Fresher
<1>3. DOMAIN kept = DOMAIN db.bindings \ unchecked
      /\ \A n \in DOMAIN db.bindings \ unchecked : kept[n] = KeptRow(db, app, coolify, n)
  BY <1>1 DEF KeptRow
<1>4. PICK order \in Bijection(ids, added) :
         after = [db EXCEPT !.bindings = rows(order), !.next = @ + c]
  BY DEF Bulk
<1>5. c \in Nat
  <2>1. IsFiniteSet(added)
    BY ReposAssumption, FS_Subset
  <2>. HIDE DEF added
  <2>. QED BY <2>1, FS_CardinalityType
<1>6. DOMAIN rows(order) = DOMAIN kept \cup ids
      /\ (\A n \in ids : rows(order)[n] = blank(order[n]))
      /\ \A n \in DOMAIN kept \ ids : rows(order)[n] = kept[n]
  <2>. HIDE DEF kept, ids, blank
  <2>. QED BY DEF With
<1>. DEFINE r == rows(order)
<1>7. r = rows(order)
  OBVIOUS
<1>. HIDE DEF r, rows, kept, blank, c, ids
<1>8. SameBut(db, after, "bindings") /\ after.next = db.next + c /\ after.bindings = r
  <2>1. /\ DOMAIN after = DOMAIN db /\ after.next = db.next + c /\ after.users = db.users /\ after.docker = db.docker
        /\ after.settings = db.settings /\ after.apps = db.apps /\ after.instances = db.instances
        /\ after.jobs = db.jobs /\ after.bindings = r
    BY <1>4, <1>7 DEF Whole
  <2>. QED BY <2>1 DEF SameBut
<1>. HIDE DEF have, unchecked, added
<1>9. \A n \in ids : order[n] \in added
  BY DEF Bijection, Injection
<1>10. \A m, n \in ids : order[m] = order[n] => m = n
  BY DEF Bijection, Injection, IsInjective
<1>11. DOMAIN r = (DOMAIN db.bindings \ unchecked) \cup ids
       /\ (\A n \in DOMAIN db.bindings \ unchecked : n \notin ids => r[n] = KeptRow(db, app, coolify, n))
  BY <1>3, <1>6, <1>7
<1>12. \A n \in ids : r[n] = Fresher(app, coolify, order[n]) /\ r[n].repo = order[n]
  <2>1. \A repo : IsFresh(Fresher(app, coolify, repo), app, coolify, repo)
    BY FresherIs
  <2>2. \A repo : Fresher(app, coolify, repo).repo = repo
    BY <2>1 DEF IsFresh
  <2>. QED BY <1>2, <1>6, <1>7, <2>2
<1>13. Picked(db, app, coolify, wanted, r, ids)
  BY <1>1, <1>9, <1>10, <1>11, <1>12 DEF Picked
<1>. QED BY <1>5, <1>8, <1>13 DEF ids

LEMMA WantedIs ==
    ASSUME NEW row, DOMAIN row = DOMAIN NoBinding, NEW coolify
    PROVE  /\ DOMAIN Wanted(row, coolify) = DOMAIN row /\ Wanted(row, coolify).enabled = TRUE
           /\ Wanted(row, coolify).coolify_instance_id = IF coolify # 0 THEN coolify ELSE row.coolify_instance_id
           /\ \A c \in DOMAIN row \ {"coolify_instance_id", "enabled"} : Wanted(row, coolify)[c] = row[c]
<1>1. "coolify_instance_id" \in DOMAIN row /\ "enabled" \in DOMAIN row
  BY DEF NoBinding
<1>. QED BY <1>1 DEF Wanted

LEMMA WantedRow ==
    ASSUME NEW db, NEW row, BindingRow(db, row), NEW coolify \in DOMAIN db.instances \cup {0}
    PROVE  /\ BindingRow(db, Wanted(row, coolify))
           /\ Wanted(row, coolify).github_app_id = row.github_app_id
           /\ Wanted(row, coolify).repo = row.repo
<1>. DEFINE row2 == Wanted(row, coolify)
<1>1. DOMAIN row = DOMAIN NoBinding
  BY DEF BindingRow
<1>2. /\ DOMAIN row2 = DOMAIN row
      /\ row2.enabled = TRUE
      /\ row2.coolify_instance_id = IF coolify # 0 THEN coolify ELSE row.coolify_instance_id
      /\ \A c \in DOMAIN row \ {"coolify_instance_id", "enabled"} : row2[c] = row[c]
  BY <1>1, WantedIs
<1>. HIDE DEF row2
<1>3. /\ row2.github_app_id = row.github_app_id /\ row2.repo = row.repo /\ row2.pipeline_file = row.pipeline_file
      /\ row2.timeout_seconds = row.timeout_seconds
      /\ row2.shareable_logs = row.shareable_logs /\ row2.on_empty_pipeline = row.on_empty_pipeline
  BY <1>1, <1>2 DEF NoBinding
<1>4. BindingFit(db, row2)
  BY <1>2, <1>3 DEF BindingRow, BindingFit
<1>5. row2.enabled \in BOOLEAN
  BY <1>2
<1>6. BindingRow(db, row2)
  BY <1>2, <1>3, <1>4, <1>5 DEF BindingRow
<1>. QED BY <1>3, <1>6 DEF row2

LEMMA FreshRow ==
    ASSUME NEW db, NEW app \in DOMAIN db.apps, NEW coolify \in DOMAIN db.instances \cup {0},
           NEW repo \in Repos, NEW row, IsFresh(row, app, coolify, repo)
    PROVE  BindingRow(db, row)
<1>1. /\ DOMAIN row = DOMAIN NoBinding /\ row.github_app_id = app /\ row.coolify_instance_id = coolify
      /\ row.repo = repo /\ row.enabled = TRUE /\ row.shareable_logs = FALSE
      /\ row.pipeline_file = "" /\ row.timeout_seconds = 0 /\ row.on_empty_pipeline = ""
  BY DEF IsFresh
<1>2. BindingFit(db, row)
  BY <1>1, ReposAssumption, UnfitAssumption DEF BindingFit
<1>3. row.timeout_seconds \in Numbers
  BY <1>1, ZeroIsANumber
<1>4. row.enabled \in BOOLEAN /\ row.shareable_logs \in BOOLEAN
  BY <1>1
<1>. QED BY <1>1, <1>2, <1>3, <1>4 DEF BindingRow

LEMMA FresherRow ==
    ASSUME NEW db, NEW app \in DOMAIN db.apps, NEW coolify \in DOMAIN db.instances \cup {0}, NEW repo \in Repos
    PROVE  BindingRow(db, Fresher(app, coolify, repo))
BY FresherIs, FreshRow

LEMMA PickedWhole ==
    ASSUME NEW db, Whole(db), NEW app, NEW coolify, NEW wanted, wanted \subseteq Repos,
           \A repo \in wanted : app \in DOMAIN db.apps /\ coolify \in DOMAIN db.instances \cup {0},
           NEW rows, NEW ids, \A n \in DOMAIN db.bindings : n \notin ids,
           Picked(db, app, coolify, wanted, rows, ids)
    PROVE  OneEach(rows) /\ \A n \in DOMAIN rows : BindingRow(db, rows[n])
<1>. DEFINE had == DOMAIN db.bindings \ Unchecked(db, app, wanted)
<1>1. OneEach(db.bindings) /\ \A k \in DOMAIN db.bindings : BindingRow(db, db.bindings[k])
  BY BindingRows
<1>2. /\ DOMAIN rows = had \cup ids
      /\ \A n \in had : rows[n] = KeptRow(db, app, coolify, n)
      /\ \A n \in ids : \E repo \in New(db, app, wanted) : rows[n] = Fresher(app, coolify, repo)
      /\ \A m, n \in ids : rows[m].repo = rows[n].repo => m = n
  BY DEF Picked
<1>3. ASSUME NEW n \in had
      PROVE  /\ BindingRow(db, rows[n]) /\ n \in DOMAIN db.bindings
             /\ rows[n].github_app_id = db.bindings[n].github_app_id /\ rows[n].repo = db.bindings[n].repo
  <2>1. CASE n \in Had(db, app)
    <3>1. db.bindings[n].repo \in wanted
      BY <2>1 DEF Unchecked
    <3>2. coolify \in DOMAIN db.instances \cup {0}
      BY <3>1
    <3>. QED BY <1>1, <1>2, <2>1, <3>2, WantedRow DEF KeptRow
  <2>2. CASE n \notin Had(db, app)
    BY <1>1, <1>2, <2>2 DEF KeptRow
  <2>. QED BY <2>1, <2>2
<1>4. ASSUME NEW n \in ids
      PROVE  /\ BindingRow(db, rows[n]) /\ rows[n].github_app_id = app
             /\ \A k \in Had(db, app) : rows[n].repo # db.bindings[k].repo
  <2>1. PICK repo \in New(db, app, wanted) : rows[n] = Fresher(app, coolify, repo)
    BY <1>2
  <2>2. repo \in wanted /\ \A k \in Had(db, app) : repo # db.bindings[k].repo
    BY DEF New
  <2>3. app \in DOMAIN db.apps /\ coolify \in DOMAIN db.instances \cup {0} /\ repo \in Repos
    BY <2>2
  <2>4. BindingRow(db, rows[n])
    BY <2>1, <2>3, FresherRow
  <2>5. rows[n].github_app_id = app /\ rows[n].repo = repo
    <3>1. IsFresh(rows[n], app, coolify, repo)
      BY <2>1, FresherIs
    <3>. QED BY <3>1 DEF IsFresh
  <2>. QED BY <2>2, <2>4, <2>5
<1>5. ASSUME NEW m \in had, NEW n \in ids, rows[m].github_app_id = rows[n].github_app_id, rows[m].repo = rows[n].repo
      PROVE  FALSE
  <2>1. m \in Had(db, app)
    BY <1>3, <1>4, <1>5 DEF Had
  <2>. QED BY <1>3, <1>4, <1>5, <2>1
<1>6. OneEach(rows)
  <2>. SUFFICES ASSUME NEW m \in DOMAIN rows, NEW n \in DOMAIN rows, m # n,
                       rows[m].github_app_id = rows[n].github_app_id, rows[m].repo = rows[n].repo
                PROVE  FALSE
    BY DEF OneEach
  <2>1. CASE m \in had /\ n \in had
    BY <1>1, <1>3, <2>1 DEF OneEach
  <2>2. CASE m \in ids /\ n \in ids
    BY <1>2, <2>2
  <2>. HIDE DEF had
  <2>. QED BY <1>2, <1>5, <2>1, <2>2
<1>. QED BY <1>2, <1>3, <1>4, <1>6

LEMMA BulkWhole ==
    ASSUME NEW db, Whole(db), NEW app, NEW coolify, NEW wanted, wanted \subseteq Repos,
           \A repo \in wanted : app \in DOMAIN db.apps /\ coolify \in DOMAIN db.instances \cup {0},
           NEW after \in Bulk(db, app, coolify, wanted), Counted(after)
    PROVE  Whole(after)
<1>1. PICK c \in Nat : /\ SameBut(db, after, "bindings") /\ after.next = db.next + c
                       /\ Picked(db, app, coolify, wanted, after.bindings, db.next..(db.next + c - 1))
  BY BulkIs
<1>2. db.next \in Nat \ {0} /\ DOMAIN db.bindings \subseteq 1..(db.next - 1)
  BY DEF Whole, WholeBindings, Keys
<1>. DEFINE ids == db.next..(db.next + c - 1)
<1>3. \A n \in DOMAIN db.bindings : n \notin ids
  BY <1>2
<1>4. Later(db, after)
  BY <1>1, <1>2 DEF Later
<1>5. Keys(after, after.bindings)
  <2>1. DOMAIN after.bindings \subseteq DOMAIN db.bindings \cup ids
    BY <1>1 DEF Picked
  <2>2. DOMAIN db.bindings \cup ids \subseteq 1..(after.next - 1)
    BY <1>1, <1>2
  <2>. QED BY <2>1, <2>2 DEF Keys
<1>. HIDE DEF ids
<1>6. Picked(db, app, coolify, wanted, after.bindings, ids)
  BY <1>1 DEF ids
<1>7. OneEach(after.bindings) /\ \A n \in DOMAIN after.bindings : BindingRow(db, after.bindings[n])
  BY <1>3, <1>6, PickedWhole
<1>. QED BY <1>1, <1>4, <1>5, <1>7, BindingsWhole

LEMMA BulkBindingsSound ==
    ASSUME NEW db, Whole(db), NEW in, StrList(in, "repo") \subseteq Repos, NEW answer \in BulkBindings(db, in)
    PROVE  Sound(answer)
<1>. DEFINE app == IntOf(in, "github_app_id", 0)
            coolify == IntOf(in, "coolify_instance_id", 0)
            wanted == StrList(in, "repo")
<1>1. \/ answer \in Refused(db)
      \/ /\ wanted # {} => app \in DOMAIN db.apps /\ coolify \in DOMAIN db.instances \cup {0}
         /\ answer \in {Answer(after, At("repos"), "ok") : after \in Bulk(db, app, coolify, wanted)}
  BY DEF BulkBindings, IfFit
<1>. HIDE DEF app, coolify
<1>2. CASE /\ wanted # {} => app \in DOMAIN db.apps /\ coolify \in DOMAIN db.instances \cup {0}
           /\ answer \in {Answer(after, At("repos"), "ok") : after \in Bulk(db, app, coolify, wanted)}
  <2>1. PICK after \in Bulk(db, app, coolify, wanted) : answer = Answer(after, At("repos"), "ok")
    BY <1>2
  <2>2. \A repo \in wanted : app \in DOMAIN db.apps /\ coolify \in DOMAIN db.instances \cup {0}
    BY <1>2
  <2>3. wanted \subseteq Repos
    OBVIOUS
  <2>. HIDE DEF wanted
  <2>4. Counted(after) => Whole(after)
    BY <2>2, <2>3, BulkWhole
  <2>. QED BY <2>1, <2>4, AnswerSound, ReposLand
<1>. QED BY <1>1, <1>2, RefusedSound

LEMMA JobsLand == Lands(At("jobs"))
BY PlainLands DEF PageNames

LEMMA JobsWhole ==
    ASSUME NEW db, Whole(db), NEW db2, Counted(db2), SameBut(db, db2, "jobs"), Later(db, db2), WholeJobs(db2)
    PROVE  Whole(db2)
<1>1. /\ db.next \in Nat \ {0} /\ DOMAIN db2 = DOMAIN db
      /\ db2.users = db.users /\ db2.docker = db.docker /\ db2.settings = db.settings
      /\ db2.apps = db.apps /\ db2.instances = db.instances /\ db2.bindings = db.bindings
  BY DEF Whole, SameBut
<1>2. \A rows : Keys(db, rows) => Keys(db2, rows)
  BY <1>1, KeysStay
<1>3. WholeApps(db2)
  BY <1>1, <1>2 DEF Whole, WholeApps, SlugFree
<1>4. WholeInstances(db2)
  BY <1>1, <1>2 DEF Whole, WholeInstances
<1>5. WholeBindings(db2)
  BY <1>1, <1>2 DEF Whole, WholeBindings, BindingRow, BindingFit, SameKey
<1>6. DOMAIN db2 = DOMAIN db /\ SettingsRow(db2.settings) /\ db2.users \in BOOLEAN /\ db2.docker \in BOOLEAN
       /\ db2.next \in Nat \ {0}
  BY <1>1 DEF Whole, Later
<1>. QED BY <1>3, <1>4, <1>5, <1>6 DEF Whole

LEMMA JobRow ==
    ASSUME NEW db, Whole(db)
    PROVE  /\ db.jobs \in Seq(JobRows) /\ Len(db.jobs) \in Nat /\ DOMAIN db.jobs = 1..Len(db.jobs)
           /\ \A i \in DOMAIN db.jobs : db.jobs[i] \in JobRows /\ db.jobs[i].id \in Nat /\ db.jobs[i].id < db.next
           /\ \A i, k \in DOMAIN db.jobs : db.jobs[i].id = db.jobs[k].id => i = k
<1>1. db.jobs \in Seq(JobRows) /\ \A i \in DOMAIN db.jobs : db.jobs[i].id < db.next
  BY DEF Whole, WholeJobs
<1>2. Len(db.jobs) \in Nat /\ DOMAIN db.jobs = 1..Len(db.jobs)
  BY <1>1
<1>3. \A i \in DOMAIN db.jobs : db.jobs[i] \in JobRows
  BY <1>1
<1>4. \A job \in JobRows : job.id \in Nat
  BY DEF JobRows
<1>5. \A i, k \in DOMAIN db.jobs : db.jobs[i].id = db.jobs[k].id => i = k
  BY DEF Whole, WholeJobs
<1>. QED BY <1>1, <1>2, <1>3, <1>4, <1>5

LEMMA Prepended ==
    ASSUME NEW S, NEW jobs \in Seq(S), NEW row \in S
    PROVE  LET all == <<row>> \o jobs
           IN /\ all \in Seq(S) /\ DOMAIN all = 1..(Len(jobs) + 1) /\ all[1] = row
              /\ \A i \in DOMAIN all : i # 1 => i - 1 \in DOMAIN jobs /\ all[i] = jobs[i - 1]
<1>1. <<row>> \in Seq(S) /\ Len(<<row>>) = 1 /\ <<row>>[1] = row
  OBVIOUS
<1>. DEFINE one == <<row>>
<1>2. one \in Seq(S) /\ Len(one) = 1 /\ one[1] = row
  BY <1>1
<1>. HIDE DEF one
<1>0. Len(jobs) \in Nat
  OBVIOUS
<1>5. /\ one \o jobs \in Seq(S) /\ Len(one \o jobs) = Len(one) + Len(jobs)
      /\ \A i \in 1..(Len(one) + Len(jobs)) :
            (one \o jobs)[i] = IF i <= Len(one) THEN one[i] ELSE jobs[i - Len(one)]
  BY <1>2, ConcatProperties
<1>3. /\ one \o jobs \in Seq(S) /\ Len(one \o jobs) = Len(jobs) + 1
      /\ \A i \in 1..(Len(jobs) + 1) : (one \o jobs)[i] = IF i <= 1 THEN one[i] ELSE jobs[i - 1]
  BY <1>0, <1>2, <1>5
<1>4. DOMAIN (one \o jobs) = 1..(Len(jobs) + 1) /\ DOMAIN jobs = 1..Len(jobs) /\ Len(jobs) \in Nat
  BY <1>3
<1>. QED BY <1>2, <1>3, <1>4 DEF one

LEMMA JobArrivesWhole ==
    ASSUME NEW db, Whole(db), NEW row \in JobRows, row.id = db.next,
           NEW db2, Counted(db2), SameBut(db, db2, "jobs"), db2.next = db.next + 1, db2.jobs = <<row>> \o db.jobs
    PROVE  Whole(db2)
<1>1. db.next \in Nat
  BY DEF Whole
<1>2. Later(db, db2)
  BY <1>1 DEF Later
<1>3. /\ db.jobs \in Seq(JobRows) /\ Len(db.jobs) \in Nat /\ DOMAIN db.jobs = 1..Len(db.jobs)
      /\ \A i \in DOMAIN db.jobs : db.jobs[i].id \in Nat /\ db.jobs[i].id < db.next
      /\ \A i, k \in DOMAIN db.jobs : db.jobs[i].id = db.jobs[k].id => i = k
  BY JobRow
<1>. DEFINE jobs == db.jobs
<1>4. /\ jobs \in Seq(JobRows) /\ Len(jobs) \in Nat /\ DOMAIN jobs = 1..Len(jobs)
      /\ \A i \in DOMAIN jobs : jobs[i].id \in Nat /\ jobs[i].id < db.next
      /\ \A i, k \in DOMAIN jobs : jobs[i].id = jobs[k].id => i = k
  BY <1>3
<1>. HIDE DEF jobs
<1>5. /\ db2.jobs \in Seq(JobRows) /\ db2.jobs[1] = row
      /\ \A i \in DOMAIN db2.jobs : i \in Int /\ (i # 1 => i - 1 \in DOMAIN jobs /\ db2.jobs[i] = jobs[i - 1])
  <2>1. db2.jobs = <<row>> \o jobs
    BY DEF jobs
  <2>2. DOMAIN db2.jobs = 1..(Len(jobs) + 1)
    BY <1>4, <2>1, Prepended
  <2>3. \A i \in DOMAIN db2.jobs : i \in Int
    BY <1>4, <2>2
  <2>. DEFINE all == <<row>> \o jobs
  <2>4. /\ all \in Seq(JobRows) /\ all[1] = row
        /\ \A i \in DOMAIN all : i # 1 => i - 1 \in DOMAIN jobs /\ all[i] = jobs[i - 1]
    BY <1>4, Prepended
  <2>5. db2.jobs = all
    BY <2>1
  <2>. HIDE DEF all
  <2>. QED BY <2>3, <2>4, <2>5
<1>6. \A i \in DOMAIN db2.jobs : db2.jobs[i].id < db2.next
  <2>1. ASSUME NEW i \in DOMAIN db2.jobs
        PROVE  db2.jobs[i].id < db2.next
    <3>1. db2.jobs[1].id = db.next
      BY <1>5
    <3>2. CASE i # 1
      <4>1. db2.jobs[i] = jobs[i - 1] /\ i - 1 \in DOMAIN jobs
        BY <1>5, <3>2
      <4>2. db2.jobs[i].id \in Nat /\ db2.jobs[i].id < db.next
        BY <1>4, <4>1
      <4>. QED BY <1>1, <4>2
    <3>. QED BY <1>1, <3>1, <3>2
  <2>. QED BY <2>1
<1>7. \A i \in DOMAIN db2.jobs : db2.jobs[i].id = db.next => i = 1
  <2>1. ASSUME NEW i \in DOMAIN db2.jobs, i # 1
        PROVE  db2.jobs[i].id # db.next
    <3>1. db2.jobs[i] = jobs[i - 1] /\ i - 1 \in DOMAIN jobs
      BY <1>5, <2>1
    <3>2. db2.jobs[i].id \in Nat /\ db2.jobs[i].id < db.next
      BY <1>4, <3>1
    <3>. QED BY <1>1, <3>2
  <2>. QED BY <2>1
<1>8. \A i, k \in DOMAIN db2.jobs : db2.jobs[i].id = db2.jobs[k].id => i = k
  <2>. SUFFICES ASSUME NEW i \in DOMAIN db2.jobs, NEW k \in DOMAIN db2.jobs, db2.jobs[i].id = db2.jobs[k].id
                PROVE  i = k
    OBVIOUS
  <2>0. db2.jobs[1].id = db.next
    BY <1>5
  <2>1. CASE i = 1 \/ k = 1
    BY <1>7, <2>0, <2>1
  <2>2. CASE i # 1 /\ k # 1
    <3>1. /\ i - 1 \in DOMAIN jobs /\ db2.jobs[i] = jobs[i - 1]
          /\ k - 1 \in DOMAIN jobs /\ db2.jobs[k] = jobs[k - 1]
      BY <1>5, <2>2
    <3>2. i - 1 = k - 1
      BY <1>4, <3>1
    <3>3. i \in Int /\ k \in Int
      BY <1>5
    <3>. QED BY <3>2, <3>3
  <2>. QED BY <2>1, <2>2
<1>9. WholeJobs(db2)
  BY <1>5, <1>6, <1>8 DEF WholeJobs
<1>. QED BY <1>2, <1>9, JobsWhole

\* The jobs are those, whatever became of them.
LEMMA JobsMoveWhole ==
    ASSUME NEW db, Whole(db), NEW db2, SameBut(db, db2, "jobs"), db2.next = db.next,
           db2.jobs \in Seq(JobRows), DOMAIN db2.jobs \subseteq DOMAIN db.jobs,
           \A i \in DOMAIN db2.jobs : db2.jobs[i].id = db.jobs[i].id
    PROVE  Whole(db2)
<1>1. Later(db, db2) /\ Counted(db2)
  BY DEF Later, Whole, Counted
<1>2. /\ \A i \in DOMAIN db.jobs : db.jobs[i].id < db.next
      /\ \A i, k \in DOMAIN db.jobs : db.jobs[i].id = db.jobs[k].id => i = k
  BY JobRow
<1>3. WholeJobs(db2)
  BY <1>2 DEF WholeJobs
<1>. QED BY <1>1, <1>3, JobsWhole

LEMMA RerunJobSound ==
    ASSUME NEW db, Whole(db), NEW n, NEW answer \in RerunJob(db, n)
    PROVE  Sound(answer)
<1>. DEFINE again(j, b) == [j EXCEPT !.id = db.next, !.status = "queued", !.shareable = db.bindings[b].shareable_logs]
            after(j, b) == [db EXCEPT !.jobs = <<again(j, b)>> \o @, !.next = @ + 1]
<1>1. \/ answer \in Refused(db) \/ answer = Answer(db, At("jobs"), "err")
      \/ \E j \in Job(db, n) : \E b \in EnabledBinding(db, j) : answer = Answer(after(j, b), At("jobs"), "ok")
  BY DEF RerunJob, IfFound
<1>2. ASSUME NEW j \in Job(db, n), NEW b \in EnabledBinding(db, j), answer = Answer(after(j, b), At("jobs"), "ok")
      PROVE  Sound(answer)
  <2>1. j \in JobRows
    BY JobRow DEF Job, Elements
  <2>2. db.bindings[b].shareable_logs \in BOOLEAN
    BY BindingRows DEF EnabledBinding, BindingRow
  <2>3. db.next \in Nat /\ "queued" \in Statuses
    BY DEF Whole, Statuses
  <2>. DEFINE row == again(j, b)
              db2 == after(j, b)
  <2>4. row \in JobRows /\ row.id = db.next
    <3>. DEFINE shareable == db.bindings[b].shareable_logs
                next == db.next
    <3>1. next \in Nat /\ shareable \in BOOLEAN
      BY <2>2, <2>3
    <3>2. row = [j EXCEPT !.id = next, !.status = "queued", !.shareable = shareable]
      OBVIOUS
    <3>. HIDE DEF shareable, row, next
    <3>3. row \in JobRows /\ row.id = next
      BY <2>1, <2>3, <3>1, <3>2 DEF JobRows
    <3>. QED BY <3>3 DEF next
  <2>. HIDE DEF again
  <2>5. /\ DOMAIN db2 = DOMAIN db /\ db2.next = db.next + 1 /\ db2.users = db.users /\ db2.docker = db.docker
        /\ db2.settings = db.settings /\ db2.apps = db.apps /\ db2.instances = db.instances
        /\ db2.bindings = db.bindings /\ db2.jobs = <<row>> \o db.jobs
    BY DEF Whole
  <2>6. answer = Answer(db2, At("jobs"), "ok")
    BY <1>2
  <2>. HIDE DEF row, db2
  <2>7. SameBut(db, db2, "jobs")
    BY <2>5 DEF SameBut
  <2>8. Counted(db2) => Whole(db2)
    BY <2>4, <2>5, <2>7, JobArrivesWhole
  <2>. QED BY <2>6, <2>8, AnswerSound, JobsLand
<1>. HIDE DEF after
<1>. QED BY <1>1, <1>2, RefusedSound, AnswerSound, JobsLand

LEMMA CancelledWhole == ASSUME NEW db, Whole(db), NEW n PROVE Whole(Cancelled(db, n))
<1>. DEFINE db2 == Cancelled(db, n)
<1>1. /\ DOMAIN db2 = DOMAIN db /\ db2.next = db.next /\ db2.users = db.users /\ db2.docker = db.docker
      /\ db2.settings = db.settings /\ db2.apps = db.apps /\ db2.instances = db.instances
      /\ db2.bindings = db.bindings
      /\ db2.jobs = [i \in DOMAIN db.jobs |-> IF db.jobs[i].id = n /\ db.jobs[i].status = "queued"
                                              THEN [db.jobs[i] EXCEPT !.status = "cancelled"] ELSE db.jobs[i]]
  BY DEF Whole, Cancelled
<1>. HIDE DEF db2
<1>2. "cancelled" \in Statuses
  BY DEF Statuses
<1>3. \A i \in DOMAIN db.jobs : db2.jobs[i] \in JobRows /\ db2.jobs[i].id = db.jobs[i].id
  <2>1. \A i \in DOMAIN db.jobs : db.jobs[i] \in JobRows
    BY JobRow
  <2>2. \A job \in JobRows : [job EXCEPT !.status = "cancelled"] \in JobRows
                             /\ [job EXCEPT !.status = "cancelled"].id = job.id
    BY <1>2 DEF JobRows
  <2>. QED BY <1>1, <2>1, <2>2
<1>4. Len(db.jobs) \in Nat /\ DOMAIN db2.jobs = 1..Len(db.jobs) /\ DOMAIN db2.jobs = DOMAIN db.jobs
  BY <1>1, JobRow
<1>5. db2.jobs \in Seq(JobRows)
  <2>1. db2.jobs = [i \in 1..Len(db.jobs) |-> db2.jobs[i]]
    BY <1>1, <1>4
  <2>. QED BY <1>3, <1>4, <2>1
<1>6. SameBut(db, db2, "jobs")
  BY <1>1 DEF SameBut
<1>7. Whole(db2)
  BY <1>1, <1>3, <1>4, <1>5, <1>6, JobsMoveWhole
<1>. QED BY <1>7 DEF db2

LEMMA CancelJobSound ==
    ASSUME NEW db, Whole(db), NEW n, NEW answer \in CancelJob(db, n)
    PROVE  Sound(answer)
<1>1. answer \in Refused(db) \/ answer = Answer(db, At("jobs"), "err")
      \/ answer = Answer(Cancelled(db, n), At("jobs"), "ok")
  BY DEF CancelJob, IfFound
<1>2. Whole(Cancelled(db, n))
  BY CancelledWhole
<1>. QED BY <1>1, <1>2, RefusedSound, AnswerSound, JobsLand

-----------------------------------------------------------------------------
(* The tables a handler writes, and for whom.                              *)

Tables == {"users", "docker", "settings", "apps", "instances", "bindings", "jobs"}
Writes(db, db2, tables) == \A t \in Tables \ tables : db2[t] = db[t]
Mine(db, answer, tables) == answer.user = TRUE /\ Writes(db, answer.d, tables)

LEMMA AnswerMine ==
    ASSUME NEW db, NEW db2, NEW tables, Writes(db, db2, tables), NEW to, NEW notice
    PROVE  Mine(db, Answer(db2, to, notice), tables)
<1>1. Answer(db2, to, notice).user = TRUE /\ Answer(db2, to, notice).d = db2
  BY DEF Answer
<1>. QED BY <1>1 DEF Mine

LEMMA NoWrites == ASSUME NEW db, NEW tables PROVE Writes(db, db, tables)
BY DEF Writes

LEMMA RefusedMine == ASSUME NEW db, NEW tables, NEW answer \in Refused(db) PROVE Mine(db, answer, tables)
BY AnswerMine, NoWrites DEF Refused

LEMMA TriedMine ==
    ASSUME NEW db, NEW db2, NEW tables, Writes(db, db2, tables), NEW to, NEW answer \in Tried(db2, to)
    PROVE  Mine(db, answer, tables)
BY AnswerMine DEF Tried

LEMMA SameButWrites ==
    ASSUME NEW db, NEW db2, NEW table \in {"apps", "instances", "bindings", "jobs"}, SameBut(db, db2, table)
    PROVE  Writes(db, db2, {table})
BY DEF SameBut, Writes, Tables

LEMMA PatchSettingsMine ==
    ASSUME NEW db, Whole(db), NEW in, NEW answer \in PatchSettings(db, in)
    PROVE  Mine(db, answer, {"settings"})
<1>1. answer \in Refused(db) \/ \E s : answer = Answer([db EXCEPT !.settings = s], SettingsNext(in), "ok")
  BY DEF PatchSettings, IfFit
<1>2. \A s : Writes(db, [db EXCEPT !.settings = s], {"settings"})
  BY DEF Writes, Tables, Whole
<1>. QED BY <1>1, <1>2, RefusedMine, AnswerMine

LEMMA CreatedWrites == ASSUME NEW db, Whole(db), NEW row PROVE Writes(db, Created(db, row), {"apps"})
BY DEF Created, Writes, Tables, Whole

LEMMA AppsMine ==
    ASSUME NEW db, Whole(db), NEW n, NEW in, NEW answer,
           \/ answer \in CreateApp(db, in) \/ answer \in CallbackAppManifest(db, in)
           \/ answer \in UpdateApp(db, n, in) \/ answer \in TestApp(db, n) \/ answer \in StartAppManifest(db)
    PROVE  Mine(db, answer, {"apps"})
<1>1. CASE answer \in CreateApp(db, in)
  <2>1. answer \in Refused(db) \/ \E row : answer \in Tried(Created(db, row), At("apps"))
    BY <1>1 DEF CreateApp, IfFit
  <2>. QED BY <2>1, RefusedMine, TriedMine, CreatedWrites
<1>2. CASE answer \in CallbackAppManifest(db, in)
  <2>1. answer = Answer(db, At("error"), "") \/ answer \in Refused(db) \/ \E row : answer \in Tried(Created(db, row), At("apps"))
    BY <1>2 DEF CallbackAppManifest, IfFit
  <2>. QED BY <2>1, RefusedMine, TriedMine, AnswerMine, CreatedWrites, NoWrites
<1>3. CASE answer \in UpdateApp(db, n, in)
  <2>1. answer \in Refused(db) \/ \E row : answer = Answer([db EXCEPT !.apps[n] = row], At("apps"), "ok")
    BY <1>3 DEF UpdateApp, IfFound, IfFit
  <2>2. \A row : Writes(db, [db EXCEPT !.apps[n] = row], {"apps"})
    BY DEF Writes, Tables, Whole
  <2>3. answer \in Refused(db) \/ \E db2 : Writes(db, db2, {"apps"}) /\ answer = Answer(db2, At("apps"), "ok")
    BY <2>1, <2>2
  <2>. QED BY <2>3, RefusedMine, AnswerMine
<1>4. CASE answer \in TestApp(db, n)
  <2>1. answer \in Tried(db, At("apps")) \/ answer = Answer(db, At("apps"), "err")
    BY <1>4 DEF TestApp
  <2>. QED BY <2>1, TriedMine, AnswerMine, NoWrites
<1>5. CASE answer \in StartAppManifest(db)
  <2>1. answer \in Refused(db) \/ answer = Answer(db, At("github"), "")
    BY <1>5 DEF StartAppManifest
  <2>. QED BY <2>1, RefusedMine, AnswerMine, NoWrites
<1>. QED BY <1>1, <1>2, <1>3, <1>4, <1>5

LEMMA DeleteAppMine ==
    ASSUME NEW db, Whole(db), NEW n, NEW answer \in DeleteApp(db, n)
    PROVE  Mine(db, answer, {"apps", "bindings"})
<1>1. answer \in Refused(db) \/ answer = Answer(DeletedApp(db, n), At("apps"), "ok")
  BY DEF DeleteApp, IfFound
<1>2. Writes(db, DeletedApp(db, n), {"apps", "bindings"})
  BY DEF Writes, Tables, Whole, DeletedApp
<1>. QED BY <1>1, <1>2, RefusedMine, AnswerMine

LEMMA CoolifyMine ==
    ASSUME NEW db, Whole(db), NEW n, NEW in, NEW answer,
           \/ answer \in CreateCoolify(db, in) \/ answer \in UpdateCoolify(db, n, in)
           \/ answer \in TestCoolify(db, n) \/ answer \in InstallWorkerOn(db, n, in)
    PROVE  Mine(db, answer, {"instances"})
<1>1. CASE answer \in CreateCoolify(db, in)
  <2>1. answer \in Refused(db)
        \/ \E rows : answer \in Tried([db EXCEPT !.instances = rows, !.next = @ + 1], At("coolify"))
    BY <1>1 DEF CreateCoolify, IfFit
  <2>2. \A rows : Writes(db, [db EXCEPT !.instances = rows, !.next = @ + 1], {"instances"})
    BY DEF Writes, Tables, Whole
  <2>. QED BY <2>1, <2>2, RefusedMine, TriedMine
<1>2. CASE answer \in UpdateCoolify(db, n, in)
  <2>1. answer \in Refused(db) \/ \E row : answer = Answer([db EXCEPT !.instances[n] = row], At("coolify"), "ok")
    BY <1>2 DEF UpdateCoolify, IfFound, IfFit
  <2>2. \A row : Writes(db, [db EXCEPT !.instances[n] = row], {"instances"})
    BY DEF Writes, Tables, Whole
  <2>3. answer \in Refused(db) \/ \E db2 : Writes(db, db2, {"instances"}) /\ answer = Answer(db2, At("coolify"), "ok")
    BY <2>1, <2>2
  <2>. QED BY <2>3, RefusedMine, AnswerMine
<1>3. CASE answer \in TestCoolify(db, n)
  <2>1. answer \in Tried(db, At("coolify")) \/ answer = Answer(db, At("coolify"), "err")
    BY <1>3 DEF TestCoolify
  <2>. QED BY <2>1, TriedMine, AnswerMine, NoWrites
<1>4. CASE answer \in InstallWorkerOn(db, n, in)
  <2>1. answer \in Refused(db) \/ answer \in Tried(db, [At("coolify") EXCEPT !.inspect = n])
    BY <1>4 DEF InstallWorkerOn, IfFound, IfFit
  <2>. QED BY <2>1, TriedMine, RefusedMine, NoWrites
<1>. QED BY <1>1, <1>2, <1>3, <1>4

LEMMA DeleteCoolifyMine ==
    ASSUME NEW db, Whole(db), NEW n, NEW answer \in DeleteCoolify(db, n)
    PROVE  Mine(db, answer, {"instances", "bindings"})
<1>1. answer \in Refused(db) \/ answer = Answer(DeletedInstance(db, n), At("coolify"), "ok")
  BY DEF DeleteCoolify, IfFound
<1>2. Writes(db, DeletedInstance(db, n), {"instances", "bindings"})
  BY DEF Writes, Tables, Whole, DeletedInstance
<1>. QED BY <1>1, <1>2, RefusedMine, AnswerMine

LEMMA UpsertedMine ==
    ASSUME NEW db, Whole(db), NEW row, NEW to, NEW notice
    PROVE  Mine(db, Answer(Upserted(db, row), to, notice), {"bindings"})
<1>1. SameBut(db, Upserted(db, row), "bindings")
  BY UpsertedIs
<1>. QED BY <1>1, SameButWrites, AnswerMine

LEMMA DeleteBindingMine ==
    ASSUME NEW db, Whole(db), NEW n, NEW answer \in DeleteBinding(db, n)
    PROVE  Mine(db, answer, {"bindings"})
<1>1. answer \in Refused(db) \/ \E rows : answer = Answer([db EXCEPT !.bindings = rows], At("repos"), "ok")
  BY DEF DeleteBinding, IfFound
<1>2. \A rows : Writes(db, [db EXCEPT !.bindings = rows], {"bindings"})
  BY DEF Writes, Tables, Whole
<1>. QED BY <1>1, <1>2, RefusedMine, AnswerMine

LEMMA BulkBindingsMine ==
    ASSUME NEW db, Whole(db), NEW in, StrList(in, "repo") \subseteq Repos, NEW answer \in BulkBindings(db, in)
    PROVE  Mine(db, answer, {"bindings"})
<1>. DEFINE wanted == StrList(in, "repo")
<1>0. wanted \subseteq Repos
  OBVIOUS
<1>1. \/ answer \in Refused(db)
      \/ \E app, coolify : \E after \in Bulk(db, app, coolify, wanted) : answer = Answer(after, At("repos"), "ok")
  BY DEF BulkBindings, IfFit
<1>. HIDE DEF wanted
<1>2. ASSUME NEW app, NEW coolify, NEW after \in Bulk(db, app, coolify, wanted)
      PROVE  Writes(db, after, {"bindings"})
  <2>1. SameBut(db, after, "bindings")
    BY <1>0, BulkIs
  <2>. QED BY <2>1, SameButWrites
<1>. QED BY <1>1, <1>2, RefusedMine, AnswerMine

LEMMA JobsMine ==
    ASSUME NEW db, Whole(db), NEW n, NEW answer, answer \in RerunJob(db, n) \/ answer \in CancelJob(db, n)
    PROVE  Mine(db, answer, {"jobs"})
<1>0. \A jobs : Writes(db, [db EXCEPT !.jobs = jobs, !.next = @ + 1], {"jobs"})
  BY DEF Writes, Tables, Whole
<1>1. CASE answer \in RerunJob(db, n)
  <2>1. \/ answer \in Refused(db) \/ answer = Answer(db, At("jobs"), "err")
        \/ \E jobs : answer = Answer([db EXCEPT !.jobs = jobs, !.next = @ + 1], At("jobs"), "ok")
    BY <1>1 DEF RerunJob, IfFound
  <2>2. \/ answer \in Refused(db) \/ answer = Answer(db, At("jobs"), "err")
        \/ \E db2 : Writes(db, db2, {"jobs"}) /\ answer = Answer(db2, At("jobs"), "ok")
    BY <1>0, <2>1
  <2>. QED BY <2>2, RefusedMine, AnswerMine, NoWrites
<1>2. CASE answer \in CancelJob(db, n)
  <2>1. \/ answer \in Refused(db) \/ answer = Answer(db, At("jobs"), "err")
        \/ answer = Answer(Cancelled(db, n), At("jobs"), "ok")
    BY <1>2 DEF CancelJob, IfFound
  <2>2. Writes(db, Cancelled(db, n), {"jobs"})
    BY DEF Writes, Tables, Whole, Cancelled
  <2>. QED BY <2>1, <2>2, RefusedMine, AnswerMine, NoWrites
<1>. QED BY <1>1, <1>2

LEMMA DispatchIs ==
    ASSUME NEW form, NEW in
    PROVE  /\ form.to = "settings" => Dispatch(form, in) = PatchSettings(d, in)
           /\ form.to = "password" => Dispatch(form, in) = ChangePassword(d)
           /\ form.to = "coolify.create" => Dispatch(form, in) = CreateCoolify(d, in)
           /\ form.to = "coolify.update" => Dispatch(form, in) = UpdateCoolify(d, form.id, in)
           /\ form.to = "coolify.test" => Dispatch(form, in) = TestCoolify(d, form.id)
           /\ form.to = "coolify.delete" => Dispatch(form, in) = DeleteCoolify(d, form.id)
           /\ form.to = "coolify.install" => Dispatch(form, in) = InstallWorkerOn(d, form.id, in)
           /\ form.to = "apps.create" => Dispatch(form, in) = CreateApp(d, in)
           /\ form.to = "apps.update" => Dispatch(form, in) = UpdateApp(d, form.id, in)
           /\ form.to = "apps.test" => Dispatch(form, in) = TestApp(d, form.id)
           /\ form.to = "apps.delete" => Dispatch(form, in) = DeleteApp(d, form.id)
           /\ form.to = "apps.manifest" => Dispatch(form, in) = StartAppManifest(d)
           /\ form.to = "apps.callback" => Dispatch(form, in) = CallbackAppManifest(d, in)
           /\ form.to = "bindings.upsert" => Dispatch(form, in) = UpsertBinding(d, in)
           /\ form.to = "bindings.bulk" => Dispatch(form, in) = BulkBindings(d, in)
           /\ form.to = "bindings.toggle" => Dispatch(form, in) = ToggleBinding(d, form.id)
           /\ form.to = "bindings.delete" => Dispatch(form, in) = DeleteBinding(d, form.id)
           /\ form.to = "jobs.rerun" => Dispatch(form, in) = RerunJob(d, form.id)
           /\ form.to = "jobs.cancel" => Dispatch(form, in) = CancelJob(d, form.id)
BY DEF Dispatch

\* What a form is read as.
Readable(to, in) ==
    /\ to = "apps.callback" => Str(in, "slug") \notin {"", Unfit}
    /\ to = "bindings.upsert" => Str(in, "repo") \in Repos /\ Str(in, "on_empty_pipeline") \in {"skip", "fail"}
    /\ to = "bindings.bulk" => StrList(in, "repo") \subseteq Repos

Sent == Actions \ {"login", "setup", "logout"}

Written(to) ==
    CASE to = "settings" -> {"settings"}
      [] to \in {"coolify.create", "coolify.update", "coolify.test", "coolify.install"} -> {"instances"}
      [] to = "coolify.delete" -> {"instances", "bindings"}
      [] to \in {"apps.create", "apps.update", "apps.test", "apps.manifest", "apps.callback"} -> {"apps"}
      [] to = "apps.delete" -> {"apps", "bindings"}
      [] to \in {"bindings.upsert", "bindings.bulk", "bindings.toggle", "bindings.delete"} -> {"bindings"}
      [] to \in {"jobs.rerun", "jobs.cancel"} -> {"jobs"}
      [] OTHER -> {}

LEMMA ChangePasswordSound ==
    ASSUME NEW db, Whole(db), NEW answer \in ChangePassword(db)
    PROVE  Sound(answer) /\ Mine(db, answer, {})
<1>1. answer = Answer(db, At("admin"), "ok") \/ answer = Answer(db, Back, "outside")
  BY DEF ChangePassword
<1>2. Lands(At("admin")) /\ Lands(Back)
  BY PlainLands DEF PageNames
<1>. QED BY <1>1, <1>2, AnswerSound, AnswerMine, NoWrites

LEMMA DispatchSound ==
    ASSUME Whole(d), NEW form, form.to \in Sent, NEW in, Readable(form.to, in), NEW answer \in Dispatch(form, in)
    PROVE  Sound(answer) /\ Mine(d, answer, Written(form.to))
<1>. DEFINE to == form.to
            n == form.id
<1>0. Written(to) = Written(form.to)
  OBVIOUS
<1>1. CASE to = "settings"
  <2>1. answer \in PatchSettings(d, in)
    BY <1>1, DispatchIs
  <2>2. Written(to) = {"settings"}
    BY <1>1 DEF Written
  <2>. QED BY <2>1, <2>2, PatchSettingsSound, PatchSettingsMine
<1>2. CASE to = "password"
  <2>1. answer \in ChangePassword(d)
    BY <1>2, DispatchIs
  <2>2. Written(to) = {}
    BY <1>2 DEF Written
  <2>. QED BY <2>1, <2>2, ChangePasswordSound
<1>3. CASE to \in {"coolify.create", "coolify.update", "coolify.test", "coolify.install"}
  <2>1. \/ answer \in CreateCoolify(d, in) \/ answer \in UpdateCoolify(d, n, in)
        \/ answer \in TestCoolify(d, n) \/ answer \in InstallWorkerOn(d, n, in)
    BY <1>3, DispatchIs
  <2>2. Written(to) = {"instances"}
    BY <1>3 DEF Written
  <2>. HIDE DEF n
  <2>3. Mine(d, answer, {"instances"})
    BY <2>1, CoolifyMine
  <2>4. Sound(answer)
    BY <2>1, CreateCoolifySound, UpdateCoolifySound, TestCoolifySound, InstallWorkerSound
  <2>. QED BY <2>2, <2>3, <2>4
<1>4. CASE to = "coolify.delete"
  <2>1. answer \in DeleteCoolify(d, n)
    BY <1>4, DispatchIs
  <2>2. Written(to) = {"instances", "bindings"}
    BY <1>4 DEF Written
  <2>. HIDE DEF n
  <2>. QED BY <2>1, <2>2, DeleteCoolifySound, DeleteCoolifyMine
<1>5. CASE to \in {"apps.create", "apps.update", "apps.test", "apps.manifest", "apps.callback"}
  <2>1. \/ answer \in CreateApp(d, in) \/ answer \in UpdateApp(d, n, in) \/ answer \in TestApp(d, n)
        \/ answer \in StartAppManifest(d)
        \/ answer \in CallbackAppManifest(d, in) /\ Str(in, "slug") \notin {"", Unfit}
    <3>1. CASE to = "apps.callback"
      BY <3>1, DispatchIs DEF Readable
    <3>2. CASE to # "apps.callback"
      BY <1>5, <3>2, DispatchIs
    <3>. QED BY <3>1, <3>2
  <2>2. Written(to) = {"apps"}
    BY <1>5 DEF Written
  <2>. HIDE DEF n
  <2>3. Mine(d, answer, {"apps"})
    BY <2>1, AppsMine
  <2>4. Sound(answer)
    BY <2>1, CreateAppSound, UpdateAppSound, TestAppSound, StartAppManifestSound, CallbackSound
  <2>. QED BY <2>2, <2>3, <2>4
<1>6. CASE to = "apps.delete"
  <2>1. answer \in DeleteApp(d, n)
    BY <1>6, DispatchIs
  <2>2. Written(to) = {"apps", "bindings"}
    BY <1>6 DEF Written
  <2>. HIDE DEF n
  <2>. QED BY <2>1, <2>2, DeleteAppSound, DeleteAppMine
<1>7. CASE to \in {"bindings.upsert", "bindings.bulk", "bindings.toggle", "bindings.delete"}
  <2>0. Written(to) = {"bindings"}
    BY <1>7 DEF Written
  <2>1. CASE to = "bindings.upsert"
    <3>1. answer \in UpsertBinding(d, in) /\ Str(in, "repo") \in Repos /\ Str(in, "on_empty_pipeline") \in {"skip", "fail"}
      BY <2>1, DispatchIs DEF Readable
    <3>2. Mine(d, answer, {"bindings"})
      <4>1. \E row : answer = Answer(Upserted(d, row), At("repos"), "ok") \/ answer \in Refused(d)
        BY <3>1 DEF UpsertBinding, IfFit
      <4>. QED BY <4>1, UpsertedMine, RefusedMine
    <3>. QED BY <2>0, <3>1, <3>2, UpsertBindingSound
  <2>2. CASE to = "bindings.bulk"
    <3>1. answer \in BulkBindings(d, in) /\ StrList(in, "repo") \subseteq Repos
      BY <2>2, DispatchIs DEF Readable
    <3>. QED BY <2>0, <3>1, BulkBindingsSound, BulkBindingsMine
  <2>3. CASE to = "bindings.toggle"
    <3>1. answer \in ToggleBinding(d, n)
      BY <2>3, DispatchIs
    <3>2. Mine(d, answer, {"bindings"})
      <4>1. \E row : answer = Answer(Upserted(d, row), At("repos"), "ok") \/ answer \in Refused(d)
        BY <3>1 DEF ToggleBinding, IfFound
      <4>. QED BY <4>1, UpsertedMine, RefusedMine
    <3>. HIDE DEF n
    <3>. QED BY <2>0, <3>1, <3>2, ToggleBindingSound
  <2>4. CASE to = "bindings.delete"
    <3>1. answer \in DeleteBinding(d, n)
      BY <2>4, DispatchIs
    <3>. HIDE DEF n
    <3>. QED BY <2>0, <3>1, DeleteBindingSound, DeleteBindingMine
  <2>. QED BY <1>7, <2>1, <2>2, <2>3, <2>4
<1>8. CASE to \in {"jobs.rerun", "jobs.cancel"}
  <2>1. answer \in RerunJob(d, n) \/ answer \in CancelJob(d, n)
    BY <1>8, DispatchIs
  <2>2. Written(to) = {"jobs"}
    BY <1>8 DEF Written
  <2>. HIDE DEF n
  <2>. QED BY <2>1, <2>2, RerunJobSound, CancelJobSound, JobsMine
<1>. QED BY <1>1, <1>2, <1>3, <1>4, <1>5, <1>6, <1>7, <1>8 DEF Sent, Actions, Buttons

-----------------------------------------------------------------------------
(* What the fields of a form send.                                         *)

\* The browser lets something through.
Lets(field) == \E v : v \in field.may

LEMMA FieldsLet ==
    /\ \A value : Lets(Text(value)) /\ Lets(Fixed(value))
    /\ \A value, least, most : Lets(Number(value, least, most))
    /\ \A value, checked : Lets(CheckBox(value, checked))
    /\ \A values, checked : Lets(CheckBoxes(values, checked))
    /\ \A value, options : Lets(Select(value, options))
<1>1. \A value : Lets(Text(value))
  <2>1. \A value : {""} \in Text(value).may
    BY DEF Text, Each
  <2>. QED BY <2>1 DEF Lets
<1>2. \A value : Lets(Fixed(value))
  <2>1. \A value : One(value) \in Fixed(value).may
    BY DEF Fixed
  <2>. QED BY <2>1 DEF Lets
<1>3. \A value, least, most : Lets(Number(value, least, most))
  <2>1. \A value, least, most : {""} \in Number(value, least, most).may
    BY DEF Number, Each
  <2>. QED BY <2>1 DEF Lets
<1>4. \A value, checked : Lets(CheckBox(value, checked))
  <2>1. \A value, checked : None \in CheckBox(value, checked).may
    BY DEF CheckBox
  <2>. QED BY <2>1 DEF Lets
<1>5. \A values, checked : Lets(CheckBoxes(values, checked))
  <2>1. \A values, checked : values \in CheckBoxes(values, checked).may
    BY DEF CheckBoxes
  <2>. QED BY <2>1 DEF Lets
<1>6. \A value, options : Lets(Select(value, options))
  <2>1. \A value, options : {value} \in Select(value, options).may
    BY DEF Select, Each
  <2>. QED BY <2>1 DEF Lets
<1>. QED BY <1>1, <1>2, <1>3, <1>4, <1>5, <1>6

LEMMA SentFits ==
    ASSUME NEW fields, \A f \in DOMAIN fields : Lets(fields[f]), NEW in \in Fillings(fields)
    PROVE  DOMAIN in = DOMAIN fields /\ \A f \in DOMAIN fields : in[f] \in fields[f].may
BY FillingsFit DEF Lets

\* The columns of a binding are its form's.
LEMMA BindingFieldsAre ==
    ASSUME NEW editing \in BOOLEAN, NEW row, NEW apps, NEW instances
    PROVE  LET fields == BindingFields(editing, row, apps, instances)
           IN /\ DOMAIN fields = DOMAIN NoBinding
              /\ fields["repo"] = BindingRepo(editing, row)
              /\ fields["on_empty_pipeline"] = BindingEmpty(row)
              /\ fields["github_app_id"] = BindingApp(editing, row, apps)
              /\ fields["coolify_instance_id"] = BindingCoolify(editing, row, instances)
              /\ fields["branches"] = BindingBranches(row)
              /\ fields["paths"] = BindingPaths(row)
              /\ fields["check_name"] = BindingCheck(row)
              /\ fields["pipeline_file"] = BindingFile(row)
              /\ fields["timeout_seconds"] = BindingTimeout(row)
              /\ fields["install_cmd"] = BindingInstall(row)
              /\ fields["test_cmd"] = BindingTest(row)
              /\ fields["build_cmd"] = BindingBuild(row)
              /\ fields["enabled"] = BindingEnabled(editing, row)
              /\ fields["shareable_logs"] = BindingShareable(editing, row)
BY DEF BindingFields, NoBinding

LEMMA BindingFieldsLet ==
    ASSUME NEW editing \in BOOLEAN, NEW row, NEW apps, NEW instances,
           NEW f \in DOMAIN BindingFields(editing, row, apps, instances)
    PROVE  Lets(BindingFields(editing, row, apps, instances)[f])
<1>. DEFINE fields == BindingFields(editing, row, apps, instances)
<1>1. Lets(BindingRepo(editing, row))
  <2>1. CASE editing
    BY <2>1, FieldsLet DEF BindingRepo
  <2>2. CASE ~editing
    <3>1. PICK repo \in Repos : TRUE
      BY ReposAssumption
    <3>2. {repo} \in BindingRepo(editing, row).may
      BY <2>2 DEF BindingRepo, Each
    <3>. QED BY <3>2 DEF Lets
  <2>. QED BY <2>1, <2>2
<1>2. Lets(BindingApp(editing, row, apps))
  BY FieldsLet DEF BindingApp
<1>3. Lets(BindingCoolify(editing, row, instances))
  BY FieldsLet DEF BindingCoolify
<1>4. Lets(BindingEmpty(row)) /\ Lets(BindingTimeout(row))
  BY FieldsLet DEF BindingEmpty, BindingTimeout
<1>5. Lets(BindingEnabled(editing, row)) /\ Lets(BindingShareable(editing, row))
  BY FieldsLet DEF BindingEnabled, BindingShareable
<1>6. /\ Lets(BindingBranches(row)) /\ Lets(BindingPaths(row)) /\ Lets(BindingCheck(row)) /\ Lets(BindingFile(row))
      /\ Lets(BindingInstall(row)) /\ Lets(BindingTest(row)) /\ Lets(BindingBuild(row))
  BY FieldsLet DEF BindingBranches, BindingPaths, BindingCheck, BindingFile, BindingInstall, BindingTest, BindingBuild
<1>7. f \in DOMAIN NoBinding
  BY BindingFieldsAre
<1>. HIDE DEF fields
<1>8. f \in {"github_app_id", "coolify_instance_id", "repo", "enabled", "branches", "paths", "check_name",
             "pipeline_file", "timeout_seconds", "install_cmd", "test_cmd", "build_cmd", "shareable_logs",
             "on_empty_pipeline"}
  BY <1>7 DEF NoBinding
<1>. QED BY <1>1, <1>2, <1>3, <1>4, <1>5, <1>6, <1>8, BindingFieldsAre DEF fields

LEMMA UpsertReads ==
    ASSUME NEW editing \in BOOLEAN, NEW row, editing => row.repo \in Repos, NEW apps, NEW instances,
           NEW in \in Fillings(BindingFields(editing, row, apps, instances))
    PROVE  Str(in, "repo") \in Repos /\ Str(in, "on_empty_pipeline") \in {"skip", "fail"}
<1>. DEFINE fields == BindingFields(editing, row, apps, instances)
<1>1. \A f \in DOMAIN fields : Lets(fields[f])
  BY BindingFieldsLet
<1>2. /\ DOMAIN fields = DOMAIN NoBinding
      /\ fields["repo"] = BindingRepo(editing, row) /\ fields["on_empty_pipeline"] = BindingEmpty(row)
  BY BindingFieldsAre
<1>3. in \in Fillings(fields)
  OBVIOUS
<1>. HIDE DEF fields
<1>4. "repo" \in DOMAIN fields /\ "on_empty_pipeline" \in DOMAIN fields
  BY <1>2 DEF NoBinding
<1>5. /\ DOMAIN in = DOMAIN fields
      /\ in["repo"] \in BindingRepo(editing, row).may /\ in["on_empty_pipeline"] \in BindingEmpty(row).may
  BY <1>1, <1>2, <1>3, <1>4, SentFits
<1>6. PICK repo \in Repos : in["repo"] = {repo}
  <2>1. CASE editing
    <3>1. BindingRepo(editing, row).may = {{row.repo}}
      BY <2>1 DEF BindingRepo, Fixed, One
    <3>. QED BY <1>5, <2>1, <3>1
  <2>2. CASE ~editing
    <3>1. BindingRepo(editing, row).may = {{v} : v \in Repos}
      BY <2>2 DEF BindingRepo, Each
    <3>. QED BY <1>5, <3>1
  <2>. QED BY <2>1, <2>2
<1>7. PICK v \in {"skip", "fail"} : in["on_empty_pipeline"] = {v}
  <2>1. BindingEmpty(row).may = {{v} : v \in {"skip", "fail"}}
    BY DEF BindingEmpty, Select, Each
  <2>. QED BY <1>5, <2>1
<1>. QED BY <1>4, <1>5, <1>6, <1>7, StrOne

LEMMA BulkReads ==
    ASSUME NEW of, Whole(of), NEW at, NEW listed, listed \subseteq Repos,
           NEW in \in Fillings(BulkFields(of, at, listed))
    PROVE  StrList(in, "repo") \subseteq Repos
<1>. DEFINE fields == BulkFields(of, at, listed)
<1>1. /\ DOMAIN fields = {"github_app_id", "coolify_instance_id", "repo"}
      /\ fields["github_app_id"] = PickerHidden(at.app) /\ fields["coolify_instance_id"] = PickerHidden(at.coolify)
      /\ fields["repo"] = PickerBoxes(Picker(of, at, listed), BoundRepos(of, at.app))
  BY DEF BulkFields
<1>2. in \in Fillings(fields)
  OBVIOUS
<1>. HIDE DEF fields
<1>3. \A f \in DOMAIN fields : Lets(fields[f])
  BY <1>1, FieldsLet DEF PickerHidden, PickerBoxes
<1>4. DOMAIN in = DOMAIN fields /\ in["repo"] \in PickerBoxes(Picker(of, at, listed), BoundRepos(of, at.app)).may
  BY <1>1, <1>2, <1>3, SentFits
<1>5. PickerBoxes(Picker(of, at, listed), BoundRepos(of, at.app)).may = SUBSET Picker(of, at, listed)
  BY DEF PickerBoxes, CheckBoxes
<1>6. Picker(of, at, listed) \subseteq Repos
  <2>1. \A n \in DOMAIN of.bindings : of.bindings[n].repo \in Repos
    BY BindingRows DEF BindingRow
  <2>. QED BY <2>1 DEF Picker, BoundRepos
<1>. QED BY <1>4, <1>5, <1>6 DEF StrList

LEMMA CallbackReads ==
    ASSUME NEW in \in Fillings(CallbackFields)
    PROVE  Str(in, "slug") \in Typed \ {"", Unfit}
<1>. DEFINE fields == CallbackFields
<1>1. DOMAIN fields = {"slug"} /\ fields["slug"].may = {{v} : v \in Typed \ {"", Unfit}}
  BY DEF CallbackFields, Each
<1>2. in \in Fillings(fields)
  OBVIOUS
<1>. HIDE DEF fields
<1>3. \A f \in DOMAIN fields : Lets(fields[f])
  <2>1. PICK v : v \in Typed \ {"", Unfit}
    BY UnfitAssumption
  <2>2. {v} \in fields["slug"].may
    BY <1>1, <2>1
  <2>. QED BY <1>1, <2>2 DEF Lets
<1>4. "slug" \in DOMAIN in /\ in["slug"] \in fields["slug"].may
  BY <1>1, <1>2, <1>3, SentFits
<1>5. PICK v \in Typed \ {"", Unfit} : in["slug"] = {v}
  BY <1>1, <1>4
<1>. QED BY <1>4, <1>5, StrOne

LEMMA FormReads ==
    ASSUME NEW of, Whole(of), NEW at, NEW listed, listed \subseteq Repos, NEW form, Offered(of, at, listed, form),
           NEW in \in Fillings(form.fields)
    PROVE  Readable(form.to, in) /\ form.to \in Actions
<1>. DEFINE to == form.to
            n == form.id
<1>1. /\ to \in Actions
      /\ to = "bindings.upsert" => n \in DOMAIN of.bindings \cup {0}
      /\ form.fields = FieldsOf(of, at, listed, to, n)
  BY DEF Offered, IsThere
<1>2. to = "apps.callback" => Str(in, "slug") \notin {"", Unfit}
  <2>1. to = "apps.callback" => form.fields = CallbackFields
    BY <1>1 DEF FieldsOf
  <2>. QED BY <2>1, CallbackReads
<1>3. to = "bindings.bulk" => StrList(in, "repo") \subseteq Repos
  <2>1. to = "bindings.bulk" => form.fields = BulkFields(of, at, listed)
    BY <1>1 DEF FieldsOf
  <2>. QED BY <2>1, BulkReads
<1>4. ASSUME to = "bindings.upsert"
      PROVE  Str(in, "repo") \in Repos /\ Str(in, "on_empty_pipeline") \in {"skip", "fail"}
  <2>1. form.fields = IF n # 0 THEN BindingFields(TRUE, of.bindings[n], of.apps, of.instances)
                      ELSE BindingFields(FALSE, NoBinding, of.apps, of.instances)
    BY <1>1, <1>4 DEF FieldsOf
  <2>2. PICK editing, row : /\ editing \in BOOLEAN /\ (editing => row.repo \in Repos)
                            /\ form.fields = BindingFields(editing, row, of.apps, of.instances)
    <3>1. CASE n # 0
      <4>1. of.bindings[n].repo \in Repos
        BY <1>1, <1>4, <3>1, BindingRows DEF BindingRow
      <4>2. form.fields = BindingFields(TRUE, of.bindings[n], of.apps, of.instances)
        BY <2>1, <3>1
      <4>. QED BY <4>1, <4>2
    <3>2. CASE n = 0
      <4>1. form.fields = BindingFields(FALSE, NoBinding, of.apps, of.instances)
        BY <2>1, <3>2
      <4>. QED BY <4>1
    <3>. QED BY <3>1, <3>2
  <2>. QED BY <2>2, UpsertReads
<1>. QED BY <1>1, <1>2, <1>3, <1>4 DEF Readable

\* Nobody is signed in before there is a user.
Signed(answer) == answer.user \in BOOLEAN /\ (answer.user => answer.d.users)

LEMMA AnswerAs ==
    ASSUME NEW db, NEW to, NEW notice, NEW user
    PROVE  LET answer == [Answer(db, to, notice) EXCEPT !.user = user]
           IN /\ answer.d = db /\ answer.to = to /\ answer.notice = notice /\ answer.user = user
BY DEF Answer

LEMMA AnswerAsSound ==
    ASSUME NEW db, Counted(db) => Whole(db), NEW to, Lands(to), NEW notice, NEW user \in BOOLEAN, user => db.users
    PROVE  Sound([Answer(db, to, notice) EXCEPT !.user = user]) /\ Signed([Answer(db, to, notice) EXCEPT !.user = user])
<1>. DEFINE answer == [Answer(db, to, notice) EXCEPT !.user = user]
<1>1. answer.d = db /\ answer.to = to /\ answer.user = user
  BY AnswerAs
<1>. HIDE DEF answer
<1>2. Sound(answer) /\ Signed(answer)
  BY <1>1 DEF Sound, Signed
<1>. QED BY <1>2 DEF answer

LEMMA SignedIs ==
    ASSUME NEW db, db.users, NEW to, NEW notice
    PROVE  Signed(Answer(db, to, notice))
<1>1. Answer(db, to, notice).user = TRUE /\ Answer(db, to, notice).d = db
  BY DEF Answer
<1>. QED BY <1>1 DEF Signed

LEMMA MineSigned ==
    ASSUME NEW db, db.users = TRUE, NEW answer, NEW tables, "users" \notin tables, Mine(db, answer, tables)
    PROVE  Signed(answer)
<1>1. answer.user = TRUE /\ answer.d.users = db.users
  BY DEF Mine, Writes, Tables
<1>. QED BY <1>1 DEF Signed

LEMMA LandPages == Lands(At("login")) /\ Lands(At("home")) /\ Lands(At("setup")) /\ Lands(Back)
BY PlainLands DEF PageNames

LEMMA LoginSound ==
    ASSUME NEW db, Whole(db), NEW user \in BOOLEAN, user => db.users, NEW answer \in HandleLogin(db, user)
    PROVE  Sound(answer) /\ Signed(answer)
<1>1. \/ answer = [Answer(db, At("login"), "outside") EXCEPT !.user = user]
      \/ db.users /\ answer = Answer(db, At("home"), "")
  BY DEF HandleLogin
<1>2. CASE answer = [Answer(db, At("login"), "outside") EXCEPT !.user = user]
  BY <1>2, AnswerAsSound, LandPages
<1>3. CASE db.users /\ answer = Answer(db, At("home"), "")
  BY <1>3, AnswerSound, SignedIs, LandPages
<1>. QED BY <1>1, <1>2, <1>3

LEMMA AddressWhole ==
    ASSUME NEW s, SettingsRow(s), NEW text
    PROVE  SettingsRow([s EXCEPT !.public_base_url = text])
<1>. DEFINE s2 == [s EXCEPT !.public_base_url = text]
<1>1. DOMAIN s = SettingsColumns
  BY DEF SettingsRow
<1>2. DOMAIN s2 = SettingsColumns /\ \A c \in SettingsColumns \ {"public_base_url"} : s2[c] = s[c]
  BY <1>1 DEF SettingsColumns
<1>. HIDE DEF s2
<1>3. /\ s2.default_check_name = s.default_check_name /\ s2.default_pipeline_file = s.default_pipeline_file
      /\ s2.default_timeout_seconds = s.default_timeout_seconds /\ s2.max_log_bytes = s.max_log_bytes
      /\ s2.max_concurrent_jobs = s.max_concurrent_jobs /\ s2.log_retention_days = s.log_retention_days
      /\ s2.skip_fork_prs = s.skip_fork_prs /\ s2.default_runtime = s.default_runtime
  BY <1>2 DEF SettingsColumns
<1>4. SettingsTexts(s2)
  BY <1>3 DEF SettingsRow, SettingsTexts
<1>5. SettingsNumbers(s2)
  <2>1. SettingsNumbers(s)
    BY DEF SettingsRow
  <2>. QED BY <1>3, <2>1 DEF SettingsNumbers
<1>6. s2.skip_fork_prs \in BOOLEAN
  BY <1>3 DEF SettingsRow
<1>7. SettingsRow(s2)
  BY <1>2, <1>4, <1>5, <1>6 DEF SettingsRow
<1>. QED BY <1>7 DEF s2

LEMMA SetUpWhole ==
    ASSUME NEW db, Whole(db), NEW text
    PROVE  LET db2 == [db EXCEPT !.users = TRUE, !.settings.public_base_url = text]
           IN Whole(db2) /\ db2.users
<1>. DEFINE db2 == [db EXCEPT !.users = TRUE, !.settings.public_base_url = text]
            s == [db.settings EXCEPT !.public_base_url = text]
<1>1. /\ DOMAIN db2 = DOMAIN db /\ db2.next = db.next /\ db2.users = TRUE /\ db2.docker = db.docker
      /\ db2.settings = s /\ db2.apps = db.apps /\ db2.instances = db.instances /\ db2.bindings = db.bindings
      /\ db2.jobs = db.jobs
  BY DEF Whole
<1>2. SettingsRow(s)
  BY AddressWhole DEF Whole
<1>. HIDE DEF db2, s
<1>3. db2.users \in BOOLEAN /\ db2.docker \in BOOLEAN
  BY <1>1 DEF Whole
<1>4. Whole(db2)
  BY <1>1, <1>2, <1>3, SameTables
<1>. QED BY <1>1, <1>4 DEF db2

LEMMA SetupSound ==
    ASSUME NEW db, Whole(db), NEW user \in BOOLEAN, user => db.users, NEW in, NEW answer \in HandleSetup(db, in, user)
    PROVE  Sound(answer) /\ Signed(answer)
<1>1. \/ \E to \in {At("login"), At("setup"), Back} : \E notice :
            answer = [Answer(db, to, notice) EXCEPT !.user = user]
      \/ \E text : answer = Answer([db EXCEPT !.users = TRUE, !.settings.public_base_url = text], At("home"), "ok")
  BY DEF HandleSetup
<1>2. ASSUME NEW to \in {At("login"), At("setup"), Back}, NEW notice,
             answer = [Answer(db, to, notice) EXCEPT !.user = user]
      PROVE  Sound(answer) /\ Signed(answer)
  <2>1. Lands(to)
    BY LandPages
  <2>. QED BY <1>2, <2>1, AnswerAsSound
<1>3. ASSUME NEW text, answer = Answer([db EXCEPT !.users = TRUE, !.settings.public_base_url = text], At("home"), "ok")
      PROVE  Sound(answer) /\ Signed(answer)
  <2>. DEFINE db2 == [db EXCEPT !.users = TRUE, !.settings.public_base_url = text]
  <2>1. Whole(db2) /\ db2.users
    BY SetUpWhole
  <2>. HIDE DEF db2
  <2>2. answer = Answer(db2, At("home"), "ok")
    BY <1>3 DEF db2
  <2>. QED BY <2>1, <2>2, AnswerSound, SignedIs, LandPages
<1>. QED BY <1>1, <1>2, <1>3

LEMMA LogoutSound ==
    ASSUME NEW db, Whole(db), NEW answer \in HandleLogout(db)
    PROVE  Sound(answer) /\ Signed(answer)
<1>1. answer = [Answer(db, At("login"), "") EXCEPT !.user = FALSE]
  BY DEF HandleLogout
<1>. QED BY <1>1, AnswerAsSound, LandPages

LEMMA HandleIs ==
    ASSUME NEW user \in BOOLEAN, NEW token, NEW form, NEW in, NEW answer \in Handle(user, token, form, in)
    PROVE  \/ answer \in HandleLogin(d, user) \/ answer \in HandleSetup(d, in, user) \/ answer \in HandleLogout(d)
           \/ \E to \in {At("setup"), At("login")} : answer = [Answer(d, to, "") EXCEPT !.user = user]
           \/ d.users /\ user /\ answer \in Refused(d)
           \/ d.users /\ user /\ form.to \notin {"login", "setup", "logout"} /\ answer \in Dispatch(form, in)
BY DEF Handle, Guarded
LEMMA HandleSound ==
    ASSUME Whole(d), NEW user \in BOOLEAN, user => d.users, NEW token,
           NEW form, form.to \in Actions, NEW in, Readable(form.to, in), NEW answer \in Handle(user, token, form, in)
    PROVE  Sound(answer) /\ Signed(answer)
<1>1. CASE answer \in HandleLogin(d, user) \/ answer \in HandleSetup(d, in, user) \/ answer \in HandleLogout(d)
  BY <1>1, LoginSound, SetupSound, LogoutSound
<1>2. ASSUME NEW to \in {At("setup"), At("login")}, answer = [Answer(d, to, "") EXCEPT !.user = user]
      PROVE  Sound(answer) /\ Signed(answer)
  <2>1. Lands(to)
    BY LandPages
  <2>. QED BY <1>2, <2>1, AnswerAsSound
<1>3. CASE d.users /\ answer \in Refused(d)
  <2>1. answer = Answer(d, Back, "err")
    BY <1>3 DEF Refused
  <2>. QED BY <1>3, <2>1, RefusedSound, SignedIs
<1>4. CASE d.users /\ form.to \notin {"login", "setup", "logout"} /\ answer \in Dispatch(form, in)
  <2>1. form.to \in Sent
    BY <1>4 DEF Sent
  <2>2. Sound(answer) /\ Mine(d, answer, Written(form.to))
    BY <1>4, <2>1, DispatchSound
  <2>3. "users" \notin Written(form.to)
    BY DEF Written
  <2>4. d.users = TRUE
    BY <1>4 DEF Whole
  <2>. QED BY <2>2, <2>3, <2>4, MineSigned
<1>. QED BY <1>1, <1>2, <1>3, <1>4, HandleIs

-----------------------------------------------------------------------------
(* What others leave is whole.                                             *)

LEMMA OtherIs ==
    ASSUME NEW db, Other(db)
    PROVE  /\ d' = db /\ Counted(db) /\ others < MaxOthers /\ others' = others + 1 /\ sent' = Unsent
           /\ UNCHANGED <<tab, load, submits>>
BY DEF Other

LEMMA TurnsWhole ==
    ASSUME NEW db, Whole(db), NEW n \in DOMAIN db.bindings
    PROVE  Whole([db EXCEPT !.bindings[n].enabled = ~@])
<1>. DEFINE row == [db.bindings[n] EXCEPT !.enabled = ~@]
            db2 == [db EXCEPT !.bindings[n].enabled = ~@]
<1>1. OneEach(db.bindings) /\ Keys(db, db.bindings) /\ \A k \in DOMAIN db.bindings : BindingRow(db, db.bindings[k])
  BY BindingRows
<1>2. BindingRow(db, row) /\ row.github_app_id = db.bindings[n].github_app_id /\ row.repo = db.bindings[n].repo
  BY <1>1, TurnedRow
<1>3. /\ DOMAIN db2 = DOMAIN db /\ db2.next = db.next /\ db2.users = db.users /\ db2.docker = db.docker
      /\ db2.settings = db.settings /\ db2.apps = db.apps /\ db2.instances = db.instances /\ db2.jobs = db.jobs
      /\ db2.bindings = [db.bindings EXCEPT ![n] = row]
  BY DEF Whole
<1>. HIDE DEF row, db2
<1>4. DOMAIN db2.bindings = DOMAIN db.bindings /\ db2.bindings[n] = row
      /\ \A k \in DOMAIN db.bindings : k # n => db2.bindings[k] = db.bindings[k]
  BY <1>3
<1>5. SameBut(db, db2, "bindings") /\ Later(db, db2) /\ Counted(db2)
  BY <1>3 DEF SameBut, Later, Whole, Counted
<1>6. Keys(db2, db2.bindings)
  BY <1>1, <1>3, <1>4 DEF Keys
<1>7. \A k \in DOMAIN db2.bindings : BindingRow(db, db2.bindings[k])
  BY <1>1, <1>2, <1>4
<1>8. \A k \in DOMAIN db2.bindings : /\ db2.bindings[k].github_app_id = db.bindings[k].github_app_id
                                     /\ db2.bindings[k].repo = db.bindings[k].repo
  BY <1>2, <1>4
<1>9. OneEach(db2.bindings)
  BY <1>1, <1>4, <1>8 DEF OneEach
<1>10. Whole(db2)
  BY <1>5, <1>6, <1>7, <1>9, BindingsWhole
<1>. QED BY <1>10 DEF db2

LEMMA AddressChangesWhole ==
    ASSUME NEW db, Whole(db), NEW text
    PROVE  Whole([db EXCEPT !.settings.public_base_url = text])
<1>. DEFINE db2 == [db EXCEPT !.settings.public_base_url = text]
            s == [db.settings EXCEPT !.public_base_url = text]
<1>1. /\ DOMAIN db2 = DOMAIN db /\ db2.next = db.next /\ db2.users = db.users /\ db2.docker = db.docker
      /\ db2.settings = s /\ db2.apps = db.apps /\ db2.instances = db.instances /\ db2.bindings = db.bindings
      /\ db2.jobs = db.jobs
  BY DEF Whole
<1>2. SettingsRow(s)
  BY AddressWhole DEF Whole
<1>. HIDE DEF db2, s
<1>3. db2.users \in BOOLEAN /\ db2.docker \in BOOLEAN
  BY <1>1 DEF Whole
<1>4. Whole(db2)
  BY <1>1, <1>2, <1>3, SameTables
<1>. QED BY <1>4 DEF db2

LEMMA DockerTurnsWhole ==
    ASSUME NEW db, Whole(db)
    PROVE  Whole([db EXCEPT !.docker = ~@])
<1>. DEFINE db2 == [db EXCEPT !.docker = ~@]
<1>1. /\ DOMAIN db2 = DOMAIN db /\ db2.next = db.next /\ db2.users = db.users /\ db2.docker = ~db.docker
      /\ db2.settings = db.settings /\ db2.apps = db.apps /\ db2.instances = db.instances
      /\ db2.bindings = db.bindings /\ db2.jobs = db.jobs
  BY DEF Whole
<1>. HIDE DEF db2
<1>2. SettingsRow(db2.settings) /\ db2.users \in BOOLEAN /\ db2.docker \in BOOLEAN
  BY <1>1 DEF Whole
<1>3. Whole(db2)
  BY <1>1, <1>2, SameTables
<1>. QED BY <1>3 DEF db2

LEMMA ComesWhole ==
    ASSUME NEW db, Whole(db), NEW n \in DOMAIN db.apps, NEW repo \in Repos,
           NEW row, row = [NoBinding EXCEPT !.github_app_id = n, !.repo = repo, !.enabled = TRUE],
           Counted(Upserted(db, row))
    PROVE  Whole(Upserted(db, row))
<1>1. IsFresh(row, n, 0, repo)
  BY DEF IsFresh, NoBinding
<1>2. 0 \in DOMAIN db.instances \cup {0}
  OBVIOUS
<1>3. BindingRow(db, row)
  BY <1>1, <1>2, FreshRow
<1>. QED BY <1>3, UpsertedWhole

LEMMA JobArrivesKeeps ==
    ASSUME NEW db, Whole(db), NEW n \in Enabled(db),
           NEW row, row = [id |-> db.next, repo |-> db.bindings[n].repo, app |-> db.bindings[n].github_app_id,
                           status |-> "queued", shareable |-> db.bindings[n].shareable_logs],
           NEW db2, db2 = [db EXCEPT !.jobs = <<row>> \o @, !.next = @ + 1], Counted(db2)
    PROVE  Whole(db2)
<1>1. n \in DOMAIN db.bindings
  BY DEF Enabled
<1>2. BindingRow(db, db.bindings[n])
  BY <1>1, BindingRows
<1>3. db.bindings[n].repo \in Repos /\ db.bindings[n].shareable_logs \in BOOLEAN /\ db.bindings[n].github_app_id \in DOMAIN db.apps
  BY <1>2 DEF BindingRow, BindingFit
<1>4. db.next \in Nat /\ DOMAIN db.apps \subseteq Nat
  BY DEF Whole, WholeApps, Keys
<1>5. db.bindings[n].github_app_id \in Nat /\ "queued" \in Statuses
  BY <1>3, <1>4 DEF Statuses
<1>6. row \in JobRows /\ row.id = db.next
  BY <1>3, <1>4, <1>5 DEF JobRows
<1>7. /\ DOMAIN db2 = DOMAIN db /\ db2.next = db.next + 1 /\ db2.users = db.users /\ db2.docker = db.docker
      /\ db2.settings = db.settings /\ db2.apps = db.apps /\ db2.instances = db.instances
      /\ db2.bindings = db.bindings /\ db2.jobs = <<row>> \o db.jobs
  BY DEF Whole
<1>8. SameBut(db, db2, "jobs")
  BY <1>7 DEF SameBut
<1>. QED BY <1>6, <1>7, <1>8, JobArrivesWhole

LEMMA JobMovesWhole ==
    ASSUME NEW db, Whole(db), NEW i \in DOMAIN db.jobs, NEW status \in Statuses
    PROVE  Whole([db EXCEPT !.jobs[i].status = status])
<1>. DEFINE db2 == [db EXCEPT !.jobs[i].status = status]
            row == [db.jobs[i] EXCEPT !.status = status]
<1>1. /\ DOMAIN db2 = DOMAIN db /\ db2.next = db.next /\ db2.users = db.users /\ db2.docker = db.docker
      /\ db2.settings = db.settings /\ db2.apps = db.apps /\ db2.instances = db.instances
      /\ db2.bindings = db.bindings /\ db2.jobs = [db.jobs EXCEPT ![i] = row]
  BY DEF Whole
<1>2. db.jobs \in Seq(JobRows) /\ db.jobs[i] \in JobRows
  BY JobRow
<1>3. row \in JobRows /\ row.id = db.jobs[i].id
  BY <1>2 DEF JobRows
<1>. HIDE DEF db2, row
<1>4. db2.jobs \in Seq(JobRows)
  BY <1>1, <1>2, <1>3
<1>5. DOMAIN db2.jobs = DOMAIN db.jobs
  BY <1>1
<1>6. \A k \in DOMAIN db2.jobs : db2.jobs[k].id = db.jobs[k].id
  BY <1>1, <1>3, <1>5
<1>7. SameBut(db, db2, "jobs")
  BY <1>1 DEF SameBut
<1>8. Whole(db2)
  BY <1>1, <1>4, <1>5, <1>6, <1>7, JobsMoveWhole
<1>. QED BY <1>8 DEF db2

LEMMA JobPrunedWhole ==
    ASSUME NEW db, Whole(db), db.jobs # <<>>
    PROVE  Whole([db EXCEPT !.jobs = SubSeq(@, 1, Len(@) - 1)])
<1>. DEFINE db2 == [db EXCEPT !.jobs = SubSeq(@, 1, Len(@) - 1)]
<1>1. /\ DOMAIN db2 = DOMAIN db /\ db2.next = db.next /\ db2.users = db.users /\ db2.docker = db.docker
      /\ db2.settings = db.settings /\ db2.apps = db.apps /\ db2.instances = db.instances
      /\ db2.bindings = db.bindings /\ db2.jobs = SubSeq(db.jobs, 1, Len(db.jobs) - 1)
  BY DEF Whole
<1>. HIDE DEF db2
<1>2. db.jobs \in Seq(JobRows) /\ Len(db.jobs) \in Nat /\ DOMAIN db.jobs = 1..Len(db.jobs)
  BY JobRow
<1>. DEFINE jobs == db.jobs
<1>3. jobs \in Seq(JobRows) /\ Len(jobs) \in Nat \ {0} /\ DOMAIN jobs = 1..Len(jobs)
  BY <1>2
<1>. HIDE DEF jobs
<1>4. /\ SubSeq(jobs, 1, Len(jobs) - 1) \in Seq(JobRows)
      /\ DOMAIN SubSeq(jobs, 1, Len(jobs) - 1) = 1..(Len(jobs) - 1)
      /\ \A i \in 1..(Len(jobs) - 1) : SubSeq(jobs, 1, Len(jobs) - 1)[i] = jobs[i]
  BY <1>3
<1>5. db2.jobs = SubSeq(jobs, 1, Len(jobs) - 1)
  BY <1>1 DEF jobs
<1>6. /\ db2.jobs \in Seq(JobRows) /\ DOMAIN db2.jobs \subseteq DOMAIN jobs
      /\ \A i \in DOMAIN db2.jobs : db2.jobs[i].id = jobs[i].id
  BY <1>3, <1>4, <1>5
<1>7. SameBut(db, db2, "jobs")
  BY <1>1 DEF SameBut
<1>8. Whole(db2)
  BY <1>1, <1>6, <1>7, JobsMoveWhole DEF jobs
<1>. QED BY <1>8 DEF db2

-----------------------------------------------------------------------------
(* The invariant: what the tab was drawn from, and what others may have    *)
(* changed since.                                                          *)

Address(a) == a.page \in PageNames /\ a.app \in Numbers /\ a.coolify \in Numbers

\* db is of, later: no row of an App or an instance changed, and no key was taken again.
Since(of, db) ==
    /\ of.next <= db.next
    /\ \A n \in DOMAIN of.apps \cap DOMAIN db.apps : db.apps[n] = of.apps[n]
    /\ \A n \in DOMAIN of.instances \cap DOMAIN db.instances : db.instances[n] = of.instances[n]
    /\ \A n \in DOMAIN of.bindings \cap DOMAIN db.bindings :
          /\ db.bindings[n].github_app_id = of.bindings[n].github_app_id
          /\ db.bindings[n].repo = of.bindings[n].repo

TabFrom(t) ==
    /\ t = [at |-> t.at, of |-> t.of, listed |-> t.listed, user |-> t.user, token |-> t.token]
    /\ t.listed \subseteq Repos /\ t.user \in BOOLEAN
    /\ t.at.page \in {"", "gaveup"} => ~t.user
    /\ t.at.page \notin {"", "gaveup"} => DrawnFrom(t.of, t.at) /\ Address(t.at)
    /\ t.user => t.at.page # "setup"

LoadTo(l) ==
    /\ l = [to |-> l.to, referer |-> l.referer, hops |-> l.hops]
    /\ l # Idle => Address(l.to)
    /\ l.referer.page # "" => Address(l.referer)

IInv ==
    /\ TypeOK
    /\ TabFrom(tab) /\ LoadTo(load)
    /\ sent # Unsent => load # Idle
    /\ load = Idle => Since(tab.of, d)

LEMMA PageIs == \A page : At(page).page = page /\ At(page).app = 0 /\ At(page).coolify = 0
BY DEF At

LEMMA PageAddress == ASSUME NEW page \in PageNames PROVE Address(At(page)) /\ At(page) # Back
BY PageIs, ZeroIsANumber DEF Address, Back, PageNames

LEMMA LandsIs == ASSUME NEW to, Lands(to) PROVE to = Back \/ Address(to)
BY DEF Lands, Address

LEMMA AddressIsNot == \A a : Address(a) => a # Nowhere /\ a # Back /\ a.page \notin {"", "gaveup", "back"}
<1>1. \A page \in {"", "gaveup", "back"} : page \notin PageNames
  BY DEF PageNames
<1>. QED BY <1>1, PageIs DEF Address, Nowhere, Back

LEMMA IdleIs == Idle.to = Nowhere /\ Idle.referer = Nowhere /\ Idle.hops = 0
BY DEF Idle

LEMMA LandsIsNot == \A to : Lands(to) => to # Drawn
<1>1. Nowhere # Back
  <2>1. Nowhere.page = "" /\ Back.page = "back"
    BY PageIs DEF Nowhere, Back
  <2>. QED BY <2>1
<1>. QED BY <1>1, LandsIs, AddressIsNot DEF Drawn

LEMMA GuardedIs ==
    ASSUME NEW user, NEW to, Lands(to) \/ to = Drawn
    PROVE  /\ Guarded(user, to) = Drawn \/ Lands(Guarded(user, to))
           /\ Guarded(user, to) = Drawn => d.users /\ user /\ to = Drawn
<1>1. Lands(At("setup")) /\ Lands(At("login"))
  BY LandPages
<1>2. At("setup") # Drawn /\ At("login") # Drawn
  BY <1>1, LandsIsNot
<1>. QED BY <1>1, <1>2 DEF Guarded

LEMMA RowLands == ASSUME NEW page \in PageNames, NEW n PROVE Lands(AtRow(page, n))
<1>1. AtRow(page, n).page = page /\ AtRow(page, n).app = 0 /\ AtRow(page, n).coolify = 0
  BY DEF AtRow, At
<1>. QED BY <1>1, ZeroIsANumber DEF Lands

\* What the server answers with a page, and where it redirects to.
LEMMA ServeIs ==
    ASSUME NEW user, NEW a, a.page \notin {"login", "setup", "run", "error", "github"}
    PROVE  \E to : /\ Serve(user, a) = Guarded(user, to) /\ (Lands(to) \/ to = Drawn)
                   /\ to = Drawn /\ a.page \in PageNames => DrawnFrom(d, a)
<1>0. Lands(Back) /\ Lands(At("apps")) /\ Lands(At("repos"))
  BY PlainLands DEF PageNames
<1>1. \A page \in {"app.edit", "repo.edit"} : \A n : Lands(AtRow(page, n))
  BY RowLands DEF PageNames
<1>2. CASE a.page = "coolify"
  <2>1. Serve(user, a) = Guarded(user, ServeCoolify(a))
    BY <1>2 DEF Serve
  <2>2. Lands(ServeCoolify(a)) \/ ServeCoolify(a) = Drawn
    BY <1>0 DEF ServeCoolify
  <2>3. ServeCoolify(a) = Drawn /\ a.page \in PageNames => DrawnFrom(d, a)
    BY <1>0, <1>2, LandsIsNot DEF ServeCoolify, DrawnFrom
  <2>. QED BY <2>1, <2>2, <2>3
<1>3. CASE a.page = "apps"
  <2>1. Serve(user, a) = Guarded(user, ServeApps(a))
    BY <1>3 DEF Serve
  <2>2. Lands(ServeApps(a)) \/ ServeApps(a) = Drawn
    BY <1>0, <1>1 DEF ServeApps
  <2>3. ServeApps(a) = Drawn /\ a.page \in PageNames => DrawnFrom(d, a)
    BY <1>0, <1>1, <1>3, LandsIsNot DEF ServeApps, DrawnFrom
  <2>. QED BY <2>1, <2>2, <2>3
<1>4. CASE a.page = "app.edit"
  <2>1. Serve(user, a) = Guarded(user, ServeAppEdit(a))
    BY <1>4 DEF Serve
  <2>2. Lands(ServeAppEdit(a)) \/ ServeAppEdit(a) = Drawn
    BY <1>0 DEF ServeAppEdit
  <2>3. ServeAppEdit(a) = Drawn /\ a.page \in PageNames => DrawnFrom(d, a)
    BY <1>0, <1>4, LandsIsNot DEF ServeAppEdit, DrawnFrom
  <2>. QED BY <2>1, <2>2, <2>3
<1>5. CASE a.page = "repos"
  <2>1. Serve(user, a) = Guarded(user, ServeRepos(a))
    BY <1>5 DEF Serve
  <2>2. Lands(ServeRepos(a)) \/ ServeRepos(a) = Drawn
    BY <1>0, <1>1 DEF ServeRepos
  <2>3. ServeRepos(a) = Drawn /\ a.page \in PageNames => DrawnFrom(d, a)
    BY <1>5 DEF DrawnFrom
  <2>. QED BY <2>1, <2>2, <2>3
<1>6. CASE a.page \in {"repo", "repo.edit", "resolve"}
  <2>1. Serve(user, a) = Guarded(user, ServeRepo(a))
    BY <1>6 DEF Serve
  <2>2. Lands(ServeRepo(a)) \/ ServeRepo(a) = Drawn
    BY <1>0 DEF ServeRepo
  <2>3. ServeRepo(a) = Drawn /\ a.page \in PageNames => DrawnFrom(d, a)
    BY <1>0, <1>6, LandsIsNot DEF ServeRepo, DrawnFrom
  <2>. QED BY <2>1, <2>2, <2>3
<1>7. CASE a.page = "jobs"
  <2>1. Serve(user, a) = Guarded(user, ServeJobs(a))
    BY <1>7 DEF Serve
  <2>2. Lands(ServeJobs(a)) \/ ServeJobs(a) = Drawn
    BY <1>0 DEF ServeJobs
  <2>3. ServeJobs(a) = Drawn /\ a.page \in PageNames => DrawnFrom(d, a)
    BY <1>0, <1>7, LandsIsNot DEF ServeJobs, DrawnFrom
  <2>. QED BY <2>1, <2>2, <2>3
<1>8. CASE a.page \notin {"coolify", "apps", "app.edit", "repos", "repo", "repo.edit", "resolve", "jobs"}
  <2>1. Serve(user, a) = Guarded(user, Drawn)
    BY <1>8 DEF Serve
  <2>2. a.page \in PageNames => DrawnFrom(d, a)
    BY <1>8 DEF DrawnFrom
  <2>. QED BY <2>1, <2>2
<1>. QED BY <1>2, <1>3, <1>4, <1>5, <1>6, <1>7, <1>8

LEMMA ServeLands ==
    ASSUME NEW user, NEW a, Address(a)
    PROVE  /\ Serve(user, a) = Drawn \/ Lands(Serve(user, a))
           /\ Serve(user, a) = Drawn => DrawnFrom(d, a) /\ (d.users => a.page # "setup")
<1>0. Lands(At("login")) /\ Lands(At("home")) /\ Lands(At("setup"))
  BY LandPages
<1>1. a.page \in PageNames
  BY DEF Address
<1>2. CASE a.page \in {"login", "setup", "run", "error", "github"}
  <2>1. DrawnFrom(d, a)
    BY <1>1, <1>2 DEF DrawnFrom
  <2>2. CASE a.page = "login"
    <3>1. Serve(user, a) = ServeLogin(user)
      BY <2>2 DEF Serve
    <3>. QED BY <1>0, <2>1, <2>2, <3>1 DEF ServeLogin
  <2>3. CASE a.page = "setup"
    <3>1. Serve(user, a) = ServeSetup
      BY <2>3 DEF Serve
    <3>. QED BY <1>0, <2>1, <3>1, LandsIsNot DEF ServeSetup
  <2>4. CASE a.page = "run"
    <3>1. Serve(user, a) = ServeRun(user, a)
      BY <2>4 DEF Serve
    <3>. QED BY <1>0, <2>1, <2>4, <3>1 DEF ServeRun
  <2>5. CASE a.page \in {"error", "github"}
    <3>1. Serve(user, a) = Drawn
      BY <2>5 DEF Serve
    <3>. QED BY <2>1, <2>5, <3>1
  <2>. QED BY <1>2, <2>2, <2>3, <2>4, <2>5
<1>3. CASE a.page \notin {"login", "setup", "run", "error", "github"}
  <2>1. PICK to : /\ Serve(user, a) = Guarded(user, to) /\ (Lands(to) \/ to = Drawn)
                  /\ to = Drawn /\ a.page \in PageNames => DrawnFrom(d, a)
    BY <1>3, ServeIs
  <2>. QED BY <1>1, <1>3, <2>1, GuardedIs
<1>. QED BY <1>2, <1>3

LEMMA InitInv == ASSUME Init PROVE IInv
<1>1. Whole(d) /\ d.users \in BOOLEAN
  BY StartsAssumption DEF Init, Whole
<1>2. tab.of = d /\ tab.at = Nowhere /\ tab.listed = {} /\ tab.user = FALSE /\ tab.at.page = ""
  BY PageIs DEF Init, Nowhere
<1>3. load.to = At("home") /\ load.referer = Nowhere /\ load.hops = 0 /\ load.referer.page = ""
  BY PageIs DEF Init, Nowhere
<1>4. Address(load.to)
  BY <1>3, PageAddress DEF PageNames
<1>5. load # Idle
  BY <1>4, AddressIsNot, IdleIs
<1>6. TypeOK
  <2>1. signedIn \in BOOLEAN /\ (signedIn => d.users)
    BY <1>1 DEF Init
  <2>2. submits = 0 /\ others = 0
    BY DEF Init
  <2>3. 0 \in 0..(MaxRedirects + 1) /\ 0 \in 0..MaxSubmits /\ 0 \in 0..MaxOthers
    BY BoundsAssumption
  <2>. QED BY <1>1, <1>2, <1>3, <2>1, <2>2, <2>3 DEF TypeOK
<1>7. TabFrom(tab)
  <2>1. tab = [at |-> tab.at, of |-> tab.of, listed |-> tab.listed, user |-> tab.user, token |-> tab.token]
    BY DEF Init
  <2>. QED BY <1>2, <2>1 DEF TabFrom
<1>8. LoadTo(load)
  <2>1. load = [to |-> load.to, referer |-> load.referer, hops |-> load.hops]
    BY DEF Init
  <2>. QED BY <1>3, <1>4, <2>1 DEF LoadTo
<1>. QED BY <1>5, <1>6, <1>7, <1>8 DEF IInv

-----------------------------------------------------------------------------
(* What others change of what a page shows.                                *)

\* rows2 is rows, less some.
Fewer(rows, rows2) == DOMAIN rows2 \subseteq DOMAIN rows /\ \A n \in DOMAIN rows2 : rows2[n] = rows[n]

\* A binding keeps its App and repository, and a new one has a new key.
Kept(db, db2) ==
    \A n \in DOMAIN db2.bindings :
        \/ n \in DOMAIN db.bindings /\ db2.bindings[n].github_app_id = db.bindings[n].github_app_id
                                    /\ db2.bindings[n].repo = db.bindings[n].repo
        \/ n >= db.next

Onward(db, db2) ==
    /\ db.next <= db2.next /\ db2.users = db.users
    /\ Fewer(db.apps, db2.apps) /\ Fewer(db.instances, db2.instances) /\ Kept(db, db2)

LEMMA SinceFewer ==
    ASSUME NEW old, NEW rows, NEW rows2, Fewer(rows, rows2),
           \A n \in DOMAIN old \cap DOMAIN rows : rows[n] = old[n]
    PROVE  \A n \in DOMAIN old \cap DOMAIN rows2 : rows2[n] = old[n]
BY DEF Fewer

LEMMA SinceOnward ==
    ASSUME NEW of, Whole(of), NEW db, Whole(db), NEW db2, Whole(db2), Since(of, db), Onward(db, db2)
    PROVE  Since(of, db2)
<1>1. of.next \in Nat /\ db.next \in Nat /\ db2.next \in Nat /\ of.next <= db.next /\ db.next <= db2.next
  BY DEF Whole, Since, Onward
<1>2. \A n \in DOMAIN of.bindings : n \in Nat /\ n < of.next
  BY <1>1 DEF Whole, WholeBindings, Keys
<1>3. of.next <= db2.next
  BY <1>1
<1>4. \A n \in DOMAIN of.bindings : ~(n >= db.next)
  BY <1>1, <1>2
<1>5. \A n \in DOMAIN of.bindings \cap DOMAIN db2.bindings :
          /\ db2.bindings[n].github_app_id = of.bindings[n].github_app_id
          /\ db2.bindings[n].repo = of.bindings[n].repo
  BY <1>4 DEF Since, Onward, Kept
<1>6. \A n \in DOMAIN of.apps \cap DOMAIN db2.apps : db2.apps[n] = of.apps[n]
  BY SinceFewer DEF Since, Onward
<1>7. \A n \in DOMAIN of.instances \cap DOMAIN db2.instances : db2.instances[n] = of.instances[n]
  BY SinceFewer DEF Since, Onward
<1>. QED BY <1>3, <1>5, <1>6, <1>7 DEF Since

LEMMA SinceSelf == ASSUME NEW db, Whole(db) PROVE Since(db, db)
BY DEF Since, Whole

LEMMA FewerSelf == \A rows : Fewer(rows, rows)
BY DEF Fewer

LEMMA LessFewer == ASSUME NEW rows, NEW rows2, NEW ns, Less(rows, rows2, ns) PROVE Fewer(rows, rows2)
BY DEF Less, Fewer

LEMMA FewerKept == ASSUME NEW db, NEW db2, Fewer(db.bindings, db2.bindings) PROVE Kept(db, db2)
BY DEF Fewer, Kept

\* A change to a table that no rule of Since reads.
LEMMA SameRowsOnward ==
    ASSUME NEW db, Whole(db), NEW db2, db.next <= db2.next, db2.users = db.users,
           db2.apps = db.apps, db2.instances = db.instances, db2.bindings = db.bindings
    PROVE  Onward(db, db2)
<1>1. Fewer(db.apps, db2.apps) /\ Fewer(db.instances, db2.instances) /\ Fewer(db.bindings, db2.bindings)
  BY FewerSelf
<1>. QED BY <1>1, FewerKept DEF Onward

LEMMA DeletedAppOnward == ASSUME NEW db, Whole(db), NEW n PROVE Onward(db, DeletedApp(db, n))
<1>. DEFINE db2 == DeletedApp(db, n)
            gone == {b \in DOMAIN db.bindings : db.bindings[b].github_app_id = n}
<1>1. /\ db2.next = db.next /\ db2.users = db.users /\ db2.instances = db.instances
      /\ db2.apps = Without(db.apps, {n}) /\ db2.bindings = Without(db.bindings, gone)
  BY DEF Whole, DeletedApp
<1>. HIDE DEF db2, gone
<1>2. Fewer(db.apps, db2.apps) /\ Fewer(db.bindings, db2.bindings) /\ Fewer(db.instances, db2.instances)
  <2>1. Less(db.apps, db2.apps, {n}) /\ Less(db.bindings, db2.bindings, gone)
    BY <1>1, WithoutLess
  <2>. QED BY <1>1, <2>1, LessFewer, FewerSelf
<1>3. db.next <= db2.next
  BY <1>1 DEF Whole
<1>4. Onward(db, db2)
  BY <1>1, <1>2, <1>3, FewerKept DEF Onward
<1>. QED BY <1>4 DEF db2

LEMMA DeletedInstanceOnward == ASSUME NEW db, Whole(db), NEW n PROVE Onward(db, DeletedInstance(db, n))
<1>. DEFINE db2 == DeletedInstance(db, n)
<1>1. /\ db2.next = db.next /\ db2.users = db.users /\ db2.apps = db.apps
      /\ db2.instances = Without(db.instances, {n})
      /\ DOMAIN db2.bindings = DOMAIN db.bindings
      /\ \A k \in DOMAIN db.bindings : db2.bindings[k] = Released(db.bindings[k], n)
  BY DEF Whole, DeletedInstance, Released
<1>. HIDE DEF db2
<1>2. Fewer(db.instances, db2.instances) /\ Fewer(db.apps, db2.apps)
  <2>1. Less(db.instances, db2.instances, {n})
    BY <1>1, WithoutLess
  <2>. QED BY <1>1, <2>1, LessFewer, FewerSelf
<1>3. Kept(db, db2)
  <2>1. ASSUME NEW k \in DOMAIN db.bindings
        PROVE  db2.bindings[k].github_app_id = db.bindings[k].github_app_id /\ db2.bindings[k].repo = db.bindings[k].repo
    <3>1. DOMAIN db.bindings[k] = DOMAIN NoBinding
      BY BindingRows DEF BindingRow
    <3>2. \A c \in DOMAIN NoBinding \ {"coolify_instance_id"} : Released(db.bindings[k], n)[c] = db.bindings[k][c]
      BY <3>1, ReleasedIs
    <3>3. "github_app_id" \in DOMAIN NoBinding /\ "repo" \in DOMAIN NoBinding
      BY DEF NoBinding
    <3>. QED BY <1>1, <3>2, <3>3
  <2>. QED BY <1>1, <2>1 DEF Kept
<1>4. db.next <= db2.next
  BY <1>1 DEF Whole
<1>5. Onward(db, db2)
  BY <1>1, <1>2, <1>3, <1>4 DEF Onward
<1>. QED BY <1>5 DEF db2

LEMMA BindingGoneOnward ==
    ASSUME NEW db, Whole(db), NEW n
    PROVE  Onward(db, [db EXCEPT !.bindings = Without(@, {n})])
<1>. DEFINE db2 == [db EXCEPT !.bindings = Without(@, {n})]
<1>1. /\ db2.next = db.next /\ db2.users = db.users /\ db2.apps = db.apps /\ db2.instances = db.instances
      /\ db2.bindings = Without(db.bindings, {n})
  BY DEF Whole
<1>. HIDE DEF db2
<1>2. Less(db.bindings, db2.bindings, {n})
  BY <1>1, WithoutLess
<1>3. Fewer(db.bindings, db2.bindings) /\ Fewer(db.apps, db2.apps) /\ Fewer(db.instances, db2.instances)
  BY <1>1, <1>2, LessFewer, FewerSelf
<1>4. db.next <= db2.next
  BY <1>1 DEF Whole
<1>5. Onward(db, db2)
  BY <1>1, <1>3, <1>4, FewerKept DEF Onward
<1>. QED BY <1>5 DEF db2

LEMMA TurnsOnward ==
    ASSUME NEW db, Whole(db), NEW n \in DOMAIN db.bindings
    PROVE  Onward(db, [db EXCEPT !.bindings[n].enabled = ~@])
<1>. DEFINE row == [db.bindings[n] EXCEPT !.enabled = ~@]
            db2 == [db EXCEPT !.bindings[n].enabled = ~@]
<1>1. BindingRow(db, db.bindings[n])
  BY BindingRows
<1>2. row.github_app_id = db.bindings[n].github_app_id /\ row.repo = db.bindings[n].repo
  BY <1>1, TurnedRow
<1>3. /\ db2.next = db.next /\ db2.users = db.users /\ db2.apps = db.apps /\ db2.instances = db.instances
      /\ db2.bindings = [db.bindings EXCEPT ![n] = row]
  BY DEF Whole
<1>. HIDE DEF row, db2
<1>4. Kept(db, db2)
  BY <1>2, <1>3 DEF Kept
<1>5. Fewer(db.apps, db2.apps) /\ Fewer(db.instances, db2.instances) /\ db.next <= db2.next
  BY <1>3, FewerSelf DEF Whole
<1>6. Onward(db, db2)
  BY <1>3, <1>4, <1>5 DEF Onward
<1>. QED BY <1>6 DEF db2

LEMMA UpsertedOnward ==
    ASSUME NEW db, Whole(db), NEW row, SameKey(db, row) = {}
    PROVE  Onward(db, Upserted(db, row))
<1>. DEFINE db2 == Upserted(db, row)
<1>1. SameBut(db, db2, "bindings") /\ Later(db, db2)
  BY UpsertedIs
<1>2. PICK n : /\ Put(db.bindings, db2.bindings, n, row) /\ (n = db.next \/ n \in SameKey(db, row))
  BY UpsertedIs
<1>. HIDE DEF db2
<1>3. n = db.next /\ db.next \in Nat
  BY <1>2 DEF Whole
<1>4. Kept(db, db2)
  BY <1>2, <1>3 DEF Put, Kept
<1>5. db2.users = db.users /\ db2.apps = db.apps /\ db2.instances = db.instances /\ db.next <= db2.next
  BY <1>1 DEF SameBut, Later
<1>6. Onward(db, db2)
  BY <1>4, <1>5, FewerSelf DEF Onward
<1>. QED BY <1>6 DEF db2

-----------------------------------------------------------------------------
(* Each action keeps the invariant.                                        *)

LEMMA InvIs ==
    ASSUME IInv
    PROVE  /\ Whole(d) /\ Whole(tab.of) /\ signedIn \in BOOLEAN /\ (signedIn => d.users)
           /\ load.hops \in 0..(MaxRedirects + 1) /\ submits \in 0..MaxSubmits /\ others \in 0..MaxOthers
           /\ TabFrom(tab) /\ LoadTo(load) /\ (sent # Unsent => load # Idle) /\ (load = Idle => Since(tab.of, d))
           /\ MaxSubmits \in Nat /\ MaxOthers \in Nat /\ MaxRedirects \in Nat
BY BoundsAssumption DEF IInv, TypeOK

LEMMA OtherInv ==
    ASSUME IInv, NEW db, Other(db), UNCHANGED signedIn, Whole(db), Onward(d, db)
    PROVE  IInv'
<1>1. d' = db /\ others < MaxOthers /\ others' = others + 1 /\ sent' = Unsent /\ UNCHANGED <<tab, load, submits>>
  BY OtherIs
<1>2. Whole(d)' /\ (Whole(tab.of))' /\ (signedIn \in BOOLEAN)' /\ (signedIn => d.users)'
  BY <1>1, InvIs DEF Onward
<1>3. others' \in 0..MaxOthers
  BY <1>1, InvIs
<1>4. TypeOK'
  BY <1>1, <1>2, <1>3, InvIs DEF TypeOK
<1>5. (load = Idle => Since(tab.of, d))'
  <2>1. load = Idle => Since(tab.of, db)
    BY InvIs, SinceOnward
  <2>. QED BY <1>1, <2>1
<1>6. TabFrom(tab)' /\ LoadTo(load)' /\ (sent # Unsent => load # Idle)'
  BY <1>1, InvIs
<1>. QED BY <1>4, <1>5, <1>6 DEF IInv

LEMMA AppGoesInv == ASSUME IInv, AppGoes PROVE IInv'
<1>1. PICK n \in DOMAIN d.apps : Other(DeletedApp(d, n))
  BY DEF AppGoes
<1>2. Whole(DeletedApp(d, n)) /\ Onward(d, DeletedApp(d, n))
  BY InvIs, DeletedAppWhole, DeletedAppOnward
<1>. QED BY <1>1, <1>2, OtherInv DEF AppGoes

LEMMA InstanceGoesInv == ASSUME IInv, InstanceGoes PROVE IInv'
<1>1. PICK n \in DOMAIN d.instances : Other(DeletedInstance(d, n))
  BY DEF InstanceGoes
<1>2. Whole(DeletedInstance(d, n)) /\ Onward(d, DeletedInstance(d, n))
  BY InvIs, DeletedInstanceWhole, DeletedInstanceOnward
<1>. QED BY <1>1, <1>2, OtherInv DEF InstanceGoes

LEMMA BindingGoesInv == ASSUME IInv, BindingGoes PROVE IInv'
<1>1. PICK n \in DOMAIN d.bindings : Other([d EXCEPT !.bindings = Without(@, {n})])
  BY DEF BindingGoes
<1>2. Whole([d EXCEPT !.bindings = Without(@, {n})]) /\ Onward(d, [d EXCEPT !.bindings = Without(@, {n})])
  BY InvIs, BindingGoneWhole, BindingGoneOnward
<1>. QED BY <1>1, <1>2, OtherInv DEF BindingGoes

LEMMA BindingTurnsInv == ASSUME IInv, BindingTurns PROVE IInv'
<1>1. PICK n \in DOMAIN d.bindings : Other([d EXCEPT !.bindings[n].enabled = ~@])
  BY DEF BindingTurns
<1>2. Whole([d EXCEPT !.bindings[n].enabled = ~@]) /\ Onward(d, [d EXCEPT !.bindings[n].enabled = ~@])
  BY InvIs, TurnsWhole, TurnsOnward
<1>. QED BY <1>1, <1>2, OtherInv DEF BindingTurns

LEMMA BindingComesInv == ASSUME IInv, BindingComes PROVE IInv'
<1>1. PICK n \in DOMAIN d.apps, repo \in Repos :
         LET row == [NoBinding EXCEPT !.github_app_id = n, !.repo = repo, !.enabled = TRUE]
         IN SameKey(d, row) = {} /\ Other(Upserted(d, row))
  BY DEF BindingComes
<1>. DEFINE row == [NoBinding EXCEPT !.github_app_id = n, !.repo = repo, !.enabled = TRUE]
<1>2. SameKey(d, row) = {} /\ Other(Upserted(d, row))
  BY <1>1
<1>3. Counted(Upserted(d, row))
  BY <1>2, OtherIs
<1>4. Whole(Upserted(d, row))
  BY <1>3, InvIs, ComesWhole
<1>5. Onward(d, Upserted(d, row))
  BY <1>2, InvIs, UpsertedOnward
<1>. QED BY <1>2, <1>4, <1>5, OtherInv DEF BindingComes

LEMMA AddressChangesInv == ASSUME IInv, AddressChanges PROVE IInv'
<1>1. PICK text \in Typed \ {Unfit} : Other([d EXCEPT !.settings.public_base_url = text])
  BY DEF AddressChanges
<1>. DEFINE db2 == [d EXCEPT !.settings.public_base_url = text]
<1>2. Whole(db2)
  BY InvIs, AddressChangesWhole
<1>3. /\ db2.next = d.next /\ db2.users = d.users /\ db2.apps = d.apps /\ db2.instances = d.instances
      /\ db2.bindings = d.bindings /\ d.next <= d.next
  BY InvIs DEF Whole
<1>. HIDE DEF db2
<1>4. Onward(d, db2)
  BY <1>3, InvIs, SameRowsOnward
<1>5. Other(db2)
  BY <1>1 DEF db2
<1>. QED BY <1>2, <1>4, <1>5, OtherInv DEF AddressChanges

LEMMA JobArrivesInv == ASSUME IInv, JobArrives PROVE IInv'
<1>1. PICK n \in Enabled(d) :
         Other([d EXCEPT !.jobs = <<[id |-> d.next, repo |-> d.bindings[n].repo,
                                     app |-> d.bindings[n].github_app_id, status |-> "queued",
                                     shareable |-> d.bindings[n].shareable_logs]>> \o @,
                         !.next = @ + 1])
  BY DEF JobArrives
<1>. DEFINE row == [id |-> d.next, repo |-> d.bindings[n].repo, app |-> d.bindings[n].github_app_id,
                    status |-> "queued", shareable |-> d.bindings[n].shareable_logs]
            db2 == [d EXCEPT !.jobs = <<row>> \o @, !.next = @ + 1]
<1>2. Other(db2) /\ Counted(db2)
  BY <1>1, OtherIs
<1>3. Whole(db2)
  BY <1>2, InvIs, JobArrivesKeeps
<1>4. /\ db2.next = d.next + 1 /\ db2.users = d.users /\ db2.apps = d.apps /\ db2.instances = d.instances
      /\ db2.bindings = d.bindings /\ d.next \in Nat
  BY InvIs DEF Whole
<1>. HIDE DEF db2
<1>5. Onward(d, db2)
  BY <1>4, InvIs, SameRowsOnward
<1>. QED BY <1>2, <1>3, <1>5, OtherInv DEF JobArrives

LEMMA JobMovesInv == ASSUME IInv, JobMoves PROVE IInv'
<1>1. PICK i \in DOMAIN d.jobs, status \in Statuses : Other([d EXCEPT !.jobs[i].status = status])
  BY DEF JobMoves, Statuses
<1>. DEFINE db2 == [d EXCEPT !.jobs[i].status = status]
<1>2. Whole(db2)
  BY InvIs, JobMovesWhole
<1>3. /\ db2.next = d.next /\ db2.users = d.users /\ db2.apps = d.apps /\ db2.instances = d.instances
      /\ db2.bindings = d.bindings /\ d.next <= d.next
  BY InvIs DEF Whole
<1>. HIDE DEF db2
<1>4. Onward(d, db2)
  BY <1>3, InvIs, SameRowsOnward
<1>5. Other(db2)
  BY <1>1 DEF db2
<1>. QED BY <1>2, <1>4, <1>5, OtherInv DEF JobMoves

LEMMA JobPrunedInv == ASSUME IInv, JobPruned PROVE IInv'
<1>. DEFINE db2 == [d EXCEPT !.jobs = SubSeq(@, 1, Len(@) - 1)]
<1>1. Other(db2) /\ d.jobs # <<>>
  BY DEF JobPruned
<1>2. Whole(db2)
  BY <1>1, InvIs, JobPrunedWhole
<1>3. /\ db2.next = d.next /\ db2.users = d.users /\ db2.apps = d.apps /\ db2.instances = d.instances
      /\ db2.bindings = d.bindings /\ d.next <= d.next
  BY InvIs DEF Whole
<1>. HIDE DEF db2
<1>4. Onward(d, db2)
  BY <1>3, InvIs, SameRowsOnward
<1>. QED BY <1>1, <1>2, <1>4, OtherInv DEF JobPruned

LEMMA DockerTurnsInv == ASSUME IInv, DockerTurns PROVE IInv'
<1>. DEFINE db2 == [d EXCEPT !.docker = ~@]
<1>1. Other(db2)
  BY DEF DockerTurns
<1>2. Whole(db2)
  BY InvIs, DockerTurnsWhole
<1>3. /\ db2.next = d.next /\ db2.users = d.users /\ db2.apps = d.apps /\ db2.instances = d.instances
      /\ db2.bindings = d.bindings /\ d.next <= d.next
  BY InvIs DEF Whole
<1>. HIDE DEF db2
<1>4. Onward(d, db2)
  BY <1>3, InvIs, SameRowsOnward
<1>. QED BY <1>1, <1>2, <1>4, OtherInv DEF DockerTurns

LEMMA SessionEndsInv == ASSUME IInv, SessionEnds PROVE IInv'
<1>1. others' \in 0..MaxOthers
  BY InvIs DEF SessionEnds
<1>2. TypeOK'
  BY <1>1, InvIs DEF TypeOK, SessionEnds
<1>3. TabFrom(tab)' /\ LoadTo(load)' /\ (sent # Unsent => load # Idle)' /\ (load = Idle => Since(tab.of, d))'
  BY InvIs DEF SessionEnds
<1>. QED BY <1>2, <1>3 DEF IInv

LEMMA TokenExpiresInv == ASSUME IInv, TokenExpires PROVE IInv'
<1>1. others' \in 0..MaxOthers
  BY InvIs DEF TokenExpires
<1>2. tab = [at |-> tab.at, of |-> tab.of, listed |-> tab.listed, user |-> tab.user, token |-> tab.token]
  BY InvIs DEF TabFrom
<1>3. /\ tab' = [at |-> tab'.at, of |-> tab'.of, listed |-> tab'.listed, user |-> tab'.user, token |-> tab'.token]
      /\ tab'.at = tab.at /\ tab'.of = tab.of /\ tab'.listed = tab.listed /\ tab'.user = tab.user
  <2>1. tab' = [at |-> tab.at, of |-> tab.of, listed |-> tab.listed, user |-> tab.user, token |-> FALSE]
    BY <1>2 DEF TokenExpires
  <2>. QED BY <2>1
<1>4. TabFrom(tab)'
  BY <1>3, InvIs DEF TabFrom
<1>5. TypeOK'
  BY <1>1, <1>3, InvIs DEF TypeOK, TokenExpires
<1>6. LoadTo(load)' /\ (sent # Unsent => load # Idle)' /\ (load = Idle => Since(tab.of, d))'
  BY <1>3, InvIs DEF TokenExpires
<1>. QED BY <1>4, <1>5, <1>6 DEF IInv

LEMMA AddressOfPage == \A a : Address(a) => a.page \notin {"", "gaveup"}
BY AddressIsNot

\* A page with anything on it was drawn.
LEMMA ViewDrawn ==
    ASSUME NEW t, NEW x, x \in Ways(View(t)) \/ x \in View(t).forms
    PROVE  t.at.page \notin {"", "gaveup"}
<1>1. x \notin Ways(Nothing) /\ x \notin Nothing.forms
  BY LinkWays, LinkForms
<1>. QED BY <1>1 DEF View

LEMMA WaysAddress == ASSUME TabFrom(tab), Whole(tab.of), NEW a \in Ways(View(tab)) PROVE Address(a) /\ Address(tab.at)
<1>1. tab.at.page \notin {"", "gaveup"}
  BY ViewDrawn
<1>2. DrawnFrom(tab.of, tab.at) /\ Address(tab.at)
  BY <1>1 DEF TabFrom
<1>3. Leaves(tab.of, tab.at, a)
  BY <1>2, ViewWays
<1>4. Address(At("login"))
  BY PageAddress DEF PageNames
<1>. QED BY <1>2, <1>3, <1>4 DEF Leaves, Goes, Address

LEMMA LoadNew ==
    ASSUME NEW to, Address(to), NEW referer, referer = Nowhere \/ Address(referer), NEW hops
    PROVE  /\ LoadTo([to |-> to, referer |-> referer, hops |-> hops])
           /\ [to |-> to, referer |-> referer, hops |-> hops] # Idle
<1>. DEFINE l == [to |-> to, referer |-> referer, hops |-> hops]
<1>1. l.to = to /\ l.referer = referer /\ l = [to |-> l.to, referer |-> l.referer, hops |-> l.hops]
  OBVIOUS
<1>. HIDE DEF l
<1>2. Nowhere.page = ""
  BY PageIs DEF Nowhere
<1>3. LoadTo(l)
  BY <1>1, <1>2 DEF LoadTo
<1>4. l # Idle
  BY <1>1, IdleIs, AddressIsNot
<1>. QED BY <1>3, <1>4 DEF l

LEMMA OpenInv ==
    ASSUME IInv, NEW a, Address(a), NEW referer, referer = Nowhere \/ Address(referer), Open(a, referer)
    PROVE  IInv'
<1>1. /\ load = Idle /\ load' = [to |-> a, referer |-> referer, hops |-> 0]
      /\ UNCHANGED <<d, signedIn, tab, sent, submits, others>>
  BY DEF Open
<1>2. LoadTo(load') /\ load' # Idle
  BY <1>1, LoadNew
<1>3. load'.hops = 0
  BY <1>1
<1>4. load'.hops \in 0..(MaxRedirects + 1)
  BY <1>3, InvIs
<1>5. TypeOK'
  BY <1>1, <1>4, InvIs DEF TypeOK
<1>6. TabFrom(tab)' /\ LoadTo(load)' /\ (sent # Unsent => load # Idle)' /\ (load = Idle => Since(tab.of, d))'
  BY <1>1, <1>2, InvIs
<1>. QED BY <1>5, <1>6 DEF IInv

LEMMA FollowInv == ASSUME IInv, Follow PROVE IInv'
<1>1. PICK a \in View(tab).links \cup View(tab).searches : Open(a, tab.at)
  BY DEF Follow
<1>2. a \in Ways(View(tab))
  BY <1>1 DEF Ways
<1>3. Address(a) /\ Address(tab.at)
  BY <1>2, InvIs, WaysAddress
<1>. QED BY <1>1, <1>3, OpenInv

LEMMA VisitInv == ASSUME IInv, Visit PROVE IInv'
<1>1. PICK a \in Bookmarks : Open(a, Nowhere)
  BY DEF Visit
<1>2. Address(a)
  BY BookmarksAssumption DEF Address
<1>. QED BY <1>1, <1>2, OpenInv

LEMMA RefreshInv == ASSUME IInv, Refresh PROVE IInv'
<1>1. tab.user /\ Open(tab.at, tab.at)
  BY DEF Refresh
<1>2. Address(tab.at)
  BY <1>1, InvIs DEF TabFrom
<1>. QED BY <1>1, <1>2, OpenInv

LEMMA RedirectInv == ASSUME IInv, Redirect PROVE IInv'
<1>. DEFINE to == Serve(signedIn, load.to)
            next == IF to # Back THEN to
                    ELSE IF load.referer.page \in {"", "github"} THEN At("home") ELSE load.referer
<1>1. /\ load # Idle /\ to # Drawn /\ load.hops < MaxRedirects /\ sent' = Unsent
      /\ load' = [load EXCEPT !.hops = @ + 1, !.to = next]
      /\ UNCHANGED <<d, signedIn, tab, submits, others>>
  BY DEF Redirect
<1>2. Address(load.to) /\ (load.referer.page # "" => Address(load.referer))
  BY <1>1, InvIs DEF LoadTo
<1>3. Lands(to)
  BY <1>1, <1>2, ServeLands
<1>4. Address(At("home"))
  BY PageAddress DEF PageNames
<1>5. Address(next)
  BY <1>2, <1>3, <1>4, LandsIs
<1>. HIDE DEF next, to
<1>6. load = [to |-> load.to, referer |-> load.referer, hops |-> load.hops]
  BY InvIs DEF LoadTo
<1>7. load' = [to |-> next, referer |-> load.referer, hops |-> load.hops + 1]
  BY <1>1, <1>6
<1>8. load'.to = next /\ load'.referer = load.referer /\ load'.hops = load.hops + 1
      /\ load' = [to |-> load'.to, referer |-> load'.referer, hops |-> load'.hops]
  BY <1>7
<1>9. LoadTo(load') /\ load' # Idle
  BY <1>2, <1>5, <1>8, IdleIs, AddressIsNot DEF LoadTo
<1>10. load'.hops \in 0..(MaxRedirects + 1)
  BY <1>1, <1>8, InvIs
<1>11. TypeOK'
  BY <1>1, <1>10, InvIs DEF TypeOK
<1>12. TabFrom(tab)' /\ LoadTo(load)' /\ (sent # Unsent => load # Idle)' /\ (load = Idle => Since(tab.of, d))'
  BY <1>1, <1>9, InvIs
<1>. QED BY <1>11, <1>12 DEF IInv

LEMMA IdleLoad == LoadTo(Idle)
<1>1. Nowhere.page = ""
  BY PageIs DEF Nowhere
<1>2. Idle = [to |-> Idle.to, referer |-> Idle.referer, hops |-> Idle.hops]
  BY DEF Idle
<1>. QED BY <1>1, <1>2, IdleIs DEF LoadTo

LEMMA GiveUpInv == ASSUME IInv, GiveUp PROVE IInv'
<1>1. /\ load' = Idle /\ sent' = Unsent /\ UNCHANGED <<d, signedIn, submits, others>>
      /\ tab' = [at |-> At("gaveup"), of |-> d, listed |-> {}, user |-> FALSE, token |-> TRUE]
  BY DEF GiveUp
<1>2. /\ tab' = [at |-> tab'.at, of |-> tab'.of, listed |-> tab'.listed, user |-> tab'.user, token |-> tab'.token]
      /\ tab'.at = At("gaveup") /\ tab'.of = d /\ tab'.listed = {} /\ tab'.user = FALSE
  BY <1>1
<1>3. tab'.at.page = "gaveup"
  BY <1>2, PageIs
<1>4. TabFrom(tab')
  BY <1>2, <1>3 DEF TabFrom
<1>5. Idle.hops \in 0..(MaxRedirects + 1)
  BY IdleIs, InvIs
<1>6. TypeOK'
  BY <1>1, <1>2, <1>5, InvIs DEF TypeOK
<1>7. TabFrom(tab)' /\ LoadTo(load)' /\ (sent # Unsent => load # Idle)' /\ (load = Idle => Since(tab.of, d))'
  BY <1>1, <1>2, <1>4, InvIs, IdleLoad, SinceSelf
<1>. QED BY <1>6, <1>7 DEF IInv

LEMMA PageOfDrawn ==
    ASSUME NEW a, Address(a), DrawnFrom(d, a)
    PROVE  DrawnFrom(d, PageOf(a)) /\ Address(PageOf(a))
<1>1. Address(At("error")) /\ At("error").page = "error"
  BY PageAddress, PageIs DEF PageNames
<1>2. DrawnFrom(d, At("error"))
  BY <1>1 DEF DrawnFrom, PageNames
<1>. QED BY <1>1, <1>2 DEF PageOf

LEMMA DrawInv == ASSUME IInv, Draw PROVE IInv'
<1>1. PICK listed \in Listings(load.to) :
         tab' = [at |-> PageOf(load.to), of |-> d, listed |-> listed,
                 user |-> UserOf(signedIn, load.to), token |-> TRUE]
  BY DEF Draw
<1>2. /\ load # Idle /\ Serve(signedIn, load.to) = Drawn /\ load' = Idle /\ sent' = Unsent
      /\ UNCHANGED <<d, signedIn, submits, others>>
  BY DEF Draw
<1>3. listed \subseteq Repos
  BY DEF Listings
<1>4. Address(load.to)
  BY <1>2, InvIs DEF LoadTo
<1>5. DrawnFrom(d, load.to) /\ (d.users => load.to.page # "setup")
  BY <1>2, <1>4, ServeLands
<1>. DEFINE at == PageOf(load.to)
            user == UserOf(signedIn, load.to)
<1>6. DrawnFrom(d, at) /\ Address(at)
  BY <1>4, <1>5, PageOfDrawn
<1>7. user \in BOOLEAN /\ (user => signedIn /\ at = load.to)
  BY InvIs DEF UserOf
<1>. HIDE DEF at, user
<1>8. tab' = [at |-> at, of |-> d, listed |-> listed, user |-> user, token |-> TRUE]
  BY <1>1 DEF at, user
<1>9. /\ tab' = [at |-> tab'.at, of |-> tab'.of, listed |-> tab'.listed, user |-> tab'.user, token |-> tab'.token]
      /\ tab'.at = at /\ tab'.of = d /\ tab'.listed = listed /\ tab'.user = user
  BY <1>8
<1>10. at.page \notin {"", "gaveup"}
  BY <1>6, AddressOfPage
<1>11. user => at.page # "setup"
  BY <1>5, <1>7, InvIs
<1>12. TabFrom(tab')
  BY <1>3, <1>6, <1>7, <1>9, <1>10, <1>11 DEF TabFrom
<1>13. Idle.hops \in 0..(MaxRedirects + 1)
  BY IdleIs, InvIs
<1>14. TypeOK'
  BY <1>2, <1>9, <1>13, InvIs DEF TypeOK
<1>15. TabFrom(tab)' /\ LoadTo(load)' /\ (sent # Unsent => load # Idle)' /\ (load = Idle => Since(tab.of, d))'
  BY <1>2, <1>9, <1>12, InvIs, IdleLoad, SinceSelf
<1>. QED BY <1>14, <1>15 DEF IInv

LEMMA SubmitInv == ASSUME IInv, Submit PROVE IInv'
<1>1. PICK form \in View(tab).forms : \E in \in Fillings(form.fields) :
       \E answer \in Handle(signedIn, tab.token, form, in) :
           /\ d' = answer.d /\ Counted(answer.d)
           /\ signedIn' = answer.user
           /\ load' = [to |-> IF answer.to # Back THEN answer.to
                              ELSE IF tab.at.page = "github" THEN At("home") ELSE tab.at,
                       referer |-> tab.at, hops |-> 1]
           /\ sent' = [to |-> form.to, id |-> form.id, in |-> in]
  BY DEF Submit
<1>2. PICK in \in Fillings(form.fields) :
       \E answer \in Handle(signedIn, tab.token, form, in) :
           /\ d' = answer.d /\ Counted(answer.d)
           /\ signedIn' = answer.user
           /\ load' = [to |-> IF answer.to # Back THEN answer.to
                              ELSE IF tab.at.page = "github" THEN At("home") ELSE tab.at,
                       referer |-> tab.at, hops |-> 1]
           /\ sent' = [to |-> form.to, id |-> form.id, in |-> in]
  BY <1>1
<1>3. PICK answer \in Handle(signedIn, tab.token, form, in) :
           /\ d' = answer.d /\ Counted(answer.d)
           /\ signedIn' = answer.user
           /\ load' = [to |-> IF answer.to # Back THEN answer.to
                              ELSE IF tab.at.page = "github" THEN At("home") ELSE tab.at,
                       referer |-> tab.at, hops |-> 1]
           /\ sent' = [to |-> form.to, id |-> form.id, in |-> in]
  BY <1>2
<1>4. load = Idle /\ submits < MaxSubmits /\ submits' = submits + 1 /\ UNCHANGED <<tab, others>>
  BY DEF Submit
<1>5. tab.at.page \notin {"", "gaveup"}
  BY <1>1, ViewDrawn
<1>6. DrawnFrom(tab.of, tab.at) /\ Address(tab.at) /\ tab.listed \subseteq Repos
  BY <1>5, InvIs DEF TabFrom
<1>7. 0 \notin DOMAIN tab.of.bindings
  BY InvIs DEF Whole, WholeBindings, Keys
<1>8. Offered(tab.of, tab.at, tab.listed, form)
  BY <1>1, <1>6, <1>7, ViewForms
<1>9. Readable(form.to, in) /\ form.to \in Actions
  BY <1>2, <1>6, <1>8, InvIs, FormReads
<1>10. Sound(answer) /\ Signed(answer)
  BY <1>3, <1>9, InvIs, HandleSound
<1>11. Whole(d') /\ (signedIn \in BOOLEAN)' /\ (signedIn => d.users)'
  BY <1>3, <1>10 DEF Sound, Signed
<1>. DEFINE to == IF answer.to # Back THEN answer.to ELSE IF tab.at.page = "github" THEN At("home") ELSE tab.at
<1>12. Address(to)
  <2>1. Address(At("home"))
    BY PageAddress DEF PageNames
  <2>2. answer.to = Back \/ Address(answer.to)
    BY <1>10, LandsIs DEF Sound
  <2>. QED BY <1>6, <2>1, <2>2
<1>. HIDE DEF to
<1>13. load' = [to |-> to, referer |-> tab.at, hops |-> 1]
  BY <1>3 DEF to
<1>14. LoadTo(load') /\ load' # Idle
  BY <1>6, <1>12, <1>13, LoadNew
<1>15. load'.hops = 1
  BY <1>13
<1>16. load'.hops \in 0..(MaxRedirects + 1) /\ submits' \in 0..MaxSubmits
  BY <1>4, <1>15, InvIs
<1>17. TypeOK'
  BY <1>4, <1>11, <1>16, InvIs DEF TypeOK
<1>18. TabFrom(tab)' /\ LoadTo(load)' /\ (sent # Unsent => load # Idle)' /\ (load = Idle => Since(tab.of, d))'
  BY <1>4, <1>14, InvIs
<1>. QED BY <1>17, <1>18 DEF IInv

LEMMA StepInv == IInv /\ [Next]_vars => IInv'
<1>. SUFFICES ASSUME IInv, [Next]_vars PROVE IInv'
  OBVIOUS
<1>1. CASE Follow \/ Visit \/ Refresh
  BY <1>1, FollowInv, VisitInv, RefreshInv
<1>2. CASE Redirect \/ GiveUp \/ Draw \/ Submit
  BY <1>2, RedirectInv, GiveUpInv, DrawInv, SubmitInv
<1>3. CASE AppGoes \/ InstanceGoes \/ BindingGoes \/ BindingTurns \/ BindingComes \/ AddressChanges
  BY <1>3, AppGoesInv, InstanceGoesInv, BindingGoesInv, BindingTurnsInv, BindingComesInv, AddressChangesInv
<1>4. CASE JobArrives \/ JobMoves \/ JobPruned \/ DockerTurns \/ SessionEnds \/ TokenExpires
  BY <1>4, JobArrivesInv, JobMovesInv, JobPrunedInv, DockerTurnsInv, SessionEndsInv, TokenExpiresInv
<1>5. CASE UNCHANGED vars
  BY <1>5 DEF vars, IInv, TypeOK
<1>. QED BY <1>1, <1>2, <1>3, <1>4, <1>5 DEF Next

\* The database keeps its schema and passes the checks of every write, after
\* whatever forms were posted and whatever others did; so does the copy the page
\* on the screen was drawn from.  Nobody is signed in before setup has run.
THEOREM TypeCorrect == Spec => []TypeOK
<1>1. IInv => TypeOK
  BY DEF IInv
<1>. QED BY <1>1, InitInv, StepInv, PTL DEF Spec

-----------------------------------------------------------------------------
(* What a page that was drawn a moment ago offers works: its links.        *)

LEMMA GuardedDrawn == ASSUME d.users PROVE Guarded(TRUE, Drawn) = Drawn
BY DEF Guarded

LEMMA GoesDrawn ==
    ASSUME d.users, NEW a, Goes(d, a)
    PROVE  Serve(TRUE, a) = Drawn /\ PageOf(a) = a
<1>1. CASE a.page = "run"
  <2>1. \E j \in Elements(d.jobs) : j.id = a.id
    BY <1>1 DEF Goes
  <2>2. PageOf(a) = a
    BY <2>1 DEF PageOf, Job
  <2>3. Serve(TRUE, a) = ServeRun(TRUE, a)
    BY <1>1 DEF Serve
  <2>. QED BY <2>2, <2>3 DEF ServeRun
<1>2. CASE a.page # "run"
  <2>1. PageOf(a) = a
    BY <1>2 DEF PageOf
  <2>2. CASE a.page = "coolify"
    <3>1. ServeCoolify(a) = Drawn
      BY <2>2 DEF Goes, ServeCoolify
    <3>2. Serve(TRUE, a) = Guarded(TRUE, ServeCoolify(a))
      BY <2>2 DEF Serve
    <3>. QED BY <2>1, <3>1, <3>2, GuardedDrawn
  <2>3. CASE a.page = "apps"
    <3>1. ServeApps(a) = Drawn
      BY <2>3 DEF Goes, ServeApps
    <3>2. Serve(TRUE, a) = Guarded(TRUE, ServeApps(a))
      BY <2>3 DEF Serve
    <3>. QED BY <2>1, <3>1, <3>2, GuardedDrawn
  <2>4. CASE a.page = "app.edit"
    <3>1. ServeAppEdit(a) = Drawn
      BY <2>4 DEF Goes, ServeAppEdit
    <3>2. Serve(TRUE, a) = Guarded(TRUE, ServeAppEdit(a))
      BY <2>4 DEF Serve
    <3>. QED BY <2>1, <3>1, <3>2, GuardedDrawn
  <2>5. CASE a.page = "repos"
    <3>1. ServeRepos(a) = Drawn
      BY <2>5 DEF Goes, ServeRepos
    <3>2. Serve(TRUE, a) = Guarded(TRUE, ServeRepos(a))
      BY <2>5 DEF Serve
    <3>. QED BY <2>1, <3>1, <3>2, GuardedDrawn
  <2>6. CASE a.page \in {"repo", "repo.edit", "resolve"}
    <3>1. ServeRepo(a) = Drawn
      BY <2>6 DEF Goes, ServeRepo
    <3>2. Serve(TRUE, a) = Guarded(TRUE, ServeRepo(a))
      BY <2>6 DEF Serve
    <3>. QED BY <2>1, <3>1, <3>2, GuardedDrawn
  <2>7. CASE a.page = "jobs"
    <3>1. ServeJobs(a) = Drawn
      BY <2>7 DEF Goes, ServeJobs
    <3>2. Serve(TRUE, a) = Guarded(TRUE, ServeJobs(a))
      BY <2>7 DEF Serve
    <3>. QED BY <2>1, <3>1, <3>2, GuardedDrawn
  <2>8. CASE a.page \notin {"coolify", "apps", "app.edit", "repos", "repo", "repo.edit", "resolve", "jobs"}
    <3>1. a.page \notin {"login", "setup", "error", "github"}
      BY DEF Goes
    <3>2. Serve(TRUE, a) = Guarded(TRUE, Drawn)
      BY <1>2, <2>8, <3>1 DEF Serve
    <3>. QED BY <2>1, <3>2, GuardedDrawn
  <2>. QED BY <2>2, <2>3, <2>4, <2>5, <2>6, <2>7, <2>8
<1>. QED BY <1>1, <1>2

LEMMA FreshLinks == ASSUME IInv, Fresh PROVE LinksLand(View(tab).links \cup View(tab).searches)
<1>. SUFFICES ASSUME NEW a \in Ways(View(tab))
              PROVE  Serve(TRUE, a) = Drawn /\ PageOf(a) = a
  BY DEF LinksLand, Ways
<1>1. tab.of = d /\ tab.user /\ d.users
  BY InvIs DEF Fresh
<1>2. tab.at.page \notin {"", "gaveup"}
  BY ViewDrawn
<1>3. DrawnFrom(d, tab.at)
  BY <1>1, <1>2, InvIs DEF TabFrom
<1>4. Whole(tab.of) /\ (tab.at.page \notin {"", "gaveup"} => DrawnFrom(tab.of, tab.at))
  BY <1>1, <1>3, InvIs
<1>5. Leaves(d, tab.at, a)
  BY <1>1, <1>4, ViewWays
<1>6. CASE tab.at.page = "error"
  <2>1. View(tab) = Render(d, tab.at, tab.listed, tab.user)
    BY <1>1, <1>6 DEF View
  <2>2. View(tab) = Error(tab.user)
    BY <1>6, <2>1 DEF Render
  <2>3. Goes(d, a)
    BY <1>1, <2>2, UserErrorWays
  <2>. QED BY <1>1, <2>3, GoesDrawn
<1>7. CASE tab.at.page # "error"
  BY <1>1, <1>5, <1>7, GoesDrawn DEF Leaves
<1>. QED BY <1>6, <1>7

-----------------------------------------------------------------------------
(* Its forms: the server takes what the browser lets through.              *)

\* The user typed what a validator refuses.
Mended(in) == Unfit \in UNION {in[c] : c \in DOMAIN in}

LEMMA UnfitMended == ASSUME NEW in, NEW f, Str(in, f) = Unfit PROVE Mended(in)
<1>1. Unfit # ""
  BY UnfitAssumption
<1>2. Has(in, f)
  BY <1>1 DEF Str
<1>3. f \in DOMAIN in /\ \E v : v \in in[f]
  BY <1>2 DEF Has, StrList
<1>4. Unfit \in in[f]
  <2>1. Unfit = CHOOSE v \in in[f] : TRUE
    BY <1>2 DEF Str
  <2>. QED BY <1>3, <2>1
<1>. QED BY <1>3, <1>4 DEF Mended

LEMMA MendedExcused == ASSUME NEW form, NEW in, Mended(in) PROVE Excused(form, in)
BY DEF Mended, Excused

LEMMA AnswerNotice == \A db, to, notice : Answer(db, to, notice).notice = notice
BY DEF Answer

LEMMA TriedTaken == ASSUME NEW db, NEW to, NEW answer \in Tried(db, to) PROVE answer.notice # "err"
<1>1. answer = Answer(db, to, "ok") \/ answer = Answer(db, to, "outside")
  BY DEF Tried
<1>. QED BY <1>1, AnswerNotice

\* A field of one of these texts.
Sends(field, texts) == field.may \subseteq {{v} : v \in texts}

LEMMA TextSends ==
    /\ \A value : Sends(Text(value), Typed \cup {value, ""})
    /\ \A value : Sends(Required(Text(value)), (Typed \cup {value}) \ {""})
    /\ \A value : Sends(Fixed(value), {value})
    /\ \A value, options : Sends(Select(value, options), options \cup {value})
<1>1. \A value : Sends(Text(value), Typed \cup {value, ""})
  BY DEF Sends, Text, Each
<1>2. \A value : Sends(Required(Text(value)), (Typed \cup {value}) \ {""})
  <2>1. \A value : Required(Text(value)).may = {{v} : v \in Typed \cup {value, ""}} \ {{""}}
    BY DEF Required, Text, Each, One
  <2>2. ASSUME NEW value, NEW w \in Required(Text(value)).may
        PROVE  w \in {{v} : v \in (Typed \cup {value}) \ {""}}
    <3>1. w \in {{v} : v \in Typed \cup {value, ""}} /\ w # {""}
      BY <2>1
    <3>2. PICK v \in Typed \cup {value, ""} : w = {v}
      BY <3>1
    <3>3. v # ""
      BY <3>1, <3>2
    <3>. QED BY <3>2, <3>3
  <2>. QED BY <2>2 DEF Sends
<1>3. \A value : Sends(Fixed(value), {value})
  BY DEF Sends, Fixed, One
<1>4. \A value, options : Sends(Select(value, options), options \cup {value})
  BY DEF Sends, Select, Each
<1>. QED BY <1>1, <1>2, <1>3, <1>4

LEMMA TextSent ==
    ASSUME NEW fields, \A f \in DOMAIN fields : Lets(fields[f]), NEW in \in Fillings(fields),
           NEW f \in DOMAIN fields, NEW texts, Sends(fields[f], texts)
    PROVE  Has(in, f) /\ Str(in, f) \in texts /\ in[f] = {Str(in, f)}
<1>1. f \in DOMAIN in /\ in[f] \in fields[f].may
  BY SentFits
<1>2. PICK v \in texts : in[f] = {v}
  BY <1>1 DEF Sends
<1>. QED BY <1>1, <1>2, StrOne

\* A typed text, and one more.
LEMMA UnfitTyped == Unfit \in Typed /\ Unfit # ""
BY UnfitAssumption

LEMMA RequiredLets == \A value : Lets(Required(Text(value)))
<1>1. \A value : {Unfit} \in Required(Text(value)).may
  <2>. TAKE value
  <2>1. Required(Text(value)).may = {{v} : v \in Typed \cup {value, ""}} \ {{""}}
    BY DEF Required, Text, Each, One
  <2>. QED BY <2>1, UnfitTyped
<1>. QED BY <1>1 DEF Lets

LEMMA SecretLets == \A required : Lets(Secret(required)) /\ Lets(Area(required))
<1>1. \A value : Lets(Text(value))
  BY FieldsLet
<1>. QED BY <1>1, RequiredLets DEF Secret, Area

-----------------------------------------------------------------------------
(* The App's.                                                              *)

LEMMA CountsAreNumbers == Counts \subseteq Numbers /\ Numbers \subseteq Nat
BY NumbersAssumption

\* What a number the browser requires is read as.
LEMMA NumberSent ==
    ASSUME NEW value, NEW w \in Required(Number(value, 1, Most)).may
    PROVE  \E n \in Numbers : n >= 1 /\ w = {Numeral(n)}
<1>1. Required(Number(value, 1, Most)).may =
         {{v} : v \in {""} \cup {Numeral(n) : n \in {k \in Counts : 1 <= k /\ k <= Most}}} \ {{""}}
  BY DEF Required, Number, Each, One
<1>2. PICK v \in {""} \cup {Numeral(n) : n \in {k \in Counts : 1 <= k /\ k <= Most}} : w = {v} /\ v # ""
  BY <1>1
<1>3. PICK n \in Counts : 1 <= n /\ v = Numeral(n)
  BY <1>2
<1>4. n \in Numbers /\ n >= 1
  <2>2. n \in Nat /\ n \in Numbers
    BY CountsAreNumbers
  <2>. QED BY <1>3, <2>2
<1>. QED BY <1>2, <1>3, <1>4

LEMMA NumberLets == \A value : Lets(Required(Number(value, 1, Most)))
<1>1. PICK n \in Counts : n \in Numbers /\ 1 <= n /\ n <= Most
  <2>1. PICK n : n \in Counts
    BY NumbersAssumption
  <2>2. n \in Numbers /\ Numbers \subseteq Nat /\ n # 0
    BY <2>1, NumbersAssumption
  <2>3. 1 <= n
    BY <2>2
  <2>4. \A k \in Numbers : k <= Most
    <3>1. \E m \in Numbers : \A k \in Numbers : k <= m
      BY NumbersAssumption
    <3>. QED BY <3>1 DEF Most
  <2>. QED BY <2>1, <2>2, <2>3, <2>4
<1>2. \A value : {Numeral(n)} \in Required(Number(value, 1, Most)).may
  <2>. TAKE value
  <2>1. Required(Number(value, 1, Most)).may =
           {{v} : v \in {""} \cup {Numeral(k) : k \in {k \in Counts : 1 <= k /\ k <= Most}}} \ {{""}}
    BY DEF Required, Number, Each, One
  <2>2. Numeral(n) # ""
    BY <1>1, NumeralsAssumption
  <2>. QED BY <1>1, <2>1, <2>2
<1>. QED BY <1>2 DEF Lets

LEMMA AppFieldsAre ==
    ASSUME NEW editing \in BOOLEAN, NEW row
    PROVE  LET fields == AppFields(editing, row)
           IN /\ DOMAIN fields = AppColumns
              /\ fields["name"] = Required(Text(row.name)) /\ fields["slug"] = Text(row.slug)
              /\ fields["app_id"] = AppNumber(editing, row) /\ fields["api_url"] = AppAPI(editing, row)
              /\ fields["check_name"] = Text(row.check_name)
              /\ fields["webhook_secret"] = Secret(~editing) /\ fields["pem"] = Area(~editing)
BY DEF AppFields, AppColumns, AppName, AppSlug, AppCheck, AppSecret, AppKey

LEMMA AppFieldsLet ==
    ASSUME NEW editing \in BOOLEAN, NEW row
    PROVE  \A f \in DOMAIN AppFields(editing, row) : Lets(AppFields(editing, row)[f])
<1>. DEFINE fields == AppFields(editing, row)
<1>1. \A value : Lets(Text(value))
  BY FieldsLet
<1>2. Lets(AppNumber(editing, row))
  BY NumberLets DEF AppNumber
<1>3. Lets(AppAPI(editing, row))
  BY <1>1 DEF AppAPI
<1>4. /\ DOMAIN fields = AppColumns
      /\ fields["name"] = Required(Text(row.name)) /\ fields["slug"] = Text(row.slug)
      /\ fields["app_id"] = AppNumber(editing, row) /\ fields["api_url"] = AppAPI(editing, row)
      /\ fields["check_name"] = Text(row.check_name)
      /\ fields["webhook_secret"] = Secret(~editing) /\ fields["pem"] = Area(~editing)
  BY AppFieldsAre
<1>. HIDE DEF fields
<1>5. \A f \in DOMAIN fields : Lets(fields[f])
  BY <1>1, <1>2, <1>3, <1>4, RequiredLets, SecretLets DEF AppColumns
<1>. QED BY <1>5 DEF fields

\* What the App's form is read as, when nothing was typed that the validators refuse.
AppRead(in, editing) ==
    /\ Has(in, "name") /\ Has(in, "slug")
    /\ Str(in, "name") \notin {"", Unfit} /\ Str(in, "slug") # Unfit /\ Str(in, "pem") # Unfit
    /\ \A default : IntOf(in, "app_id", default) > 0
    /\ ~editing => Str(in, "pem") # "" /\ Str(in, "webhook_secret") # ""

LEMMA AppFormRead ==
    ASSUME NEW editing \in BOOLEAN, NEW row, NEW in \in Fillings(AppFields(editing, row)), ~Mended(in)
    PROVE  AppRead(in, editing)
<1>. DEFINE fields == AppFields(editing, row)
<1>1. \A f \in DOMAIN fields : Lets(fields[f])
  BY AppFieldsLet
<1>2. /\ DOMAIN fields = AppColumns
      /\ fields["name"] = Required(Text(row.name)) /\ fields["slug"] = Text(row.slug)
      /\ fields["app_id"] = AppNumber(editing, row)
      /\ fields["webhook_secret"] = Secret(~editing) /\ fields["pem"] = Area(~editing)
  BY AppFieldsAre
<1>3. in \in Fillings(fields)
  OBVIOUS
<1>. HIDE DEF fields
<1>4. /\ "name" \in DOMAIN fields /\ "slug" \in DOMAIN fields /\ "app_id" \in DOMAIN fields
      /\ "webhook_secret" \in DOMAIN fields /\ "pem" \in DOMAIN fields
  BY <1>2 DEF AppColumns
<1>5. Has(in, "name") /\ Str(in, "name") # ""
  <2>. DEFINE texts == (Typed \cup {row.name}) \ {""}
  <2>1. Sends(fields["name"], texts) /\ "" \notin texts
    BY <1>2, TextSends
  <2>. HIDE DEF texts
  <2>2. Has(in, "name") /\ Str(in, "name") \in texts
    BY <1>1, <1>3, <1>4, <2>1, TextSent
  <2>. QED BY <2>1, <2>2
<1>6. Has(in, "slug")
  <2>1. Sends(fields["slug"], Typed \cup {row.slug, ""})
    BY <1>2, TextSends
  <2>. QED BY <1>1, <1>3, <1>4, <2>1, TextSent
<1>7. Str(in, "name") # Unfit /\ Str(in, "slug") # Unfit /\ Str(in, "pem") # Unfit
  BY UnfitMended
<1>8. \A default : IntOf(in, "app_id", default) > 0
  <2>1. in["app_id"] \in AppNumber(editing, row).may /\ "app_id" \in DOMAIN in
    BY <1>1, <1>2, <1>3, <1>4, SentFits
  <2>2. PICK n \in Numbers : n >= 1 /\ in["app_id"] = {Numeral(n)}
    BY <2>1, NumberSent DEF AppNumber
  <2>3. Str(in, "app_id") = Numeral(n)
    BY <2>1, <2>2, StrOne
  <2>4. \A default : IntOf(in, "app_id", default) = n
    BY <2>3, IntOfNumeral
  <2>5. n > 0
    BY <2>2, NumbersAssumption
  <2>. QED BY <2>4, <2>5
<1>9. ASSUME ~editing
      PROVE  Str(in, "pem") # "" /\ Str(in, "webhook_secret") # ""
  <2>1. fields["pem"] = Required(Text("")) /\ fields["webhook_secret"] = Required(Text(""))
    BY <1>2, <1>9 DEF Secret, Area
  <2>. DEFINE texts == (Typed \cup {""}) \ {""}
  <2>2. Sends(fields["pem"], texts) /\ Sends(fields["webhook_secret"], texts) /\ "" \notin texts
    BY <2>1, TextSends
  <2>. HIDE DEF texts
  <2>3. Str(in, "pem") \in texts
    BY <1>1, <1>3, <1>4, <2>2, TextSent
  <2>4. Str(in, "webhook_secret") \in texts
    BY <1>1, <1>3, <1>4, <2>2, TextSent
  <2>. QED BY <2>2, <2>3, <2>4
<1>. QED BY <1>5, <1>6, <1>7, <1>8, <1>9 DEF AppRead

LEMMA StrListed == ASSUME NEW in, NEW f, Has(in, f) PROVE Str(in, f) \in StrList(in, f)
<1>1. f \in DOMAIN in /\ StrList(in, f) = in[f] /\ \E v : v \in in[f]
  BY DEF Has, StrList
<1>2. Str(in, f) = CHOOSE v \in in[f] : TRUE
  BY DEF Str
<1>. QED BY <1>1, <1>2

LEMMA NotExcused ==
    ASSUME NEW form, NEW in, ~Excused(form, in)
    PROVE  /\ ~Mended(in)
           /\ form.to = "settings" => ForksAllowed(d, PatchedRunner(d.settings, in))
           /\ form.to \in {"apps.create", "apps.update", "apps.callback"} => ~SlugTaken(in)
           /\ form.to = "jobs.rerun" => \E j \in Job(d, form.id) : EnabledBinding(d, j) # {}
           /\ form.to = "bindings.bulk" => ~AddressIsStale
BY DEF Excused, Mended

\* The slug of a row is a text of its form.
LEMMA SlugPosted ==
    ASSUME NEW in, NEW row, Has(in, "name"), Has(in, "slug"), row.name = Str(in, "name"), row.slug = Str(in, "slug"),
           row.name \notin {"", Unfit}, row.slug # Unfit
    PROVE  Slug(row) \in StrList(in, "slug") \cup StrList(in, "name") /\ Slug(row) \notin {"", Unfit}
<1>1. Str(in, "name") \in StrList(in, "name") /\ Str(in, "slug") \in StrList(in, "slug")
  BY StrListed
<1>. QED BY <1>1 DEF Slug

LEMMA SlugIsFree ==
    ASSUME NEW in, ~SlugTaken(in), NEW row, Slug(row) \in StrList(in, "slug") \cup StrList(in, "name"), NEW n
    PROVE  SlugFree(d, row, n)
BY DEF SlugTaken, SlugFree

LEMMA PostedAppIs ==
    ASSUME NEW in
    PROVE  LET row == PostedApp(in)
           IN /\ row.name = Str(in, "name") /\ row.slug = Str(in, "slug") /\ row.app_id = IntOf(in, "app_id", 0)
              /\ row.pem = Str(in, "pem") /\ row.webhook_secret = Str(in, "webhook_secret")
BY DEF PostedApp

LEMMA FitIs ==
    ASSUME NEW fit, NEW db, NEW answers, NEW answer \in IfFit(fit, db, answers), fit
    PROVE  answer \in answers
BY DEF IfFit

LEMMA FoundIs ==
    ASSUME NEW found, NEW db, NEW answers, NEW answer \in IfFound(found, db, answers), found
    PROVE  answer \in answers
BY DEF IfFound

LEMMA CreateAppTaken ==
    ASSUME NEW form, form.to = "apps.create", form.fields = AppFields(FALSE, NoApp), NEW in \in Fillings(form.fields),
           NEW answer \in CreateApp(d, in), answer.notice = "err"
    PROVE  Excused(form, in)
<1>. SUFFICES ASSUME ~Excused(form, in) PROVE FALSE
  OBVIOUS
<1>1. ~Mended(in) /\ ~SlugTaken(in)
  BY NotExcused
<1>2. AppRead(in, FALSE)
  BY <1>1, AppFormRead
<1>. DEFINE row == PostedApp(in)
<1>3. /\ row.name = Str(in, "name") /\ row.slug = Str(in, "slug") /\ row.app_id = IntOf(in, "app_id", 0)
      /\ row.pem = Str(in, "pem") /\ row.webhook_secret = Str(in, "webhook_secret")
  BY PostedAppIs
<1>4. answer \in IfFit(AppFit(row) /\ row.pem # "" /\ row.webhook_secret # "" /\ SlugFree(d, row, 0), d,
                       Tried(Created(d, row), At("apps")))
  BY DEF CreateApp
<1>. HIDE DEF row
<1>5. /\ Has(in, "name") /\ Has(in, "slug") /\ row.name \notin {"", Unfit} /\ row.slug # Unfit /\ row.pem \notin {"", Unfit}
      /\ row.app_id > 0 /\ row.webhook_secret # ""
  BY <1>2, <1>3 DEF AppRead
<1>6. Slug(row) \in StrList(in, "slug") \cup StrList(in, "name") /\ Slug(row) \notin {"", Unfit}
  BY <1>3, <1>5, SlugPosted
<1>7. AppFit(row) /\ SlugFree(d, row, 0)
  BY <1>1, <1>5, <1>6, SlugIsFree DEF AppFit
<1>8. answer \in Tried(Created(d, row), At("apps"))
  BY <1>4, <1>5, <1>7, FitIs
<1>. QED BY <1>8, TriedTaken

LEMMA UpdateAppTaken ==
    ASSUME Whole(d), NEW form, form.to = "apps.update", form.id \in DOMAIN d.apps,
           form.fields = AppFields(TRUE, d.apps[form.id]), NEW in \in Fillings(form.fields),
           NEW answer \in UpdateApp(d, form.id, in), answer.notice = "err"
    PROVE  Excused(form, in)
<1>. SUFFICES ASSUME ~Excused(form, in) PROVE FALSE
  OBVIOUS
<1>1. ~Mended(in) /\ ~SlugTaken(in)
  BY NotExcused
<1>2. AppRead(in, TRUE)
  BY <1>1, AppFormRead
<1>. DEFINE n == form.id
            old == d.apps[n]
            row == MergedApp(old, in)
            db2 == [d EXCEPT !.apps[n] = Normal(row)]
<1>3. /\ row.name = Given(in, "name", old.name) /\ row.slug = Given(in, "slug", old.slug)
      /\ row.app_id = IntOf(in, "app_id", old.app_id) /\ row.pem = OrDefault(Str(in, "pem"), old.pem)
  BY DEF MergedApp
<1>4. old.pem # Unfit
  BY DEF Whole, WholeApps, AppRow, AppFit
<1>5. answer \in IfFound(n \in DOMAIN d.apps, d, IfFit(AppFit(row) /\ SlugFree(d, row, n), d, {Answer(db2, At("apps"), "ok")}))
  BY DEF UpdateApp
<1>. HIDE DEF row, db2, old
<1>6. answer \in IfFit(AppFit(row) /\ SlugFree(d, row, n), d, {Answer(db2, At("apps"), "ok")})
  BY <1>5, FoundIs
<1>7. Has(in, "name") /\ Has(in, "slug") /\ row.name = Str(in, "name") /\ row.slug = Str(in, "slug")
  BY <1>2, <1>3 DEF AppRead, Given
<1>8. row.name \notin {"", Unfit} /\ row.slug # Unfit /\ row.app_id > 0 /\ row.pem # Unfit
  BY <1>2, <1>3, <1>4, <1>7 DEF AppRead, OrDefault
<1>9. Slug(row) \in StrList(in, "slug") \cup StrList(in, "name") /\ Slug(row) \notin {"", Unfit}
  BY <1>7, <1>8, SlugPosted
<1>10. AppFit(row) /\ SlugFree(d, row, n)
  BY <1>1, <1>8, <1>9, SlugIsFree DEF AppFit
<1>11. answer = Answer(db2, At("apps"), "ok")
  BY <1>6, <1>10, FitIs
<1>. QED BY <1>11, AnswerNotice

LEMMA CallbackTaken ==
    ASSUME NEW form, form.to = "apps.callback", form.fields = CallbackFields, NEW in \in Fillings(form.fields),
           NEW answer \in CallbackAppManifest(d, in), answer.notice = "err"
    PROVE  Excused(form, in)
<1>. SUFFICES ASSUME ~Excused(form, in) PROVE FALSE
  OBVIOUS
<1>1. ~SlugTaken(in)
  BY NotExcused
<1>2. Str(in, "slug") \notin {"", Unfit}
  BY CallbackReads
<1>3. Has(in, "slug")
  BY <1>2 DEF Str
<1>. DEFINE row == [name |-> Str(in, "slug"), slug |-> Str(in, "slug"), app_id |-> Most, check_name |-> "",
                    api_url |-> DefaultAPI, pem |-> "key", webhook_secret |-> "secret"]
<1>4. answer = Answer(d, At("error"), "") \/ answer \in IfFit(SlugFree(d, row, 0), d, Tried(Created(d, row), At("apps")))
  BY DEF CallbackAppManifest
<1>5. row.slug = Str(in, "slug")
  OBVIOUS
<1>. HIDE DEF row
<1>6. Slug(row) \in StrList(in, "slug") \cup StrList(in, "name")
  BY <1>2, <1>3, <1>5, StrListed DEF Slug
<1>7. SlugFree(d, row, 0)
  BY <1>1, <1>6, SlugIsFree
<1>8. answer = Answer(d, At("error"), "") \/ answer \in Tried(Created(d, row), At("apps"))
  BY <1>4, <1>7, FitIs
<1>9. CASE answer = Answer(d, At("error"), "")
  <2>1. answer.notice = ""
    BY <1>9, AnswerNotice
  <2>. QED BY <2>1
<1>10. CASE answer \in Tried(Created(d, row), At("apps"))
  BY <1>10, TriedTaken
<1>. QED BY <1>8, <1>9, <1>10

\* The buttons of an App.
LEMMA AppButtonsTaken ==
    ASSUME NEW n \in DOMAIN d.apps, NEW answer \in TestApp(d, n) \cup DeleteApp(d, n)
    PROVE  answer.notice # "err"
<1>1. CASE answer \in TestApp(d, n)
  BY <1>1, TriedTaken DEF TestApp
<1>2. CASE answer \in DeleteApp(d, n)
  <2>1. answer = Answer(DeletedApp(d, n), At("apps"), "ok")
    BY <1>2 DEF DeleteApp, IfFound
  <2>. QED BY <2>1, AnswerNotice
<1>. QED BY <1>1, <1>2

LEMMA ManifestTaken ==
    ASSUME d.settings.public_base_url # "", NEW answer \in StartAppManifest(d)
    PROVE  answer.notice # "err"
<1>1. answer = Answer(d, At("github"), "")
  BY DEF StartAppManifest
<1>. QED BY <1>1, AnswerNotice

-----------------------------------------------------------------------------
(* Coolify's.                                                              *)

LEMMA InstanceFieldsAre ==
    ASSUME NEW editing \in BOOLEAN, NEW row
    PROVE  LET fields == InstanceFields(editing, row)
           IN /\ DOMAIN fields = {"name", "base_url", "api_token"}
              /\ fields["name"] = Text(row.name) /\ fields["base_url"] = Required(Text(row.base_url))
              /\ fields["api_token"] = Secret(~editing)
BY DEF InstanceFields, InstanceName, InstanceURL, InstanceToken

LEMMA InstanceFormRead ==
    ASSUME NEW editing \in BOOLEAN, NEW row, NEW in \in Fillings(InstanceFields(editing, row)), ~Mended(in)
    PROVE  /\ Has(in, "base_url") /\ Str(in, "base_url") \notin {"", Unfit}
           /\ ~editing => Str(in, "api_token") # ""
<1>. DEFINE fields == InstanceFields(editing, row)
            texts == (Typed \cup {row.base_url}) \ {""}
            secrets == (Typed \cup {""}) \ {""}
<1>1. /\ DOMAIN fields = {"name", "base_url", "api_token"}
      /\ fields["name"] = Text(row.name) /\ fields["base_url"] = Required(Text(row.base_url))
      /\ fields["api_token"] = Secret(~editing)
  BY InstanceFieldsAre
<1>2. in \in Fillings(fields)
  OBVIOUS
<1>. HIDE DEF fields
<1>3. "base_url" \in DOMAIN fields /\ "api_token" \in DOMAIN fields
  BY <1>1
<1>4. \A f \in DOMAIN fields : Lets(fields[f])
  BY <1>1, FieldsLet, RequiredLets, SecretLets
<1>5. Sends(fields["base_url"], texts) /\ "" \notin texts
  BY <1>1, TextSends
<1>6. ~editing => Sends(fields["api_token"], secrets) /\ "" \notin secrets
  BY <1>1, TextSends DEF Secret
<1>. HIDE DEF texts, secrets
<1>7. Has(in, "base_url") /\ Str(in, "base_url") \in texts
  BY <1>2, <1>3, <1>4, <1>5, TextSent
<1>8. ~editing => Str(in, "api_token") \in secrets
  BY <1>2, <1>3, <1>4, <1>6, TextSent
<1>. QED BY <1>5, <1>6, <1>7, <1>8, UnfitMended

LEMMA CreateCoolifyTaken ==
    ASSUME NEW form, form.fields = InstanceFields(FALSE, NoInstance), NEW in \in Fillings(form.fields),
           NEW answer \in CreateCoolify(d, in), answer.notice = "err"
    PROVE  Excused(form, in)
<1>. SUFFICES ASSUME ~Mended(in) PROVE FALSE
  BY MendedExcused
<1>1. Str(in, "base_url") \notin {"", Unfit} /\ Str(in, "api_token") # ""
  BY InstanceFormRead
<1>. DEFINE row == [name |-> Str(in, "name"), base_url |-> Str(in, "base_url"), api_token |-> Str(in, "api_token"),
                    default_server_uuid |-> Str(in, "default_server_uuid"),
                    default_project_uuid |-> Str(in, "default_project_uuid")]
            db2 == [d EXCEPT !.instances = Added(@, d.next, Labelled(row)), !.next = @ + 1]
<1>2. answer \in IfFit(InstanceFit(row) /\ row.api_token # "", d, Tried(db2, At("coolify")))
  BY DEF CreateCoolify
<1>3. row.base_url = Str(in, "base_url") /\ row.api_token = Str(in, "api_token")
  OBVIOUS
<1>. HIDE DEF row, db2
<1>4. InstanceFit(row) /\ row.api_token # ""
  BY <1>1, <1>3 DEF InstanceFit
<1>5. answer \in Tried(db2, At("coolify"))
  BY <1>2, <1>4, FitIs
<1>. QED BY <1>5, TriedTaken

LEMMA UpdateCoolifyTaken ==
    ASSUME NEW form, form.id \in DOMAIN d.instances, form.fields = InstanceFields(TRUE, d.instances[form.id]),
           NEW in \in Fillings(form.fields), NEW answer \in UpdateCoolify(d, form.id, in), answer.notice = "err"
    PROVE  Excused(form, in)
<1>. SUFFICES ASSUME ~Mended(in) PROVE FALSE
  BY MendedExcused
<1>1. Has(in, "base_url") /\ Str(in, "base_url") \notin {"", Unfit}
  BY InstanceFormRead
<1>. DEFINE n == form.id
            row == MergedInstance(d.instances[n], in)
            db2 == [d EXCEPT !.instances[n] = Labelled(row)]
<1>2. answer \in IfFound(n \in DOMAIN d.instances, d, IfFit(InstanceFit(row), d, {Answer(db2, At("coolify"), "ok")}))
  BY DEF UpdateCoolify
<1>3. row.base_url = Given(in, "base_url", d.instances[n].base_url)
  BY DEF MergedInstance
<1>. HIDE DEF row, db2
<1>4. InstanceFit(row)
  BY <1>1, <1>3 DEF InstanceFit, Given
<1>5. answer = Answer(db2, At("coolify"), "ok")
  <2>1. answer \in IfFit(InstanceFit(row), d, {Answer(db2, At("coolify"), "ok")})
    BY <1>2, FoundIs
  <2>. QED BY <1>4, <2>1 DEF IfFit
<1>. QED BY <1>5, AnswerNotice

LEMMA InstallWorkerTaken ==
    ASSUME NEW form, form.id \in DOMAIN d.instances, NEW row, form.fields = WorkerFields(row),
           NEW in \in Fillings(form.fields), NEW answer \in InstallWorkerOn(d, form.id, in)
    PROVE  answer.notice # "err"
<1>. DEFINE fields == WorkerFields(row)
            servers == (Typed \cup {row.default_server_uuid}) \ {""}
            projects == (Typed \cup {row.default_project_uuid}) \ {""}
<1>1. /\ DOMAIN fields = {"server_uuid", "project_uuid", "name", "environment_name"}
      /\ fields["server_uuid"] = Required(Text(row.default_server_uuid))
      /\ fields["project_uuid"] = Required(Text(row.default_project_uuid))
      /\ fields["name"] = Text("openpreflight") /\ fields["environment_name"] = Text("production")
  BY DEF WorkerFields, WorkerPlace, WorkerText
<1>2. in \in Fillings(fields)
  OBVIOUS
<1>. HIDE DEF fields
<1>3. "server_uuid" \in DOMAIN fields /\ "project_uuid" \in DOMAIN fields
  BY <1>1
<1>4. \A f \in DOMAIN fields : Lets(fields[f])
  BY <1>1, FieldsLet, RequiredLets
<1>5. Sends(fields["server_uuid"], servers) /\ "" \notin servers
  BY <1>1, TextSends
<1>6. Sends(fields["project_uuid"], projects) /\ "" \notin projects
  BY <1>1, TextSends
<1>. HIDE DEF servers, projects
<1>7. Str(in, "server_uuid") \in servers
  BY <1>2, <1>3, <1>4, <1>5, TextSent
<1>8. Str(in, "project_uuid") \in projects
  BY <1>2, <1>3, <1>4, <1>6, TextSent
<1>. DEFINE n == form.id
            fit == /\ OrDefault(Str(in, "server_uuid"), d.instances[n].default_server_uuid) # ""
                   /\ OrDefault(Str(in, "project_uuid"), d.instances[n].default_project_uuid) # ""
<1>9. answer \in IfFound(n \in DOMAIN d.instances, d, IfFit(fit, d, Tried(d, [At("coolify") EXCEPT !.inspect = n])))
  BY DEF InstallWorkerOn
<1>10. fit
  BY <1>5, <1>6, <1>7, <1>8 DEF OrDefault
<1>. HIDE DEF fit
<1>11. answer \in Tried(d, [At("coolify") EXCEPT !.inspect = n])
  BY <1>9, <1>10, FoundIs, FitIs
<1>. QED BY <1>11, TriedTaken

LEMMA CoolifyButtonsTaken ==
    ASSUME NEW n \in DOMAIN d.instances, NEW answer \in TestCoolify(d, n) \cup DeleteCoolify(d, n)
    PROVE  answer.notice # "err"
<1>1. CASE answer \in TestCoolify(d, n)
  BY <1>1, TriedTaken DEF TestCoolify
<1>2. CASE answer \in DeleteCoolify(d, n)
  <2>1. answer = Answer(DeletedInstance(d, n), At("coolify"), "ok")
    BY <1>2 DEF DeleteCoolify, IfFound
  <2>. QED BY <2>1, AnswerNotice
<1>. QED BY <1>1, <1>2

-----------------------------------------------------------------------------
(* The settings', the bindings' and the jobs'.                             *)

LEMMA SettingsTaken ==
    ASSUME Whole(d), NEW form, form.to = "settings", NEW in, NEW answer \in PatchSettings(d, in), answer.notice = "err"
    PROVE  Excused(form, in)
<1>. SUFFICES ASSUME ~Excused(form, in) PROVE FALSE
  OBVIOUS
<1>. DEFINE s == PatchedRunner(PatchedNumbers(PatchedTexts(d.settings, in), in), in)
            p == PatchedRunner(d.settings, in)
            db2 == [d EXCEPT !.settings = s]
<1>1. ~Mended(in) /\ ForksAllowed(d, p)
  BY NotExcused
<1>2. DOMAIN d.settings = SettingsColumns /\ d.settings.default_runtime # Unfit
  BY DEF Whole, SettingsRow, SettingsTexts
<1>3. /\ s.skip_fork_prs = IF Has(in, "max_concurrent_jobs") THEN Bool(in, "skip_fork_prs") ELSE d.settings.skip_fork_prs
      /\ s.default_runtime = Given(in, "default_runtime", d.settings.default_runtime)
  BY <1>2, PatchedIs
<1>4. /\ p.skip_fork_prs = IF Has(in, "max_concurrent_jobs") THEN Bool(in, "skip_fork_prs") ELSE d.settings.skip_fork_prs
      /\ p.default_runtime = Given(in, "default_runtime", d.settings.default_runtime)
  BY <1>2, PatchedRunnerIs
<1>5. answer \in IfFit(s.default_runtime # Unfit /\ ForksAllowed(d, s), d, {Answer(db2, SettingsNext(in), "ok")})
  BY DEF PatchSettings
<1>. HIDE DEF s, p, db2
<1>6. ForksAllowed(d, s)
  BY <1>1, <1>3, <1>4 DEF ForksAllowed
<1>7. s.default_runtime # Unfit
  <2>1. Str(in, "default_runtime") # Unfit
    BY <1>1, UnfitMended
  <2>. QED BY <1>2, <1>3, <2>1 DEF Given
<1>8. answer = Answer(db2, SettingsNext(in), "ok")
  BY <1>5, <1>6, <1>7 DEF IfFit
<1>. QED BY <1>8, AnswerNotice

LEMMA KeysAreNumbers ==
    ASSUME NEW db, Whole(db)
    PROVE  DOMAIN db.apps \subseteq Numbers /\ DOMAIN db.instances \subseteq Numbers /\ DOMAIN db.bindings \subseteq Numbers
<1>1. db.next \in Nat /\ 1..db.next \subseteq Numbers
  BY DEF Whole, Counted
<1>2. 1..(db.next - 1) \subseteq Numbers
  BY <1>1
<1>. QED BY <1>2 DEF Whole, WholeApps, WholeInstances, WholeBindings, Keys

\* A key that was sent is read as the key.
LEMMA KeySent ==
    ASSUME NEW fields, \A f \in DOMAIN fields : Lets(fields[f]), NEW in \in Fillings(fields), NEW f \in DOMAIN fields,
           NEW keys \in SUBSET Numbers, Sends(fields[f], {Id(n) : n \in keys})
    PROVE  IntOf(in, f, 0) \in keys
<1>1. Str(in, f) \in {Id(n) : n \in keys}
  BY TextSent
<1>2. PICK n \in keys : Str(in, f) = Numeral(n)
  BY <1>1 DEF Id
<1>3. n \in Numbers
  OBVIOUS
<1>4. IntOf(in, f, 0) = n
  BY <1>2, <1>3, IntOfNumeral
<1>. QED BY <1>4

LEMMA BindingAppSends ==
    ASSUME NEW db, NEW editing \in BOOLEAN, NEW row, editing => BindingRow(db, row), \E app : app \in DOMAIN db.apps
    PROVE  Sends(BindingApp(editing, row, db.apps), {Id(n) : n \in DOMAIN db.apps})
<1>. DEFINE ids == {Id(n) : n \in DOMAIN db.apps}
            value == IF editing /\ row.github_app_id # 0 THEN Id(row.github_app_id) ELSE CHOOSE a \in Ids(db.apps) : TRUE
<1>1. Ids(db.apps) = ids
  BY DEF Ids
<1>2. value \in ids
  <2>1. CASE editing /\ row.github_app_id # 0
    <3>1. row.github_app_id \in DOMAIN db.apps
      BY <2>1 DEF BindingRow, BindingFit
    <3>. QED BY <2>1, <3>1
  <2>2. CASE ~(editing /\ row.github_app_id # 0)
    <3>1. \E a : a \in ids
      OBVIOUS
    <3>2. (CHOOSE a \in ids : TRUE) \in ids
      BY <3>1
    <3>. QED BY <1>1, <2>2, <3>2
  <2>. QED BY <2>1, <2>2
<1>3. BindingApp(editing, row, db.apps) = Select(value, ids)
  BY <1>1 DEF BindingApp
<1>. HIDE DEF value, ids
<1>4. Sends(Select(value, ids), ids \cup {value}) /\ ids \cup {value} = ids
  BY <1>2, TextSends
<1>5. Sends(BindingApp(editing, row, db.apps), ids)
  BY <1>3, <1>4
<1>. QED BY <1>5 DEF ids

LEMMA BindingCoolifySends ==
    ASSUME NEW db, NEW editing \in BOOLEAN, NEW row, editing => BindingRow(db, row)
    PROVE  Sends(BindingCoolify(editing, row, db.instances), {Id(n) : n \in DOMAIN db.instances \cup {0}})
<1>. DEFINE ids == {Id(n) : n \in DOMAIN db.instances \cup {0}}
            value == Id(IF editing THEN row.coolify_instance_id ELSE 0)
<1>1. Ids(db.instances) \cup {Id(0)} = ids
  BY DEF Ids
<1>2. value \in ids
  <2>1. (IF editing THEN row.coolify_instance_id ELSE 0) \in DOMAIN db.instances \cup {0}
    BY DEF BindingRow, BindingFit
  <2>. QED BY <2>1
<1>3. BindingCoolify(editing, row, db.instances) = Select(value, ids)
  BY <1>1 DEF BindingCoolify
<1>. HIDE DEF value, ids
<1>4. Sends(Select(value, ids), ids \cup {value}) /\ ids \cup {value} = ids
  BY <1>2, TextSends
<1>5. Sends(BindingCoolify(editing, row, db.instances), ids)
  BY <1>3, <1>4
<1>. QED BY <1>5 DEF ids

LEMMA PostedBindingIs ==
    ASSUME NEW in
    PROVE  LET row == PostedBinding(in)
           IN /\ row.github_app_id = IntOf(in, "github_app_id", 0)
              /\ row.coolify_instance_id = IntOf(in, "coolify_instance_id", 0)
              /\ row.repo = Str(in, "repo") /\ row.pipeline_file = Str(in, "pipeline_file")
BY DEF PostedBinding

LEMMA UpsertTaken ==
    ASSUME Whole(d), NEW form, form.id \in DOMAIN d.bindings \cup {0}, \E app : app \in DOMAIN d.apps,
           form.fields = IF form.id # 0 THEN BindingFields(TRUE, d.bindings[form.id], d.apps, d.instances)
                         ELSE BindingFields(FALSE, NoBinding, d.apps, d.instances),
           NEW in \in Fillings(form.fields), NEW answer \in UpsertBinding(d, in), answer.notice = "err"
    PROVE  Excused(form, in)
<1>. SUFFICES ASSUME ~Mended(in) PROVE FALSE
  BY MendedExcused
<1>1. PICK editing, row : /\ editing \in BOOLEAN /\ (editing => BindingRow(d, row))
                          /\ form.fields = BindingFields(editing, row, d.apps, d.instances)
  <2>1. CASE form.id # 0
    <3>1. BindingRow(d, d.bindings[form.id])
      BY <2>1, BindingRows
    <3>. QED BY <2>1, <3>1
  <2>2. CASE form.id = 0
    BY <2>2
  <2>. QED BY <2>1, <2>2
<1>. DEFINE fields == form.fields
            posted == PostedBinding(in)
<1>2. \A f \in DOMAIN fields : Lets(fields[f])
  BY <1>1, BindingFieldsLet
<1>3. /\ DOMAIN fields = DOMAIN NoBinding
      /\ fields["github_app_id"] = BindingApp(editing, row, d.apps)
      /\ fields["coolify_instance_id"] = BindingCoolify(editing, row, d.instances)
  <2>. DEFINE drawn == BindingFields(editing, row, d.apps, d.instances)
  <2>1. editing \in BOOLEAN /\ fields = drawn
    BY <1>1
  <2>2. /\ DOMAIN drawn = DOMAIN NoBinding
        /\ drawn["github_app_id"] = BindingApp(editing, row, d.apps)
        /\ drawn["coolify_instance_id"] = BindingCoolify(editing, row, d.instances)
    BY <2>1, BindingFieldsAre
  <2>. HIDE DEF drawn, fields
  <2>. QED BY <2>1, <2>2
<1>4. in \in Fillings(fields)
  OBVIOUS
<1>5. Str(in, "repo") \in Repos
  <2>1. editing => row.repo \in Repos
    BY <1>1 DEF BindingRow
  <2>2. in \in Fillings(BindingFields(editing, row, d.apps, d.instances))
    BY <1>1
  <2>. QED BY <1>1, <2>1, <2>2, UpsertReads
<1>. HIDE DEF fields
<1>6. "github_app_id" \in DOMAIN fields /\ "coolify_instance_id" \in DOMAIN fields
  BY <1>3 DEF NoBinding
<1>7. IntOf(in, "github_app_id", 0) \in DOMAIN d.apps
  <2>1. Sends(fields["github_app_id"], {Id(n) : n \in DOMAIN d.apps})
    BY <1>1, <1>3, BindingAppSends
  <2>2. DOMAIN d.apps \in SUBSET Numbers
    BY KeysAreNumbers
  <2>. QED BY <1>2, <1>4, <1>6, <2>1, <2>2, KeySent
<1>8. IntOf(in, "coolify_instance_id", 0) \in DOMAIN d.instances \cup {0}
  <2>1. Sends(fields["coolify_instance_id"], {Id(n) : n \in DOMAIN d.instances \cup {0}})
    BY <1>1, <1>3, BindingCoolifySends
  <2>2. DOMAIN d.instances \cup {0} \in SUBSET Numbers
    BY KeysAreNumbers, ZeroIsANumber
  <2>. QED BY <1>2, <1>4, <1>6, <2>1, <2>2, KeySent
<1>9. Str(in, "pipeline_file") # Unfit
  BY UnfitMended
<1>10. Str(in, "repo") \notin {"", Unfit}
  BY <1>5, ReposAssumption, UnfitAssumption
<1>11. /\ posted.github_app_id = IntOf(in, "github_app_id", 0)
       /\ posted.coolify_instance_id = IntOf(in, "coolify_instance_id", 0)
       /\ posted.repo = Str(in, "repo") /\ posted.pipeline_file = Str(in, "pipeline_file")
  BY PostedBindingIs
<1>12. answer \in IfFit(BindingFit(d, posted), d, {Answer(Upserted(d, posted), At("repos"), "ok")})
  BY DEF UpsertBinding
<1>. HIDE DEF posted
<1>13. BindingFit(d, posted)
  BY <1>7, <1>8, <1>9, <1>10, <1>11 DEF BindingFit
<1>14. answer = Answer(Upserted(d, posted), At("repos"), "ok")
  BY <1>12, <1>13 DEF IfFit
<1>. QED BY <1>14, AnswerNotice

\* The keys that the picker's address names, which are still there.
LEMMA PickedKeys ==
    ASSUME NEW of, NEW at, at.app \in Numbers, at.coolify \in Numbers, NEW listed,
           NEW in \in Fillings(BulkFields(of, at, listed))
    PROVE  IntOf(in, "github_app_id", 0) = at.app /\ IntOf(in, "coolify_instance_id", 0) = at.coolify
<1>. DEFINE fields == BulkFields(of, at, listed)
<1>1. /\ DOMAIN fields = {"github_app_id", "coolify_instance_id", "repo"}
      /\ fields["github_app_id"] = Fixed(Id(at.app)) /\ fields["coolify_instance_id"] = Fixed(Id(at.coolify))
      /\ fields["repo"] = PickerBoxes(Picker(of, at, listed), BoundRepos(of, at.app))
  BY DEF BulkFields, PickerHidden
<1>2. in \in Fillings(fields)
  OBVIOUS
<1>. HIDE DEF fields
<1>3. \A f \in DOMAIN fields : Lets(fields[f])
  BY <1>1, FieldsLet DEF PickerBoxes
<1>4. "github_app_id" \in DOMAIN fields /\ "coolify_instance_id" \in DOMAIN fields
  BY <1>1
<1>5. Sends(fields["github_app_id"], {Id(at.app)})
  BY <1>1, TextSends
<1>6. Sends(fields["coolify_instance_id"], {Id(at.coolify)})
  BY <1>1, TextSends
<1>7. Str(in, "github_app_id") = Id(at.app)
  <2>. DEFINE texts == {Id(at.app)}
  <2>1. Sends(fields["github_app_id"], texts)
    BY <1>5
  <2>. HIDE DEF texts
  <2>2. Str(in, "github_app_id") \in texts
    BY <1>2, <1>3, <1>4, <2>1, TextSent
  <2>. QED BY <2>2 DEF texts
<1>8. Str(in, "coolify_instance_id") = Id(at.coolify)
  <2>. DEFINE texts == {Id(at.coolify)}
  <2>1. Sends(fields["coolify_instance_id"], texts)
    BY <1>6
  <2>. HIDE DEF texts
  <2>2. Str(in, "coolify_instance_id") \in texts
    BY <1>2, <1>3, <1>4, <2>1, TextSent
  <2>. QED BY <2>2 DEF texts
<1>. QED BY <1>7, <1>8, IntOfNumeral DEF Id

LEMMA BulkTaken ==
    ASSUME NEW form, form.to = "bindings.bulk", tab.at.app \in Numbers \ {0}, tab.at.coolify \in Numbers,
           form.fields = BulkFields(d, tab.at, tab.listed), NEW in \in Fillings(form.fields),
           NEW answer \in BulkBindings(d, in), answer.notice = "err"
    PROVE  Excused(form, in)
<1>. SUFFICES ASSUME ~Excused(form, in) PROVE FALSE
  OBVIOUS
<1>1. tab.at.app \in DOMAIN d.apps \cup {0} /\ tab.at.coolify \in DOMAIN d.instances \cup {0}
  BY NotExcused DEF AddressIsStale
<1>2. IntOf(in, "github_app_id", 0) = tab.at.app /\ IntOf(in, "coolify_instance_id", 0) = tab.at.coolify
  BY PickedKeys
<1>. DEFINE app == IntOf(in, "github_app_id", 0)
            coolify == IntOf(in, "coolify_instance_id", 0)
            wanted == StrList(in, "repo")
            fit == app # 0 /\ (wanted # {} => app \in DOMAIN d.apps /\ coolify \in DOMAIN d.instances \cup {0})
<1>3. answer \in IfFit(fit, d, {Answer(after, At("repos"), "ok") : after \in Bulk(d, app, coolify, wanted)})
  BY DEF BulkBindings
<1>4. app \in DOMAIN d.apps /\ app # 0 /\ coolify \in DOMAIN d.instances \cup {0}
  BY <1>1, <1>2
<1>. HIDE DEF app, coolify, wanted
<1>5. answer \in {Answer(after, At("repos"), "ok") : after \in Bulk(d, app, coolify, wanted)}
  BY <1>3, <1>4 DEF IfFit
<1>6. PICK after : answer = Answer(after, At("repos"), "ok")
  BY <1>5
<1>. QED BY <1>6, AnswerNotice

LEMMA BindingButtonsTaken ==
    ASSUME NEW n \in DOMAIN d.bindings, NEW answer \in ToggleBinding(d, n) \cup DeleteBinding(d, n)
    PROVE  answer.notice # "err"
<1>1. \E db2 : answer = Answer(db2, At("repos"), "ok")
  BY DEF ToggleBinding, DeleteBinding, IfFound
<1>. QED BY <1>1, AnswerNotice

LEMMA RerunTaken ==
    ASSUME Whole(d), NEW form, form.to = "jobs.rerun", Job(d, form.id) # {}, NEW in,
           NEW answer \in RerunJob(d, form.id), answer.notice = "err"
    PROVE  Excused(form, in)
<1>. DEFINE n == form.id
            again(j, b) == [d EXCEPT !.jobs = <<[j EXCEPT !.id = d.next, !.status = "queued",
                                                 !.shareable = d.bindings[b].shareable_logs]>> \o @,
                                     !.next = @ + 1]
            answers(j) == IF EnabledBinding(d, j) = {} THEN {Answer(d, At("jobs"), "err")}
                          ELSE {Answer(again(j, b), At("jobs"), "ok") : b \in EnabledBinding(d, j)}
<1>1. answer \in IfFound(Job(d, n) # {}, d, UNION {answers(j) : j \in Job(d, n)})
  BY DEF RerunJob
<1>. HIDE DEF again
<1>2. PICK j \in Job(d, n) : answer \in answers(j)
  BY <1>1 DEF IfFound
<1>3. EnabledBinding(d, j) = {}
  <2>. SUFFICES ASSUME EnabledBinding(d, j) # {} PROVE FALSE
    OBVIOUS
  <2>1. PICK b : answer = Answer(again(j, b), At("jobs"), "ok")
    BY <1>2
  <2>. QED BY <2>1, AnswerNotice
<1>4. \A k \in Job(d, n) : k = j
  BY DEF Job, Elements, Whole, WholeJobs
<1>. QED BY <1>3, <1>4 DEF Excused

LEMMA CancelTaken ==
    ASSUME NEW n, NEW j \in Job(d, n), JobInFlight(j), NEW answer \in CancelJob(d, n)
    PROVE  answer.notice # "err"
<1>1. answer = Answer(Cancelled(d, n), At("jobs"), "ok")
  BY DEF CancelJob, IfFound
<1>. QED BY <1>1, AnswerNotice

LEMMA PasswordTaken == ASSUME NEW answer \in ChangePassword(d) PROVE answer.notice # "err"
<1>1. answer = Answer(d, At("admin"), "ok") \/ answer = Answer(d, Back, "outside")
  BY DEF ChangePassword
<1>. QED BY <1>1, AnswerNotice

-----------------------------------------------------------------------------
(* All of them.                                                            *)

\* What the guard lets a signed-in user with a token do.
LEMMA GuardedHandle ==
    ASSUME d.users, NEW form, NEW in, NEW answer \in Handle(TRUE, TRUE, form, in)
    PROVE  /\ form.to = "login" => answer \in HandleLogin(d, TRUE)
           /\ form.to = "setup" => answer \in HandleSetup(d, in, TRUE)
           /\ form.to = "logout" => answer \in HandleLogout(d)
           /\ form.to \notin {"login", "setup", "logout"} => answer \in Dispatch(form, in)
BY DEF Handle

LEMMA LoginTaken == ASSUME NEW user, NEW answer \in HandleLogin(d, user) PROVE answer.notice # "err"
<1>1. answer = [Answer(d, At("login"), "outside") EXCEPT !.user = user] \/ answer = Answer(d, At("home"), "")
  BY DEF HandleLogin
<1>2. CASE answer = [Answer(d, At("login"), "outside") EXCEPT !.user = user]
  BY <1>2 DEF Answer
<1>3. CASE answer = Answer(d, At("home"), "")
  BY <1>3 DEF Answer
<1>. QED BY <1>1, <1>2, <1>3

LEMMA LogoutTaken == ASSUME NEW answer \in HandleLogout(d) PROVE answer.notice # "err"
<1>1. PICK user : answer = [Answer(d, At("login"), "") EXCEPT !.user = user]
  BY DEF HandleLogout
<1>. QED BY <1>1 DEF Answer

LEMMA AppFormsTaken ==
    ASSUME Whole(d), NEW form, Offered(d, tab.at, tab.listed, form), NEW in \in Fillings(form.fields),
           form.to \in {"apps.create", "apps.update", "apps.callback", "apps.test", "apps.delete", "apps.manifest"},
           NEW answer \in Dispatch(form, in), answer.notice = "err"
    PROVE  Excused(form, in)
<1>. DEFINE n == form.id
<1>1. form.fields = FieldsOf(d, tab.at, tab.listed, form.to, n) /\ IsThere(d, tab.at, form.to, n)
  BY DEF Offered
<1>2. CASE form.to = "apps.create"
  <2>1. form.fields = AppFields(FALSE, NoApp)
    BY <1>1, <1>2 DEF FieldsOf
  <2>2. answer \in CreateApp(d, in)
    BY <1>2, DispatchIs
  <2>. QED BY <1>2, <2>1, <2>2, CreateAppTaken
<1>3. CASE form.to = "apps.update"
  <2>1. form.fields = AppFields(TRUE, d.apps[form.id]) /\ form.id \in DOMAIN d.apps
    BY <1>1, <1>3 DEF FieldsOf, IsThere
  <2>2. answer \in UpdateApp(d, form.id, in)
    BY <1>3, DispatchIs
  <2>. QED BY <1>3, <2>1, <2>2, UpdateAppTaken
<1>4. CASE form.to = "apps.callback"
  <2>1. form.fields = CallbackFields
    BY <1>1, <1>4 DEF FieldsOf
  <2>2. answer \in CallbackAppManifest(d, in)
    BY <1>4, DispatchIs
  <2>. QED BY <1>4, <2>1, <2>2, CallbackTaken
<1>5. CASE form.to \in {"apps.test", "apps.delete"}
  <2>1. n \in DOMAIN d.apps
    BY <1>1, <1>5 DEF IsThere
  <2>2. answer \in TestApp(d, n) \/ answer \in DeleteApp(d, n)
    BY <1>5, DispatchIs
  <2>. QED BY <2>1, <2>2, AppButtonsTaken
<1>6. CASE form.to = "apps.manifest"
  <2>1. d.settings.public_base_url # ""
    BY <1>1, <1>6 DEF IsThere
  <2>2. answer \in StartAppManifest(d)
    BY <1>6, DispatchIs
  <2>. QED BY <2>1, <2>2, ManifestTaken
<1>. QED BY <1>2, <1>3, <1>4, <1>5, <1>6

LEMMA CoolifyFormsTaken ==
    ASSUME Whole(d), NEW form, Offered(d, tab.at, tab.listed, form), NEW in \in Fillings(form.fields),
           form.to \in {"coolify.create", "coolify.update", "coolify.install", "coolify.test", "coolify.delete"},
           NEW answer \in Dispatch(form, in), answer.notice = "err"
    PROVE  Excused(form, in)
<1>. DEFINE n == form.id
<1>1. form.fields = FieldsOf(d, tab.at, tab.listed, form.to, n) /\ IsThere(d, tab.at, form.to, n)
  BY DEF Offered
<1>2. CASE form.to = "coolify.create"
  <2>1. form.fields = InstanceFields(FALSE, NoInstance)
    BY <1>1, <1>2 DEF FieldsOf
  <2>2. answer \in CreateCoolify(d, in)
    BY <1>2, DispatchIs
  <2>. QED BY <2>1, <2>2, CreateCoolifyTaken
<1>3. CASE form.to = "coolify.update"
  <2>1. form.fields = InstanceFields(TRUE, d.instances[form.id]) /\ form.id \in DOMAIN d.instances
    BY <1>1, <1>3 DEF FieldsOf, IsThere
  <2>2. answer \in UpdateCoolify(d, form.id, in)
    BY <1>3, DispatchIs
  <2>. QED BY <2>1, <2>2, UpdateCoolifyTaken
<1>4. CASE form.to = "coolify.install"
  <2>. DEFINE row == d.instances[form.id]
  <2>1. form.fields = WorkerFields(row) /\ form.id \in DOMAIN d.instances
    BY <1>1, <1>4 DEF FieldsOf, IsThere
  <2>2. answer \in InstallWorkerOn(d, form.id, in)
    BY <1>4, DispatchIs
  <2>. HIDE DEF row
  <2>. QED BY <2>1, <2>2, InstallWorkerTaken
<1>5. CASE form.to \in {"coolify.test", "coolify.delete"}
  <2>1. n \in DOMAIN d.instances
    BY <1>1, <1>5 DEF IsThere
  <2>2. answer \in TestCoolify(d, n) \/ answer \in DeleteCoolify(d, n)
    BY <1>5, DispatchIs
  <2>. QED BY <2>1, <2>2, CoolifyButtonsTaken
<1>. QED BY <1>2, <1>3, <1>4, <1>5

LEMMA BindingFormsTaken ==
    ASSUME Whole(d), Address(tab.at), NEW form, Offered(d, tab.at, tab.listed, form), NEW in \in Fillings(form.fields),
           form.to \in {"bindings.upsert", "bindings.bulk", "bindings.toggle", "bindings.delete"},
           NEW answer \in Dispatch(form, in), answer.notice = "err"
    PROVE  Excused(form, in)
<1>. DEFINE n == form.id
<1>1. form.fields = FieldsOf(d, tab.at, tab.listed, form.to, n) /\ IsThere(d, tab.at, form.to, n)
  BY DEF Offered
<1>2. CASE form.to = "bindings.upsert"
  <2>1. form.fields = IF form.id # 0 THEN BindingFields(TRUE, d.bindings[form.id], d.apps, d.instances)
                      ELSE BindingFields(FALSE, NoBinding, d.apps, d.instances)
    BY <1>1, <1>2 DEF FieldsOf
  <2>2. form.id \in DOMAIN d.bindings \cup {0} /\ \E app : app \in DOMAIN d.apps
    BY <1>1, <1>2 DEF IsThere
  <2>3. answer \in UpsertBinding(d, in)
    BY <1>2, DispatchIs
  <2>. QED BY <2>1, <2>2, <2>3, UpsertTaken
<1>3. CASE form.to = "bindings.bulk"
  <2>1. form.fields = BulkFields(d, tab.at, tab.listed)
    BY <1>1, <1>3 DEF FieldsOf
  <2>2. tab.at.app \in Numbers \ {0} /\ tab.at.coolify \in Numbers
    BY <1>1, <1>3 DEF IsThere, Address
  <2>3. answer \in BulkBindings(d, in)
    BY <1>3, DispatchIs
  <2>. QED BY <1>3, <2>1, <2>2, <2>3, BulkTaken
<1>4. CASE form.to \in {"bindings.toggle", "bindings.delete"}
  <2>1. n \in DOMAIN d.bindings
    BY <1>1, <1>4 DEF IsThere
  <2>2. answer \in ToggleBinding(d, n) \/ answer \in DeleteBinding(d, n)
    BY <1>4, DispatchIs
  <2>. QED BY <2>1, <2>2, BindingButtonsTaken
<1>. QED BY <1>2, <1>3, <1>4

LEMMA OtherFormsTaken ==
    ASSUME Whole(d), NEW form, Offered(d, tab.at, tab.listed, form), NEW in,
           form.to \in {"settings", "password", "jobs.rerun", "jobs.cancel"},
           NEW answer \in Dispatch(form, in), answer.notice = "err"
    PROVE  Excused(form, in)
<1>. DEFINE n == form.id
<1>1. IsThere(d, tab.at, form.to, n)
  BY DEF Offered
<1>2. CASE form.to = "settings"
  <2>1. answer \in PatchSettings(d, in)
    BY <1>2, DispatchIs
  <2>. QED BY <1>2, <2>1, SettingsTaken
<1>3. CASE form.to = "password"
  <2>1. answer \in ChangePassword(d)
    BY <1>3, DispatchIs
  <2>. QED BY <2>1, PasswordTaken
<1>4. CASE form.to = "jobs.rerun"
  <2>1. Job(d, form.id) # {}
    BY <1>1, <1>4 DEF IsThere, Job
  <2>2. answer \in RerunJob(d, form.id)
    BY <1>4, DispatchIs
  <2>. QED BY <1>4, <2>1, <2>2, RerunTaken
<1>5. CASE form.to = "jobs.cancel"
  <2>1. PICK j \in Job(d, n) : JobInFlight(j)
    BY <1>1, <1>5 DEF IsThere, Job
  <2>2. answer \in CancelJob(d, n)
    BY <1>5, DispatchIs
  <2>. QED BY <2>1, <2>2, CancelTaken
<1>. QED BY <1>2, <1>3, <1>4, <1>5

LEMMA FreshForms ==
    ASSUME IInv, Fresh, NEW form \in View(tab).forms, NEW in \in Fillings(form.fields),
           NEW answer \in Handle(TRUE, TRUE, form, in), answer.notice = "err"
    PROVE  Excused(form, in)
<1>1. tab.of = d /\ tab.user /\ d.users /\ Whole(d)
  BY InvIs DEF Fresh
<1>2. tab.at.page \notin {"", "gaveup"}
  BY ViewDrawn
<1>3. DrawnFrom(tab.of, tab.at) /\ Address(tab.at) /\ tab.at.page # "setup"
  BY <1>1, <1>2, InvIs DEF TabFrom
<1>4. 0 \notin DOMAIN tab.of.bindings
  BY InvIs DEF Whole, WholeBindings, Keys
<1>5. Offered(d, tab.at, tab.listed, form)
  BY <1>1, <1>3, <1>4, ViewForms
<1>6. form.to \in Actions /\ form.to # "setup"
  BY <1>3, <1>5 DEF Offered, IsThere
<1>7. CASE form.to = "login"
  BY <1>1, <1>7, GuardedHandle, LoginTaken
<1>8. CASE form.to = "logout"
  BY <1>1, <1>8, GuardedHandle, LogoutTaken
<1>9. CASE form.to \notin {"login", "setup", "logout"}
  <2>1. answer \in Dispatch(form, in)
    BY <1>1, <1>9, GuardedHandle
  <2>2. CASE form.to \in {"apps.create", "apps.update", "apps.callback", "apps.test", "apps.delete", "apps.manifest"}
    BY <1>1, <1>5, <2>1, <2>2, AppFormsTaken
  <2>3. CASE form.to \in {"coolify.create", "coolify.update", "coolify.install", "coolify.test", "coolify.delete"}
    BY <1>1, <1>5, <2>1, <2>3, CoolifyFormsTaken
  <2>4. CASE form.to \in {"bindings.upsert", "bindings.bulk", "bindings.toggle", "bindings.delete"}
    BY <1>1, <1>3, <1>5, <2>1, <2>4, BindingFormsTaken
  <2>5. CASE form.to \in {"settings", "password", "jobs.rerun", "jobs.cancel"}
    BY <1>1, <1>5, <2>1, <2>5, OtherFormsTaken
  <2>. QED BY <1>6, <1>9, <2>2, <2>3, <2>4, <2>5 DEF Actions, Buttons
<1>. QED BY <1>6, <1>7, <1>8, <1>9

LEMMA WorkInv == IInv => OfferedControlsWork
<1>. SUFFICES ASSUME IInv, Fresh
              PROVE  /\ LinksLand(View(tab).links \cup View(tab).searches)
                     /\ \A form \in View(tab).forms : \A in \in Fillings(form.fields) :
                           \A answer \in Handle(TRUE, TRUE, form, in) :
                               answer.notice = "err" => Excused(form, in)
  BY DEF OfferedControlsWork
<1>. QED BY FreshLinks, FreshForms

\* A page that was drawn a moment ago offers nothing the server refuses: its links
\* and searches draw the pages they name, and each of its forms, as drawn or with
\* one field changed in any way the browser lets through, is taken, but for what
\* the user is told of.
THEOREM OfferedControlsAlwaysWork == Spec => []OfferedControlsWork
<1>1. Init => IInv
  BY InitInv
<1>. QED BY <1>1, StepInv, WorkInv, PTL DEF Spec

-----------------------------------------------------------------------------
(* Every row is in reach of the overview.                                  *)

LEMMA LinkIn ==
    /\ \A addresses : Links(addresses).links = addresses
    /\ \A address : Link(address).links = {address}
BY DEF Link, Links, Nothing

LEMMA SumIn == \A v, w, a : a \in (v (+) w).links <=> a \in v.links \/ a \in w.links
BY DEF (+)

LEMMA EveryIn == \A views, v, a : v \in views /\ a \in v.links => a \in Every(views).links
BY DEF Every

LEMMA SidebarIn ==
    ASSUME NEW page \in {"home", "jobs", "repos", "apps", "coolify"}
    PROVE  At(page) \in AppSidebar.links
<1>. DEFINE a == At(page)
<1>1. \A b : MenuButton(b).links = {b}
  BY LinkIn DEF MenuButton
<1>2. \/ a \in SidebarOverview.links \/ a \in SidebarJobs.links \/ a \in SidebarRepos.links
      \/ a \in SidebarApps.links \/ a \in SidebarCoolify.links
  BY <1>1 DEF SidebarOverview, SidebarJobs, SidebarRepos, SidebarApps, SidebarCoolify
<1>. HIDE DEF a
<1>3. a \in AppSidebar.links
  BY <1>2, SumIn DEF AppSidebar
<1>. QED BY <1>3 DEF a

LEMMA ShellIn ==
    ASSUME NEW crumbs, NEW body, NEW a, a \in AppSidebar.links \/ a \in crumbs \/ a \in body.links
    PROVE  a \in Shell(crumbs, body).links
BY LinkIn, SumIn DEF Shell, Crumbs

\* The page at a leads to b.
Shows(db, a, b, user) == b \in Render(db, a, {}, user).links

LEMMA HomeShows ==
    ASSUME NEW db, NEW user, NEW page \in {"jobs", "repos", "apps", "coolify"}
    PROVE  Shows(db, At("home"), At(page), user)
<1>1. Render(db, At("home"), {}, user) = Dashboard(db)
  BY PageIs DEF Render
<1>2. At(page) \in Dashboard(db).links
  BY SidebarIn, ShellIn DEF Dashboard
<1>. QED BY <1>1, <1>2 DEF Shows

LEMMA AppShown ==
    ASSUME NEW db, NEW user, NEW n \in DOMAIN db.apps
    PROVE  Shows(db, At("apps"), AtRow("app.edit", n), user)
<1>. DEFINE a == AtRow("app.edit", n)
            cards == {AppCard(k) : k \in DOMAIN db.apps}
<1>1. Render(db, At("apps"), {}, user) = GitHubApps(db, At("apps"), {})
  BY PageIs DEF Render
<1>2. a \in AppCard(n).links /\ AppCard(n) \in cards
  BY LinkIn, SumIn DEF AppCard, AppEdit
<1>. HIDE DEF a, cards
<1>3. a \in Every(cards).links
  BY <1>2, EveryIn
<1>4. a \in GitHubApps(db, At("apps"), {}).links
  BY <1>3, SumIn, ShellIn DEF GitHubApps, cards
<1>. QED BY <1>1, <1>4 DEF Shows, a

LEMMA InstanceShown ==
    ASSUME NEW db, NEW user, NEW n \in DOMAIN db.instances
    PROVE  Shows(db, At("coolify"), [At("coolify") EXCEPT !.edit = n], user)
<1>. DEFINE a == [At("coolify") EXCEPT !.edit = n]
            cards == {InstanceCard(k) : k \in DOMAIN db.instances}
<1>1. Render(db, At("coolify"), {}, user) = Coolify(db, At("coolify"))
  BY PageIs DEF Render
<1>2. a \in InstanceCard(n).links /\ InstanceCard(n) \in cards
  BY LinkIn, SumIn DEF InstanceCard, InstanceEdit
<1>. HIDE DEF a, cards
<1>3. a \in Every(cards).links
  BY <1>2, EveryIn
<1>4. a \in Coolify(db, At("coolify")).links
  BY <1>3, SumIn, ShellIn DEF Coolify, cards
<1>. QED BY <1>1, <1>4 DEF Shows, a

LEMMA BindingShown ==
    ASSUME NEW db, NEW user, NEW n \in DOMAIN db.bindings
    PROVE  Shows(db, At("repos"), AtRow("repo", n), user) /\ Shows(db, AtRow("repo", n), AtRow("repo.edit", n), user)
<1>1. Shows(db, At("repos"), AtRow("repo", n), user)
  <2>. DEFINE a == AtRow("repo", n)
              cards == {RepoCard(db, k) : k \in DOMAIN db.bindings}
  <2>1. Render(db, At("repos"), {}, user) = Repositories(db)
    BY PageIs DEF Render
  <2>2. a \in RepoCard(db, n).links /\ RepoCard(db, n) \in cards
    BY LinkIn, SumIn DEF RepoCard, RepoTitle
  <2>. HIDE DEF a, cards
  <2>3. a \in Every(cards).links
    BY <2>2, EveryIn
  <2>4. a \in Repositories(db).links
    BY <2>3, SumIn, ShellIn DEF Repositories, cards
  <2>. QED BY <2>1, <2>4 DEF Shows, a
<1>2. Shows(db, AtRow("repo", n), AtRow("repo.edit", n), user)
  <2>. DEFINE a == AtRow("repo.edit", n)
  <2>1. AtRow("repo", n).page = "repo" /\ AtRow("repo", n).id = n
    BY DEF AtRow, At
  <2>2. Render(db, AtRow("repo", n), {}, user) = Repo(db, n)
    BY <2>1 DEF Render
  <2>3. a \in RepoHead(n).links
    BY LinkIn DEF RepoHead
  <2>. HIDE DEF a
  <2>4. PICK crumbs, last, table : Repo(db, n) = Shell(crumbs, RepoHead(n) (+) last (+) table)
    BY DEF Repo
  <2>5. a \in Repo(db, n).links
    BY <2>3, <2>4, SumIn, ShellIn
  <2>. QED BY <2>2, <2>5 DEF Shows, a
<1>. QED BY <1>1, <1>2

\* A way of three or four addresses.
LEMMA ThreeShow ==
    ASSUME NEW db, NEW user, NEW a, NEW b, NEW c, Shows(db, a, b, user), Shows(db, b, c, user),
           NEW way, way = <<a, b, c>>, NEW k \in 1..(Len(way) - 1)
    PROVE  Shows(db, way[k], way[k + 1], user)
<1>1. Len(way) = 3 /\ way[1] = a /\ way[2] = b /\ way[3] = c
  OBVIOUS
<1>2. k = 1 \/ k = 2
  BY <1>1
<1>3. CASE k = 1
  BY <1>1, <1>3
<1>4. CASE k = 2
  BY <1>1, <1>4
<1>. QED BY <1>2, <1>3, <1>4

LEMMA FourShow ==
    ASSUME NEW db, NEW user, NEW a, NEW b, NEW c, NEW e,
           Shows(db, a, b, user), Shows(db, b, c, user), Shows(db, c, e, user),
           NEW way, way = <<a, b, c, e>>, NEW k \in 1..(Len(way) - 1)
    PROVE  Shows(db, way[k], way[k + 1], user)
<1>1. Len(way) = 4 /\ way[1] = a /\ way[2] = b /\ way[3] = c /\ way[4] = e
  OBVIOUS
<1>2. k = 1 \/ k = 2 \/ k = 3
  BY <1>1
<1>3. CASE k = 1
  BY <1>1, <1>3
<1>4. CASE k = 2
  BY <1>1, <1>4
<1>5. CASE k = 3
  BY <1>1, <1>5
<1>. QED BY <1>2, <1>3, <1>4, <1>5

LEMMA LeadsIs == ASSUME NEW way, \A k \in 1..(Len(way) - 1) : Shows(d, way[k], way[k + 1], TRUE) PROVE Leads(way)
BY DEF Leads, Shows

LEMMA RowsLead ==
    /\ \A n \in DOMAIN d.apps : Leads(<<At("home"), At("apps"), AtRow("app.edit", n)>>)
    /\ \A n \in DOMAIN d.instances : Leads(<<At("home"), At("coolify"), [At("coolify") EXCEPT !.edit = n]>>)
    /\ \A n \in DOMAIN d.bindings : Leads(<<At("home"), At("repos"), AtRow("repo", n), AtRow("repo.edit", n)>>)
<1>1. ASSUME NEW n \in DOMAIN d.apps
      PROVE  Leads(<<At("home"), At("apps"), AtRow("app.edit", n)>>)
  BY HomeShows, AppShown, ThreeShow, LeadsIs
<1>2. ASSUME NEW n \in DOMAIN d.instances
      PROVE  Leads(<<At("home"), At("coolify"), [At("coolify") EXCEPT !.edit = n]>>)
  BY HomeShows, InstanceShown, ThreeShow, LeadsIs
<1>3. ASSUME NEW n \in DOMAIN d.bindings
      PROVE  Leads(<<At("home"), At("repos"), AtRow("repo", n), AtRow("repo.edit", n)>>)
  BY HomeShows, BindingShown, FourShow, LeadsIs
<1>. QED BY <1>1, <1>2, <1>3

-----------------------------------------------------------------------------
(* The index of the jobs, page by page.                                    *)

\* The jobs of a page of the whole index: those from one place to another.
LEMMA PageJobs ==
    ASSUME NEW db, Whole(db), NEW offset \in Nat
    PROVE  ListJobs(db, "", "", offset)
             = {db.jobs[i] : i \in {k \in DOMAIN db.jobs : offset < k /\ k <= offset + JobsLimit}}
<1>1. JobsLimit \in Nat \ {0}
  BY LimitsAssumption
<1>2. Len(db.jobs) \in Nat /\ DOMAIN db.jobs = 1..Len(db.jobs)
  BY JobRow
<1>3. Matching(db, "", "") = DOMAIN db.jobs
  BY DEF Matching
<1>4. ASSUME NEW k \in DOMAIN db.jobs
      PROVE  Cardinality(DOMAIN db.jobs \cap 1..k) = k
  <2>1. k \in Nat \ {0} /\ DOMAIN db.jobs \cap 1..k = 1..k
    BY <1>2, <1>4
  <2>2. Cardinality(1..k) = k
    BY <2>1, FS_Interval
  <2>. QED BY <2>1, <2>2
<1>5. {k \in DOMAIN db.jobs : Cardinality(DOMAIN db.jobs \cap 1..k) \in (offset + 1)..(offset + JobsLimit)}
        = {k \in DOMAIN db.jobs : offset < k /\ k <= offset + JobsLimit}
  BY <1>1, <1>2, <1>4
<1>6. ListJobs(db, "", "", offset) = {db.jobs[i] : i \in {k \in DOMAIN db.jobs :
          Cardinality(DOMAIN db.jobs \cap 1..k) \in (offset + 1)..(offset + JobsLimit)}}
  BY <1>3 DEF ListJobs, Slice
<1>. QED BY <1>5, <1>6

\* A page that is not the last is full.
LEMMA FullPage ==
    ASSUME NEW db, Whole(db), NEW offset \in Nat, offset + JobsLimit <= Len(db.jobs)
    PROVE  Cardinality(ListJobs(db, "", "", offset)) = JobsLimit
<1>. DEFINE places == (offset + 1)..(offset + JobsLimit)
            list == ListJobs(db, "", "", offset)
            f == [i \in places |-> db.jobs[i]]
<1>1. JobsLimit \in Nat \ {0}
  BY LimitsAssumption
<1>2. Len(db.jobs) \in Nat /\ DOMAIN db.jobs = 1..Len(db.jobs)
  BY JobRow
<1>3. {k \in DOMAIN db.jobs : offset < k /\ k <= offset + JobsLimit} = places
  BY <1>1, <1>2
<1>4. list = {db.jobs[i] : i \in places}
  BY <1>3, PageJobs
<1>5. IsFiniteSet(places) /\ Cardinality(places) = JobsLimit
  <2>1. offset + 1 \in Int /\ offset + JobsLimit \in Int
    BY <1>1
  <2>2. IsFiniteSet(places) /\ Cardinality(places) = (offset + JobsLimit) - (offset + 1) + 1
    BY <1>1, <2>1, FS_Interval
  <2>. QED BY <1>1, <2>2
<1>6. \A i, k \in places : db.jobs[i] = db.jobs[k] => i = k
  <2>1. places \subseteq DOMAIN db.jobs
    BY <1>3
  <2>. HIDE DEF places
  <2>. QED BY <2>1 DEF Whole, WholeJobs
<1>. HIDE DEF places, list
<1>7. f \in Surjection(places, list)
  BY <1>4 DEF Surjection
<1>8. f \in Injection(places, list)
  BY <1>4, <1>6 DEF Injection, IsInjective
<1>9. Cardinality(list) = Cardinality(places)
  BY <1>5, <1>7, <1>8, FS_Surjection
<1>. QED BY <1>5, <1>9 DEF list

\* The page of the index the i-th job is on.
LEMMA PageOfJob ==
    ASSUME NEW i \in Nat \ {0}
    PROVE  LET q == (i - 1) \div JobsLimit IN q \in Nat /\ q * JobsLimit < i /\ i <= q * JobsLimit + JobsLimit
<1>1. JobsLimit \in Nat \ {0} /\ i - 1 \in Nat
  BY LimitsAssumption
<1>. QED BY <1>1

LEMMA Pagewise ==
    ASSUME NEW m \in Nat, NEW q \in Nat, m < q
    PROVE  m * JobsLimit \in Nat /\ m * JobsLimit + JobsLimit = (m + 1) * JobsLimit
           /\ (m + 1) * JobsLimit <= q * JobsLimit
<1>1. JobsLimit \in Nat
  BY LimitsAssumption
<1>2. (q - (m + 1)) * JobsLimit \in Nat
  BY <1>1
<1>3. (q - (m + 1)) * JobsLimit = q * JobsLimit - (m + 1) * JobsLimit
  BY <1>1
<1>. QED BY <1>1, <1>2, <1>3

LEMMA JobsPathIs ==
    ASSUME NEW offset
    PROVE  LET a == JobsPath("", "", offset)
           IN a.page = "jobs" /\ a.repo = "" /\ a.status = "" /\ a.offset = offset
BY DEF JobsPath, At

LEMMA FirstPath == JobsPath("", "", 0) = At("jobs")
<1>. DEFINE a == At("jobs")
<1>1. a.repo = "" /\ a.status = "" /\ a.offset = 0 /\ a = [f \in DOMAIN a |-> a[f]]
  BY DEF At
<1>. HIDE DEF a
<1>2. [a EXCEPT !.repo = "", !.status = "", !.offset = 0] = a
  BY <1>1
<1>. QED BY <1>2 DEF JobsPath, a

LEMMA JobsRender ==
    ASSUME NEW db, NEW user, NEW offset
    PROVE  LET list == ListJobs(db, "", "", offset)
           IN \E v, filtered : Render(db, JobsPath("", "", offset), {}, user)
                = Shell({}, v (+) JobsTable(list, filtered) (+) JobsPager(JobsPath("", "", offset), Cardinality(list)))
<1>. DEFINE a == JobsPath("", "", offset)
            list == ListJobs(db, "", "", offset)
<1>1. a.page = "jobs" /\ a.repo = "" /\ a.status = "" /\ a.offset = offset
  BY JobsPathIs
<1>. HIDE DEF a
<1>2. Render(db, a, {}, user) = Jobs(db, a)
  BY <1>1 DEF Render
<1>3. ListJobs(db, a.repo, a.status, a.offset) = list
  BY <1>1
<1>. HIDE DEF list
<1>4. \E v, filtered : Jobs(db, a) = Shell({}, v (+) JobsTable(list, filtered) (+) JobsPager(a, Cardinality(list)))
  BY <1>3 DEF Jobs
<1>. QED BY <1>2, <1>4 DEF a, list

LEMMA NextShown ==
    ASSUME NEW db, Whole(db), NEW user, NEW offset \in Nat, offset + JobsLimit <= Len(db.jobs)
    PROVE  Shows(db, JobsPath("", "", offset), JobsPath("", "", offset + JobsLimit), user)
<1>. DEFINE a == JobsPath("", "", offset)
            b == JobsPath("", "", offset + JobsLimit)
            list == ListJobs(db, "", "", offset)
            n == Cardinality(list)
<1>1. n = JobsLimit /\ JobsLimit \in Nat
  BY FullPage, LimitsAssumption
<1>2. a.repo = "" /\ a.status = "" /\ a.offset = offset
  BY JobsPathIs
<1>3. PICK v, filtered : Render(db, a, {}, user) = Shell({}, v (+) JobsTable(list, filtered) (+) JobsPager(a, n))
  BY JobsRender
<1>. HIDE DEF a, n, list
<1>4. n >= JobsLimit
  BY <1>1
<1>5. PagerNext(a, n) = Link(JobsPath(a.repo, a.status, a.offset + JobsLimit))
  BY <1>4 DEF PagerNext, When
<1>6. JobsPager(a, n) = PagerPrevious(a) (+) PagerNext(a, n)
  BY <1>1 DEF JobsPager, When
<1>7. JobsPath(a.repo, a.status, a.offset + JobsLimit) = b
  BY <1>2
<1>. HIDE DEF b
<1>8. b \in JobsPager(a, n).links
  BY <1>5, <1>6, <1>7, LinkIn, SumIn
<1>9. b \in Render(db, a, {}, user).links
  BY <1>3, <1>8, SumIn, ShellIn
<1>. QED BY <1>9 DEF Shows, a, b

LEMMA RunShown ==
    ASSUME NEW db, Whole(db), NEW user, NEW offset \in Nat, NEW i \in DOMAIN db.jobs,
           offset < i, i <= offset + JobsLimit
    PROVE  Shows(db, JobsPath("", "", offset), AtRow("run", db.jobs[i].id), user)
<1>. DEFINE a == JobsPath("", "", offset)
            list == ListJobs(db, "", "", offset)
            j == db.jobs[i]
            b == AtRow("run", j.id)
            rows == {JobsRow(k) : k \in list}
<1>1. j \in list
  BY PageJobs
<1>2. \E v, filtered : Render(db, a, {}, user)
                         = Shell({}, v (+) JobsTable(list, filtered) (+) JobsPager(a, Cardinality(list)))
  BY JobsRender
<1>. HIDE DEF list, a
<1>0. PICK v, filtered, w : Render(db, a, {}, user) = Shell({}, v (+) JobsTable(list, filtered) (+) w)
  BY <1>2
<1>3. JobsTable(list, filtered) = Every(rows)
  BY <1>1 DEF JobsTable
<1>4. b \in JobsRow(j).links /\ JobsRow(j) \in rows
  BY <1>1, LinkIn, SumIn DEF JobsRow, RowLinks
<1>. HIDE DEF b, rows, j
<1>5. b \in Every(rows).links
  BY <1>4, EveryIn
<1>6. b \in Render(db, a, {}, user).links
  BY <1>0, <1>3, <1>5, SumIn, ShellIn
<1>. QED BY <1>6 DEF Shows, a, b, j

LEMMA RunLeads ==
    ASSUME Whole(d), NEW i \in DOMAIN d.jobs
    PROVE  Leads(WayToRun(i))
<1>. DEFINE q == (i - 1) \div JobsLimit
            way == WayToRun(i)
            run == AtRow("run", d.jobs[i].id)
            step(k) == IF k = 1 THEN At("home")
                       ELSE IF k <= (q + 1) + 1 THEN JobsPath("", "", (k - 2) * JobsLimit)
                       ELSE run
<1>1. Len(d.jobs) \in Nat /\ DOMAIN d.jobs = 1..Len(d.jobs) /\ i \in Nat \ {0} /\ i <= Len(d.jobs)
  BY JobRow
<1>2. q \in Nat /\ q * JobsLimit < i /\ i <= q * JobsLimit + JobsLimit
  BY <1>1, PageOfJob
<1>0. q \in Nat /\ (q + 1) + 2 = q + 3 /\ (q + 1) + 1 = q + 2
  BY <1>2
<1>10. way = [k \in 1..((q + 1) + 2) |-> step(k)]
  BY DEF WayToRun
<1>11. /\ step(1) = At("home") /\ step(q + 3) = run
       /\ \A k \in 2..(q + 2) : step(k) = JobsPath("", "", (k - 2) * JobsLimit)
  <2>. HIDE DEF q, run
  <2>1. step(1) = At("home")
    OBVIOUS
  <2>2. step(q + 3) = run
    BY <1>0
  <2>3. ASSUME NEW k \in 2..(q + 2)
        PROVE  step(k) = JobsPath("", "", (k - 2) * JobsLimit)
    <3>. DEFINE there == JobsPath("", "", (k - 2) * JobsLimit)
    <3>1. k # 1 /\ k <= (q + 1) + 1
      BY <1>0, <2>3
    <3>. HIDE DEF there
    <3>2. step(k) = there
      BY <3>1 DEF there
    <3>. QED BY <3>2 DEF there
  <2>. QED BY <2>1, <2>2, <2>3
<1>. HIDE DEF q, way, run, step
<1>3. way = [k \in 1..(q + 3) |-> step(k)]
  BY <1>0, <1>10
<1>4. Len(way) = q + 3
  <2>1. q + 3 \in Nat /\ way \in [1..(q + 3) -> {way[k] : k \in 1..(q + 3)}]
    BY <1>0, <1>3
  <2>2. way \in Seq({way[k] : k \in 1..(q + 3)})
    BY <2>1, SeqDef
  <2>3. Len(way) \in Nat /\ DOMAIN way = 1..Len(way) /\ DOMAIN way = 1..(q + 3)
    BY <2>1, <2>2, LenProperties
  <2>. QED BY <2>1, <2>3
<1>5. way[1] = At("home") /\ way[q + 3] = run
  <2>1. 1 \in 1..(q + 3) /\ q + 3 \in 1..(q + 3)
    BY <1>0
  <2>2. way[1] = step(1) /\ way[q + 3] = step(q + 3)
    BY <1>3, <2>1
  <2>. QED BY <1>11, <2>2
<1>6. ASSUME NEW m \in Nat, m <= q
      PROVE  way[m + 2] = JobsPath("", "", m * JobsLimit)
  <2>1. m + 2 \in 1..(q + 3) /\ m + 2 \in 2..(q + 2) /\ (m + 2) - 2 = m
    BY <1>0, <1>6
  <2>2. step(m + 2) = JobsPath("", "", ((m + 2) - 2) * JobsLimit)
    BY <1>11, <2>1
  <2>. QED BY <1>3, <2>1, <2>2
<1>7. ASSUME NEW k \in 1..(Len(way) - 1), NEW user
      PROVE  Shows(d, way[k], way[k + 1], user)
  <2>1. CASE k = 1
    <3>. DEFINE m == 0
    <3>1. m \in Nat /\ m <= q /\ m * JobsLimit = 0 /\ m + 2 = k + 1
      BY <1>0, <2>1, LimitsAssumption
    <3>. HIDE DEF m
    <3>2. way[m + 2] = JobsPath("", "", m * JobsLimit)
      BY <1>6, <3>1
    <3>3. way[k + 1] = At("jobs") /\ way[k] = At("home")
      BY <1>5, <2>1, <3>1, <3>2, FirstPath
    <3>. QED BY <3>3, HomeShows
  <2>2. CASE k # 1 /\ k # q + 2
    <3>. DEFINE m == k - 2
                offset == m * JobsLimit
    <3>1. m \in Nat /\ m < q /\ k = m + 2 /\ k + 1 = (m + 1) + 2 /\ m + 1 \in Nat /\ m + 1 <= q
      BY <1>2, <1>4, <2>2
    <3>. HIDE DEF m
    <3>2. way[k] = JobsPath("", "", offset) /\ way[k + 1] = JobsPath("", "", (m + 1) * JobsLimit)
      <4>1. m <= q
        BY <1>0, <3>1
      <4>2. way[m + 2] = JobsPath("", "", m * JobsLimit)
        BY <1>6, <3>1, <4>1
      <4>3. way[(m + 1) + 2] = JobsPath("", "", (m + 1) * JobsLimit)
        BY <1>6, <3>1
      <4>. QED BY <3>1, <4>2, <4>3
    <3>3. offset \in Nat /\ offset + JobsLimit = (m + 1) * JobsLimit /\ offset + JobsLimit <= q * JobsLimit
      BY <1>2, <3>1, Pagewise
    <3>. HIDE DEF offset
    <3>4. offset + JobsLimit <= Len(d.jobs)
      <4>1. JobsLimit \in Nat
        BY LimitsAssumption
      <4>. DEFINE last == q * JobsLimit
      <4>2. last \in Int
        BY <1>2, <4>1
      <4>3. offset + JobsLimit <= last /\ last < i
        BY <1>2, <3>3
      <4>. HIDE DEF last
      <4>. QED BY <1>1, <3>3, <4>1, <4>2, <4>3
    <3>5. Shows(d, JobsPath("", "", offset), JobsPath("", "", offset + JobsLimit), user)
      BY <3>3, <3>4, NextShown
    <3>. QED BY <3>2, <3>3, <3>5
  <2>3. CASE k = q + 2
    <3>. DEFINE offset == q * JobsLimit
    <3>1. way[k] = JobsPath("", "", offset) /\ way[k + 1] = run
      <4>1. k + 1 = q + 3 /\ q <= q
        BY <1>0, <2>3
      <4>2. way[q + 2] = JobsPath("", "", q * JobsLimit)
        BY <1>0, <1>6, <4>1
      <4>. QED BY <1>5, <2>3, <4>1, <4>2
    <3>2. offset \in Nat /\ offset < i /\ i <= offset + JobsLimit
      <4>1. JobsLimit \in Nat
        BY LimitsAssumption
      <4>. QED BY <1>2, <4>1
    <3>. HIDE DEF offset
    <3>3. Shows(d, JobsPath("", "", offset), run, user)
      BY <3>2, RunShown DEF run
    <3>. QED BY <3>1, <3>3
  <2>. QED BY <2>1, <2>2, <2>3
<1>8. Leads(way)
  BY <1>7, LeadsIs
<1>. QED BY <1>8 DEF way

LEMMA ReachInv == IInv => EveryRowIsInReach
<1>. SUFFICES ASSUME IInv PROVE EveryRowIsInReach
  OBVIOUS
<1>1. \A i \in DOMAIN d.jobs : Leads(WayToRun(i))
  BY InvIs, RunLeads
<1>. QED BY <1>1, RowsLead DEF EveryRowIsInReach

\* From the overview, by links alone, the user comes to the editor of every App,
\* instance and binding, and through the pages of the index to every run, however
\* many there are and however many a page of the index holds.
THEOREM RowsAlwaysInReach == Spec => []EveryRowIsInReach
<1>1. Init => IInv
  BY InitInv
<1>. QED BY <1>1, StepInv, ReachInv, PTL DEF Spec

-----------------------------------------------------------------------------
(* What a form leaves as it was.  First the settings: a column that the    *)
(* form has no field for, or sends as the row has it, stays.               *)

LEMMA FillingDomain == ASSUME NEW fields, NEW in \in Fillings(fields) PROVE DOMAIN in = DOMAIN fields
<1>1. DOMAIN Untouched(fields) = DOMAIN fields
  BY DEF Untouched
<1>2. in = Untouched(fields) \/ \E f \in DOMAIN fields : \E w \in fields[f].may : in = [Untouched(fields) EXCEPT ![f] = w]
  BY DEF Fillings
<1>. HIDE DEF Untouched
<1>. QED BY <1>1, <1>2

\* Not sent, or sent as this text.
Still(in, c, text) == c \notin DOMAIN in \/ in[c] = {text}

LEMMA TextStill == ASSUME NEW in, NEW c, NEW old, Still(in, c, old) PROVE Given(in, c, old) = old
BY StrOne, StrNone DEF Still, Given

LEMMA NumberStill ==
    ASSUME NEW in, NEW c, NEW old \in Numbers, Still(in, c, Numeral(old))
    PROVE  IntOf(in, c, old) = old
<1>1. CASE c \notin DOMAIN in
  BY <1>1, StrNone, IntOfBlank
<1>2. CASE c \in DOMAIN in /\ in[c] = {Numeral(old)}
  BY <1>2, StrOne, IntOfNumeral
<1>. QED BY <1>1, <1>2 DEF Still

LEMMA NumberKept ==
    ASSUME NEW in, NEW c, NEW old \in Numbers, NEW least \in Numbers, old >= least, Still(in, c, Numeral(old))
    PROVE  AtLeast(IntOf(in, c, old), least) = old
<1>1. IntOf(in, c, old) = old
  BY NumberStill
<1>2. old \in Nat /\ least \in Nat
  BY CountsAreNumbers
<1>. QED BY <1>1, <1>2 DEF AtLeast

\* What a form sends of a column, when it leaves it.
SettingStill(s, in, c) ==
    /\ c \in {"public_base_url", "default_check_name", "default_pipeline_file", "default_runtime"}
          => Still(in, c, s[c])
    /\ c \in {"default_timeout_seconds", "max_concurrent_jobs", "max_log_bytes", "log_retention_days"}
          => Still(in, c, Numeral(s[c]))
    /\ c = "skip_fork_prs" => \/ ~Has(in, "max_concurrent_jobs")
                              \/ c \in DOMAIN in /\ in[c] = IF s.skip_fork_prs THEN {"1"} ELSE {}

LEMMA SettingStays ==
    ASSUME NEW s, SettingsRow(s), NEW in, NEW c \in SettingsColumns, SettingStill(s, in, c)
    PROVE  PatchedRunner(PatchedNumbers(PatchedTexts(s, in), in), in)[c] = s[c]
<1>. DEFINE p == PatchedRunner(PatchedNumbers(PatchedTexts(s, in), in), in)
<1>1. DOMAIN s = SettingsColumns
  BY DEF SettingsRow
<1>2. s.default_check_name # "" /\ s.default_pipeline_file # ""
  BY DEF SettingsRow, SettingsTexts
<1>3. /\ p["public_base_url"] = Given(in, "public_base_url", s.public_base_url)
      /\ p["default_check_name"] = OrDefault(Given(in, "default_check_name", s.default_check_name), "openpreflight")
      /\ p["default_pipeline_file"] = OrDefault(Given(in, "default_pipeline_file", s.default_pipeline_file), ".ci.yml")
      /\ p["default_runtime"] = Given(in, "default_runtime", s.default_runtime)
  BY <1>1, PatchedIs
<1>8. /\ p["default_timeout_seconds"] = AtLeast(IntOf(in, "default_timeout_seconds", s.default_timeout_seconds), 30)
      /\ p["max_concurrent_jobs"] = AtLeast(IntOf(in, "max_concurrent_jobs", s.max_concurrent_jobs), 1)
      /\ p["max_log_bytes"] = AtLeast(IntOf(in, "max_log_bytes", s.max_log_bytes), 4096)
      /\ p["log_retention_days"] = AtLeast(IntOf(in, "log_retention_days", s.log_retention_days), 1)
  BY <1>1, PatchedIs
<1>9. p["skip_fork_prs"] = IF Has(in, "max_concurrent_jobs") THEN Bool(in, "skip_fork_prs") ELSE s.skip_fork_prs
  BY <1>1, PatchedIs
<1>. SUFFICES p[c] = s[c]
  OBVIOUS
<1>. HIDE DEF p
<1>4. \A text, default : text # "" => OrDefault(text, default) = text
  BY DEF OrDefault
<1>17. CASE c = "public_base_url"
  <2>1. Still(in, "public_base_url", s["public_base_url"])
    BY <1>17 DEF SettingStill
  <2>2. Given(in, "public_base_url", s["public_base_url"]) = s["public_base_url"]
    BY <2>1, TextStill
  <2>3. p["public_base_url"] = s["public_base_url"]
    BY <1>2, <1>3, <1>4, <2>2
  <2>. QED BY <1>17, <2>3
<1>18. CASE c = "default_runtime"
  <2>1. Still(in, "default_runtime", s["default_runtime"])
    BY <1>18 DEF SettingStill
  <2>2. Given(in, "default_runtime", s["default_runtime"]) = s["default_runtime"]
    BY <2>1, TextStill
  <2>3. p["default_runtime"] = s["default_runtime"]
    BY <1>2, <1>3, <1>4, <2>2
  <2>. QED BY <1>18, <2>3
<1>19. CASE c = "default_check_name"
  <2>1. Still(in, "default_check_name", s["default_check_name"])
    BY <1>19 DEF SettingStill
  <2>2. Given(in, "default_check_name", s["default_check_name"]) = s["default_check_name"]
    BY <2>1, TextStill
  <2>3. p["default_check_name"] = s["default_check_name"]
    BY <1>2, <1>3, <1>4, <2>2
  <2>. QED BY <1>19, <2>3
<1>20. CASE c = "default_pipeline_file"
  <2>1. Still(in, "default_pipeline_file", s["default_pipeline_file"])
    BY <1>20 DEF SettingStill
  <2>2. Given(in, "default_pipeline_file", s["default_pipeline_file"]) = s["default_pipeline_file"]
    BY <2>1, TextStill
  <2>3. p["default_pipeline_file"] = s["default_pipeline_file"]
    BY <1>2, <1>3, <1>4, <2>2
  <2>. QED BY <1>20, <2>3
<1>7. 30 \in Numbers /\ 1 \in Numbers /\ 4096 \in Numbers
  BY NumbersAssumption
<1>13. CASE c = "default_timeout_seconds"
  <2>1. Still(in, "default_timeout_seconds", Numeral(s["default_timeout_seconds"]))
    BY <1>13 DEF SettingStill
  <2>2. s["default_timeout_seconds"] \in Numbers /\ s["default_timeout_seconds"] >= 30
    BY DEF SettingsRow, SettingsNumbers
  <2>3. AtLeast(IntOf(in, "default_timeout_seconds", s["default_timeout_seconds"]), 30) = s["default_timeout_seconds"]
    BY <1>7, <2>1, <2>2, NumberKept
  <2>4. p["default_timeout_seconds"] = s["default_timeout_seconds"]
    BY <1>8, <2>3
  <2>. QED BY <1>13, <2>4
<1>14. CASE c = "max_concurrent_jobs"
  <2>1. Still(in, "max_concurrent_jobs", Numeral(s["max_concurrent_jobs"]))
    BY <1>14 DEF SettingStill
  <2>2. s["max_concurrent_jobs"] \in Numbers /\ s["max_concurrent_jobs"] >= 1
    BY DEF SettingsRow, SettingsNumbers
  <2>3. AtLeast(IntOf(in, "max_concurrent_jobs", s["max_concurrent_jobs"]), 1) = s["max_concurrent_jobs"]
    BY <1>7, <2>1, <2>2, NumberKept
  <2>4. p["max_concurrent_jobs"] = s["max_concurrent_jobs"]
    BY <1>8, <2>3
  <2>. QED BY <1>14, <2>4
<1>15. CASE c = "max_log_bytes"
  <2>1. Still(in, "max_log_bytes", Numeral(s["max_log_bytes"]))
    BY <1>15 DEF SettingStill
  <2>2. s["max_log_bytes"] \in Numbers /\ s["max_log_bytes"] >= 4096
    BY DEF SettingsRow, SettingsNumbers
  <2>3. AtLeast(IntOf(in, "max_log_bytes", s["max_log_bytes"]), 4096) = s["max_log_bytes"]
    BY <1>7, <2>1, <2>2, NumberKept
  <2>4. p["max_log_bytes"] = s["max_log_bytes"]
    BY <1>8, <2>3
  <2>. QED BY <1>15, <2>4
<1>16. CASE c = "log_retention_days"
  <2>1. Still(in, "log_retention_days", Numeral(s["log_retention_days"]))
    BY <1>16 DEF SettingStill
  <2>2. s["log_retention_days"] \in Numbers /\ s["log_retention_days"] >= 1
    BY DEF SettingsRow, SettingsNumbers
  <2>3. AtLeast(IntOf(in, "log_retention_days", s["log_retention_days"]), 1) = s["log_retention_days"]
    BY <1>7, <2>1, <2>2, NumberKept
  <2>4. p["log_retention_days"] = s["log_retention_days"]
    BY <1>8, <2>3
  <2>. QED BY <1>16, <2>4
<1>12. CASE c = "skip_fork_prs"
  <2>0. s.skip_fork_prs \in BOOLEAN
    BY DEF SettingsRow
  <2>1. CASE ~Has(in, "max_concurrent_jobs")
    BY <1>9, <1>12, <2>1
  <2>2. CASE c \in DOMAIN in /\ in[c] = IF s.skip_fork_prs THEN {"1"} ELSE {}
    <3>1. CASE s.skip_fork_prs = TRUE
      <4>1. in["skip_fork_prs"] = {"1"}
        BY <1>12, <2>2, <3>1
      <4>2. Str(in, "skip_fork_prs") = "1"
        BY <1>12, <2>2, <4>1, StrOne
      <4>3. Bool(in, "skip_fork_prs") = TRUE
        BY <4>2 DEF Bool
      <4>. QED BY <1>9, <1>12, <3>1, <4>3
    <3>2. CASE s.skip_fork_prs = FALSE
      <4>1. in["skip_fork_prs"] = {}
        BY <1>12, <2>2, <3>2
      <4>2. Str(in, "skip_fork_prs") = ""
        BY <4>1, StrNone
      <4>3. Bool(in, "skip_fork_prs") = FALSE
        BY <4>2 DEF Bool
      <4>. QED BY <1>9, <1>12, <3>2, <4>3
    <3>. QED BY <2>0, <3>1, <3>2
  <2>3. \/ ~Has(in, "max_concurrent_jobs")
        \/ c \in DOMAIN in /\ in[c] = IF s.skip_fork_prs THEN {"1"} ELSE {}
    BY <1>12 DEF SettingStill
  <2>. QED BY <2>1, <2>2, <2>3
<1>. QED BY <1>12, <1>13, <1>14, <1>15, <1>16, <1>17, <1>18, <1>19, <1>20 DEF SettingsColumns

\* What the form of a section draws.
LEMMA SettingsShown ==
    ASSUME NEW of, NEW page \in {"settings", "runner", "logs"}
    PROVE  LET fields == SettingsFieldsOf(of, page)
           IN /\ \A c \in DOMAIN fields :
                   /\ c \in {"public_base_url", "default_check_name", "default_pipeline_file", "default_runtime"}
                         => fields[c].shown = {of.settings[c]}
                   /\ c \in {"default_timeout_seconds", "max_concurrent_jobs", "max_log_bytes", "log_retention_days"}
                         => fields[c].shown = {Numeral(of.settings[c])}
                   /\ c = "skip_fork_prs" => fields[c].shown = IF of.settings.skip_fork_prs THEN {"1"} ELSE {}
              /\ "max_concurrent_jobs" \in DOMAIN fields => "skip_fork_prs" \in DOMAIN fields
<1>. DEFINE s == of.settings
<1>0. /\ \A value : Text(value).shown = {value}
      /\ \A value, least, most : Number(value, least, most).shown = {value}
      /\ \A value, checked : CheckBox(value, checked).shown = IF checked THEN {value} ELSE {}
  BY DEF Text, Number, CheckBox, One, None
<1>1. CASE page = "settings"
  <2>. DEFINE fields == ConfigurationFields(s)
  <2>1. /\ DOMAIN fields = {"next", "public_base_url", "default_check_name", "default_pipeline_file",
                            "default_timeout_seconds"}
        /\ fields["public_base_url"] = Text(s.public_base_url)
        /\ fields["default_check_name"] = Text(s.default_check_name)
        /\ fields["default_pipeline_file"] = Text(s.default_pipeline_file)
        /\ \E least, most : fields["default_timeout_seconds"] = Number(Numeral(s.default_timeout_seconds), least, most)
    BY DEF ConfigurationFields, ConfigurationAddress, ConfigurationCheck, ConfigurationFile, ConfigurationTimeout
  <2>2. SettingsFieldsOf(of, page) = fields
    BY <1>1 DEF SettingsFieldsOf
  <2>. HIDE DEF fields
  <2>. QED BY <1>0, <2>1, <2>2
<1>2. CASE page = "runner"
  <2>. DEFINE fields == RunnerFields(s)
  <2>1. /\ DOMAIN fields = {"next", "max_concurrent_jobs", "default_runtime", "skip_fork_prs"}
        /\ fields["default_runtime"] = Text(s.default_runtime)
        /\ fields["skip_fork_prs"] = CheckBox("1", s.skip_fork_prs)
        /\ \E least, most : fields["max_concurrent_jobs"] = Number(Numeral(s.max_concurrent_jobs), least, most)
    BY DEF RunnerFields, RunnerImage, RunnerForks, RunnerSlots
  <2>2. SettingsFieldsOf(of, page) = fields
    BY <1>2 DEF SettingsFieldsOf
  <2>. HIDE DEF fields
  <2>. QED BY <1>0, <2>1, <2>2
<1>3. CASE page = "logs"
  <2>. DEFINE fields == LogsFields(s)
  <2>1. /\ DOMAIN fields = {"next", "max_log_bytes", "log_retention_days"}
        /\ \E least, most : fields["max_log_bytes"] = Number(Numeral(s.max_log_bytes), least, most)
        /\ \E least, most : fields["log_retention_days"] = Number(Numeral(s.log_retention_days), least, most)
    BY DEF LogsFields, LogsSize, LogsDays
  <2>2. SettingsFieldsOf(of, page) = fields
    BY <1>3 DEF SettingsFieldsOf
  <2>. HIDE DEF fields
  <2>. QED BY <1>0, <2>1, <2>2
<1>. QED BY <1>1, <1>2, <1>3

\* The settings after a form's answer, as SettingsKept has it.
LEMMA PatchKeeps ==
    ASSUME NEW db, Whole(db), NEW of, NEW page \in {"settings", "runner", "logs"},
           NEW in \in Fillings(SettingsFieldsOf(of, page)), NEW answer \in PatchSettings(db, in),
           NEW c \in DOMAIN db.settings, answer.d.settings[c] # db.settings[c]
    PROVE  /\ c \in DOMAIN SettingsFieldsOf(of, page)
           /\ in[c] # SettingsFieldsOf(of, page)[c].shown \/ of.settings[c] # db.settings[c]
<1>. DEFINE s == db.settings
            p == PatchedRunner(PatchedNumbers(PatchedTexts(s, in), in), in)
            fields == SettingsFieldsOf(of, page)
<1>1. SettingsRow(s) /\ DOMAIN s = SettingsColumns
  BY DEF Whole, SettingsRow
<1>2. answer.d.settings = p
  <2>1. answer \in Refused(db) \/ answer = Answer([db EXCEPT !.settings = p], SettingsNext(in), "ok")
    BY DEF PatchSettings, IfFit
  <2>2. answer.d = db \/ answer.d = [db EXCEPT !.settings = p]
    BY <2>1, AnswerIs DEF Refused
  <2>3. answer.d.settings # s
    OBVIOUS
  <2>. QED BY <2>2, <2>3 DEF Whole
<1>3. DOMAIN in = DOMAIN fields
  BY FillingDomain
<1>. SUFFICES ASSUME c \notin DOMAIN fields \/ (in[c] = fields[c].shown /\ of.settings[c] = s[c])
              PROVE  FALSE
  OBVIOUS
<1>4. /\ \A f \in DOMAIN fields :
           /\ f \in {"public_base_url", "default_check_name", "default_pipeline_file", "default_runtime"}
                 => fields[f].shown = {of.settings[f]}
           /\ f \in {"default_timeout_seconds", "max_concurrent_jobs", "max_log_bytes", "log_retention_days"}
                 => fields[f].shown = {Numeral(of.settings[f])}
           /\ f = "skip_fork_prs" => fields[f].shown = IF of.settings.skip_fork_prs THEN {"1"} ELSE {}
      /\ "max_concurrent_jobs" \in DOMAIN fields => "skip_fork_prs" \in DOMAIN fields
  BY SettingsShown
<1>. HIDE DEF fields
<1>5. SettingStill(s, in, c)
  BY <1>3, <1>4, StrNone DEF SettingStill, Still
<1>8. p[c] = s[c]
  <2>. HIDE DEF p, s
  <2>1. c \in SettingsColumns
    BY <1>1 DEF s
  <2>. QED BY <1>1, <1>5, <2>1, SettingStays DEF p
<1>. QED BY <1>2, <1>8

-----------------------------------------------------------------------------
(* The Apps and the instances.                                             *)

LEMMA RefusedIs == \A db : \A answer \in Refused(db) : answer.d = db
BY AnswerIs DEF Refused

LEMMA TriedIs == \A db, to : \A answer \in Tried(db, to) : answer.d = db
BY AnswerIs DEF Tried

LEMMA StrBlank == ASSUME NEW in, NEW f \in DOMAIN in, in[f] = {""} PROVE Str(in, f) = ""
<1>1. \A v : in[f] = {v} => Str(in, f) = v
  BY StrOne
<1>. QED BY <1>1

LEMMA SameKept == ASSUME NEW form, NEW in, NEW rows, NEW update, NEW delete PROVE RowsKept(form, in, rows, rows, update, delete)
BY DEF RowsKept

LEMMA PutKept ==
    ASSUME NEW form, NEW in, NEW old, NEW new, NEW update, NEW delete, NEW n, n \notin DOMAIN old,
           NEW row, Put(old, new, n, row)
    PROVE  RowsKept(form, in, old, new, update, delete)
BY DEF Put, RowsKept

LEMMA LessKept ==
    ASSUME NEW form, NEW in, NEW old, NEW new, NEW update, NEW delete, form.to = delete, Less(old, new, {form.id})
    PROVE  RowsKept(form, in, old, new, update, delete)
BY DEF Less, RowsKept

LEMMA UpdateKept ==
    ASSUME NEW form, NEW in, NEW old, NEW new, NEW update, NEW delete, form.to = update, form.id \in DOMAIN old,
           NEW row, Put(old, new, form.id, row),
           \A c \in DOMAIN old[form.id] : row[c] # old[form.id][c] => Asked(form, in, c)
    PROVE  RowsKept(form, in, old, new, update, delete)
<1>1. DOMAIN new = DOMAIN old
  BY DEF Put
<1>2. ASSUME NEW n \in DOMAIN old, NEW c \in DOMAIN old[n], new[n][c] # old[n][c]
      PROVE  form.to = update /\ form.id = n /\ Asked(form, in, c)
  <2>1. n = form.id
    BY <1>2 DEF Put
  <2>2. new[n] = row
    BY <2>1 DEF Put
  <2>. QED BY <1>2, <2>1, <2>2
<1>. QED BY <1>1, <1>2 DEF RowsKept

LEMMA ShownIs ==
    /\ \A value : Text(value).shown = {value} /\ Required(Text(value)).shown = {value}
    /\ \A value, least, most : Number(value, least, most).shown = {value}
    /\ \A value, options : Select(value, options).shown = {value}
    /\ Secret(FALSE).shown = {""} /\ Area(FALSE).shown = {""}
    /\ \A value, checked : CheckBox(value, checked).shown = IF checked THEN {value} ELSE {}
    /\ \A value : Fixed(value).shown = {value}
BY DEF Text, Required, Number, Select, Secret, Area, CheckBox, Fixed, One, None

LEMMA MergedAppAre ==
    ASSUME NEW old, NEW in
    PROVE  LET row == MergedApp(old, in)
           IN /\ row.name = Given(in, "name", old.name) /\ row.slug = Given(in, "slug", old.slug)
              /\ row.app_id = IntOf(in, "app_id", old.app_id) /\ row.api_url = Given(in, "api_url", old.api_url)
              /\ row.check_name = Given(in, "check_name", old.check_name)
              /\ row.pem = OrDefault(Str(in, "pem"), old.pem)
              /\ row.webhook_secret = OrDefault(Str(in, "webhook_secret"), old.webhook_secret)
BY DEF MergedApp

\* A column of an App whose field was left as it was drawn.
LEMMA AppStays ==
    ASSUME NEW old, AppRow(old), NEW in, DOMAIN in = AppColumns, NEW c \in AppColumns,
           in[c] = AppFields(TRUE, old)[c].shown
    PROVE  Normal(MergedApp(old, in))[c] = old[c]
<1>. DEFINE merged == MergedApp(old, in)
            row == Normal(merged)
            fields == AppFields(TRUE, old)
<1>1. old.slug # "" /\ old.api_url # "" /\ old.app_id \in Numbers
  BY DEF AppRow
<1>20. old.app_id > 0
  BY DEF AppRow, AppFit
<1>17. /\ fields["name"] = Required(Text(old.name)) /\ fields["slug"] = Text(old.slug)
       /\ fields["app_id"] = AppNumber(TRUE, old) /\ fields["api_url"] = AppAPI(TRUE, old)
       /\ fields["check_name"] = Text(old.check_name)
       /\ fields["webhook_secret"] = Secret(~TRUE) /\ fields["pem"] = Area(~TRUE)
  BY AppFieldsAre
<1>. HIDE DEF fields
<1>2. /\ fields["name"].shown = {old.name} /\ fields["slug"].shown = {old.slug}
      /\ fields["check_name"].shown = {old.check_name}
      /\ fields["webhook_secret"].shown = {""} /\ fields["pem"].shown = {""}
  BY <1>17, ShownIs
<1>18. fields["api_url"].shown = {old.api_url}
  <2>1. AppAPI(TRUE, old) = Text(old.api_url)
    BY DEF AppAPI
  <2>2. Text(old.api_url).shown = {old.api_url}
    BY ShownIs
  <2>. QED BY <1>17, <2>1, <2>2
<1>3. fields["app_id"].shown = {Numeral(old.app_id)}
  <2>1. old.app_id # 0
    <3>1. old.app_id \in Nat
      BY <1>1, CountsAreNumbers
    <3>. QED BY <1>20, <3>1
  <2>2. IdOrBlank(old.app_id) = Numeral(old.app_id)
    BY <2>1 DEF IdOrBlank, Id
  <2>3. AppNumber(TRUE, old) = Required(Number(IdOrBlank(old.app_id), 1, Most))
    BY DEF AppNumber
  <2>4. Required(Number(IdOrBlank(old.app_id), 1, Most)).shown = {IdOrBlank(old.app_id)}
    BY DEF Required, Number, One
  <2>. QED BY <1>17, <2>2, <2>3, <2>4
<1>4. DOMAIN merged = AppColumns
  BY <1>1, MergedAppIs
<1>5. /\ merged.name = Given(in, "name", old.name) /\ merged.slug = Given(in, "slug", old.slug)
      /\ merged.app_id = IntOf(in, "app_id", old.app_id) /\ merged.api_url = Given(in, "api_url", old.api_url)
      /\ merged.check_name = Given(in, "check_name", old.check_name)
      /\ merged.pem = OrDefault(Str(in, "pem"), old.pem)
      /\ merged.webhook_secret = OrDefault(Str(in, "webhook_secret"), old.webhook_secret)
  BY MergedAppAre
<1>. HIDE DEF merged
<1>6. /\ row["name"] = merged.name /\ row["app_id"] = merged.app_id /\ row["check_name"] = merged.check_name
      /\ row["pem"] = merged.pem /\ row["webhook_secret"] = merged.webhook_secret
      /\ row["slug"] = Slug(merged) /\ row["api_url"] = OrDefault(merged.api_url, DefaultAPI)
  BY <1>4, NormalIs
<1>. SUFFICES row[c] = old[c]
  BY DEF merged
<1>. HIDE DEF row
<1>7. in[c] = fields[c].shown
  BY DEF fields
<1>9. \A default : OrDefault("", default) = default
  BY DEF OrDefault
<1>19. c \in DOMAIN in
  OBVIOUS
<1>10. CASE c = "name"
  <2>1. in["name"] = {old.name}
    BY <1>2, <1>7, <1>10
  <2>2. Given(in, "name", old.name) = old.name
    BY <2>1, TextStill DEF Still
  <2>3. row["name"] = old.name
    BY <1>5, <1>6, <2>2
  <2>. QED BY <1>10, <2>3
<1>11. CASE c = "slug"
  <2>1. in["slug"] = {old.slug}
    BY <1>2, <1>7, <1>11
  <2>2. Given(in, "slug", old.slug) = old.slug
    BY <2>1, TextStill DEF Still
  <2>3. merged.slug = old.slug
    BY <1>5, <2>2
  <2>4. Slug(merged) = old.slug
    BY <1>1, <2>3 DEF Slug
  <2>. QED BY <1>6, <1>11, <2>4
<1>12. CASE c = "app_id"
  <2>1. in["app_id"] = {Numeral(old.app_id)}
    BY <1>3, <1>7, <1>12
  <2>2. Str(in, "app_id") = Numeral(old.app_id)
    BY <1>12, <1>19, <2>1, StrOne
  <2>3. IntOf(in, "app_id", old.app_id) = old.app_id
    BY <1>1, <2>2, IntOfNumeral
  <2>. QED BY <1>5, <1>6, <1>12, <2>3
<1>13. CASE c = "api_url"
  <2>1. in["api_url"] = {old.api_url}
    BY <1>7, <1>13, <1>18
  <2>2. Given(in, "api_url", old.api_url) = old.api_url
    BY <2>1, TextStill DEF Still
  <2>3. merged.api_url = old.api_url
    BY <1>5, <2>2
  <2>4. OrDefault(merged.api_url, DefaultAPI) = old.api_url
    BY <1>1, <2>3 DEF OrDefault
  <2>. QED BY <1>6, <1>13, <2>4
<1>14. CASE c = "check_name"
  <2>1. in["check_name"] = {old.check_name}
    BY <1>2, <1>7, <1>14
  <2>2. Given(in, "check_name", old.check_name) = old.check_name
    BY <2>1, TextStill DEF Still
  <2>3. row["check_name"] = old.check_name
    BY <1>5, <1>6, <2>2
  <2>. QED BY <1>14, <2>3
<1>15. CASE c = "pem"
  <2>1. in["pem"] = {""}
    BY <1>2, <1>7, <1>15
  <2>2. Str(in, "pem") = ""
    <3>1. "pem" \in DOMAIN in
      BY <1>19, <1>15
    <3>. QED BY <2>1, <3>1, StrBlank
  <2>3. row["pem"] = old.pem
    BY <1>5, <1>6, <1>9, <2>2
  <2>. QED BY <1>15, <2>3
<1>16. CASE c = "webhook_secret"
  <2>1. in["webhook_secret"] = {""}
    BY <1>2, <1>7, <1>16
  <2>2. Str(in, "webhook_secret") = ""
    <3>1. "webhook_secret" \in DOMAIN in
      BY <1>19, <1>16
    <3>. QED BY <2>1, <3>1, StrBlank
  <2>3. row["webhook_secret"] = old.webhook_secret
    BY <1>5, <1>6, <1>9, <2>2
  <2>. QED BY <1>16, <2>3
<1>. QED BY <1>10, <1>11, <1>12, <1>13, <1>14, <1>15, <1>16 DEF AppColumns

\* The rows of the Apps after an answer, as RowsKept has them.
LEMMA UpdateAppKeeps ==
    ASSUME NEW db, Whole(db), NEW form, form.to = "apps.update", NEW n \in DOMAIN db.apps, form.id = n,
           form.fields = AppFields(TRUE, db.apps[n]), NEW in \in Fillings(form.fields),
           NEW answer \in UpdateApp(db, n, in)
    PROVE  RowsKept(form, in, db.apps, answer.d.apps, "apps.update", "apps.delete")
<1>. DEFINE old == db.apps[n]
            row == Normal(MergedApp(old, in))
            db2 == [db EXCEPT !.apps[n] = row]
<1>1. AppRow(old)
  BY DEF Whole, WholeApps
<1>2. DOMAIN old = AppColumns
  BY <1>1 DEF AppRow, NoApp, AppColumns
<1>3. answer \in Refused(db) \/ answer = Answer(db2, At("apps"), "ok")
  BY DEF UpdateApp, IfFound, IfFit
<1>4. answer.d = db \/ answer.d = db2
  BY <1>3, AnswerIs DEF Refused
<1>5. db2.apps = [db.apps EXCEPT ![n] = row]
  BY DEF Whole
<1>6. DOMAIN in = AppColumns /\ DOMAIN form.fields = AppColumns
  <2>1. DOMAIN in = DOMAIN form.fields
    BY FillingDomain
  <2>2. DOMAIN AppFields(TRUE, old) = AppColumns
    BY AppFieldsAre
  <2>. QED BY <2>1, <2>2
<1>. HIDE DEF db2
<1>7. ASSUME NEW c \in AppColumns, row[c] # old[c] PROVE Asked(form, in, c)
  <2>1. in[c] # AppFields(TRUE, old)[c].shown
    BY <1>1, <1>6, <1>7, AppStays
  <2>. QED BY <1>6, <2>1 DEF Asked
<1>. HIDE DEF row
<1>8. Put(db.apps, db2.apps, n, row)
  BY <1>5, ExceptPut
<1>9. RowsKept(form, in, db.apps, db2.apps, "apps.update", "apps.delete")
  BY <1>2, <1>7, <1>8, UpdateKept
<1>. QED BY <1>4, <1>9, SameKept

LEMMA CreatedKeeps ==
    ASSUME NEW db, Whole(db), NEW form, NEW in, NEW row
    PROVE  RowsKept(form, in, db.apps, Created(db, row).apps, "apps.update", "apps.delete")
<1>1. Created(db, row).apps = Added(db.apps, db.next, Normal(row))
  BY DEF Created, Whole
<1>2. db.next \notin DOMAIN db.apps
  BY DEF Whole, WholeApps, Keys
<1>. QED BY <1>1, <1>2, AddedPut, PutKept

LEMMA AppsStay ==
    ASSUME NEW db, Whole(db), NEW form, NEW in, NEW n, NEW answer,
           \/ answer \in CreateApp(db, in) \/ answer \in CallbackAppManifest(db, in)
           \/ answer \in TestApp(db, n) \/ answer \in StartAppManifest(db)
    PROVE  RowsKept(form, in, db.apps, answer.d.apps, "apps.update", "apps.delete")
<1>1. answer.d = db \/ \E row : answer.d = Created(db, row)
  <2>1. CASE answer \in CreateApp(db, in)
    <3>1. answer \in Refused(db) \/ \E row : answer \in Tried(Created(db, row), At("apps"))
      BY <2>1 DEF CreateApp, IfFit
    <3>. QED BY <3>1, TriedIs, RefusedIs
  <2>2. CASE answer \in CallbackAppManifest(db, in)
    <3>1. \/ answer \in Refused(db) \/ answer = Answer(db, At("error"), "")
          \/ \E row : answer \in Tried(Created(db, row), At("apps"))
      BY <2>2 DEF CallbackAppManifest, IfFit
    <3>2. Answer(db, At("error"), "").d = db
      BY DEF Answer
    <3>. QED BY <3>1, <3>2, TriedIs, RefusedIs
  <2>3. CASE answer \in TestApp(db, n)
    BY <2>3, AnswerIs DEF TestApp, Tried
  <2>4. CASE answer \in StartAppManifest(db)
    <3>1. answer \in Refused(db) \/ answer = Answer(db, At("github"), "")
      BY <2>4 DEF StartAppManifest
    <3>2. Answer(db, At("github"), "").d = db
      BY DEF Answer
    <3>. QED BY <3>1, <3>2, RefusedIs
  <2>. QED BY <2>1, <2>2, <2>3, <2>4
<1>. QED BY <1>1, CreatedKeeps, SameKept

LEMMA DeleteAppKeeps ==
    ASSUME NEW db, Whole(db), NEW form, form.to = "apps.delete", NEW in, NEW answer \in DeleteApp(db, form.id)
    PROVE  RowsKept(form, in, db.apps, answer.d.apps, "apps.update", "apps.delete")
<1>1. answer.d = db \/ answer.d = DeletedApp(db, form.id)
  BY AnswerIs DEF DeleteApp, IfFound, Refused
<1>2. DeletedApp(db, form.id).apps = Without(db.apps, {form.id})
  BY DEF DeletedApp, Whole
<1>3. Less(db.apps, Without(db.apps, {form.id}), {form.id})
  BY WithoutLess
<1>4. CASE answer.d = DeletedApp(db, form.id)
  <2>1. Less(db.apps, answer.d.apps, {form.id})
    BY <1>2, <1>3, <1>4
  <2>. QED BY <2>1, LessKept
<1>. QED BY <1>1, <1>4, SameKept

LEMMA MergedInstanceAre ==
    ASSUME NEW old, NEW in
    PROVE  LET row == MergedInstance(old, in)
           IN /\ DOMAIN row = InstanceColumns
              /\ row["name"] = Given(in, "name", old.name) /\ row["base_url"] = Given(in, "base_url", old.base_url)
              /\ row["api_token"] = OrDefault(Str(in, "api_token"), old.api_token)
              /\ row["default_server_uuid"] = Given(in, "default_server_uuid", old.default_server_uuid)
              /\ row["default_project_uuid"] = Given(in, "default_project_uuid", old.default_project_uuid)
BY DEF MergedInstance, InstanceColumns

LEMMA LabelledIs ==
    ASSUME NEW row, DOMAIN row = InstanceColumns
    PROVE  /\ DOMAIN Labelled(row) = InstanceColumns /\ Labelled(row)["name"] = OrDefault(row.name, row.base_url)
           /\ \A c \in InstanceColumns \ {"name"} : Labelled(row)[c] = row[c]
BY DEF Labelled, InstanceColumns

\* A column of an instance that has no field, or whose field was left as it was drawn.
LEMMA InstanceStays ==
    ASSUME NEW old, InstanceRow(old), NEW in, DOMAIN in = {"name", "base_url", "api_token"}, NEW c \in InstanceColumns,
           c \notin DOMAIN in \/ in[c] = InstanceFields(TRUE, old)[c].shown
    PROVE  Labelled(MergedInstance(old, in))[c] = old[c]
<1>. DEFINE merged == MergedInstance(old, in)
            row == Labelled(merged)
            fields == InstanceFields(TRUE, old)
<1>1. old.name # ""
  BY DEF InstanceRow
<1>2. /\ fields["name"] = Text(old.name) /\ fields["base_url"] = Required(Text(old.base_url))
      /\ fields["api_token"] = Secret(~TRUE)
  BY InstanceFieldsAre
<1>. HIDE DEF fields
<1>3. fields["name"].shown = {old.name} /\ fields["base_url"].shown = {old.base_url} /\ fields["api_token"].shown = {""}
  BY <1>2, ShownIs
<1>4. DOMAIN merged = InstanceColumns
  BY MergedInstanceAre
<1>5. /\ merged["name"] = Given(in, "name", old.name) /\ merged["base_url"] = Given(in, "base_url", old.base_url)
      /\ merged["api_token"] = OrDefault(Str(in, "api_token"), old.api_token)
      /\ merged["default_server_uuid"] = Given(in, "default_server_uuid", old.default_server_uuid)
      /\ merged["default_project_uuid"] = Given(in, "default_project_uuid", old.default_project_uuid)
  BY MergedInstanceAre
<1>. HIDE DEF merged
<1>6. row["name"] = OrDefault(merged.name, merged.base_url)
  BY <1>4, LabelledIs
<1>7. \A f \in InstanceColumns \ {"name"} : row[f] = merged[f]
  BY <1>4, LabelledIs
<1>. SUFFICES row[c] = old[c]
  BY DEF merged
<1>. HIDE DEF row
<1>8. c \notin DOMAIN in \/ in[c] = fields[c].shown
  BY DEF fields
<1>9. CASE c = "name"
  <2>1. in["name"] = {old.name}
    BY <1>3, <1>8, <1>9
  <2>2. Given(in, "name", old.name) = old.name
    BY <2>1, TextStill DEF Still
  <2>3. OrDefault(merged.name, merged.base_url) = old.name
    BY <1>1, <1>5, <2>2 DEF OrDefault
  <2>. QED BY <1>6, <1>9, <2>3
<1>10. CASE c = "base_url"
  <2>1. in["base_url"] = {old.base_url}
    BY <1>3, <1>8, <1>10
  <2>2. Given(in, "base_url", old.base_url) = old.base_url
    BY <2>1, TextStill DEF Still
  <2>. QED BY <1>5, <1>7, <1>10, <2>2
<1>11. CASE c = "api_token"
  <2>1. in["api_token"] = {""} /\ "api_token" \in DOMAIN in
    BY <1>3, <1>8, <1>11
  <2>2. Str(in, "api_token") = ""
    BY <2>1, StrBlank
  <2>3. OrDefault(Str(in, "api_token"), old.api_token) = old.api_token
    BY <2>2 DEF OrDefault
  <2>. QED BY <1>5, <1>7, <1>11, <2>3
<1>12. CASE c = "default_server_uuid"
  <2>1. Given(in, "default_server_uuid", old.default_server_uuid) = old.default_server_uuid
    BY TextStill DEF Still
  <2>. QED BY <1>5, <1>7, <1>12, <2>1
<1>13. CASE c = "default_project_uuid"
  <2>1. Given(in, "default_project_uuid", old.default_project_uuid) = old.default_project_uuid
    BY TextStill DEF Still
  <2>. QED BY <1>5, <1>7, <1>13, <2>1
<1>. QED BY <1>9, <1>10, <1>11, <1>12, <1>13 DEF InstanceColumns

\* The rows of the instances after an answer, as RowsKept has them.
LEMMA UpdateCoolifyKeeps ==
    ASSUME NEW db, Whole(db), NEW form, form.to = "coolify.update", NEW n \in DOMAIN db.instances, form.id = n,
           form.fields = InstanceFields(TRUE, db.instances[n]), NEW in \in Fillings(form.fields),
           NEW answer \in UpdateCoolify(db, n, in)
    PROVE  RowsKept(form, in, db.instances, answer.d.instances, "coolify.update", "coolify.delete")
<1>. DEFINE old == db.instances[n]
            row == Labelled(MergedInstance(old, in))
            db2 == [db EXCEPT !.instances[n] = row]
<1>1. InstanceRow(old)
  BY DEF Whole, WholeInstances
<1>2. DOMAIN old = InstanceColumns
  BY <1>1 DEF InstanceRow, NoInstance, InstanceColumns
<1>3. answer \in Refused(db) \/ answer = Answer(db2, At("coolify"), "ok")
  BY DEF UpdateCoolify, IfFound, IfFit
<1>4. answer.d = db \/ answer.d = db2
  BY <1>3, AnswerIs, RefusedIs
<1>5. db2.instances = [db.instances EXCEPT ![n] = row]
  BY DEF Whole
<1>6. DOMAIN in = {"name", "base_url", "api_token"} /\ DOMAIN form.fields = {"name", "base_url", "api_token"}
  <2>1. DOMAIN in = DOMAIN form.fields
    BY FillingDomain
  <2>2. DOMAIN InstanceFields(TRUE, old) = {"name", "base_url", "api_token"}
    BY InstanceFieldsAre
  <2>. QED BY <2>1, <2>2
<1>. HIDE DEF db2
<1>7. ASSUME NEW c \in InstanceColumns, row[c] # old[c] PROVE Asked(form, in, c)
  <2>2. c \notin DOMAIN in \/ in[c] = InstanceFields(TRUE, old)[c].shown => row[c] = old[c]
    <3>. SUFFICES ASSUME c \notin DOMAIN in \/ in[c] = InstanceFields(TRUE, old)[c].shown PROVE row[c] = old[c]
      OBVIOUS
    <3>1. InstanceRow(old) /\ DOMAIN in = {"name", "base_url", "api_token"}
      BY <1>1, <1>6
    <3>. HIDE DEF old
    <3>. QED BY <3>1, InstanceStays
  <2>1. c \in DOMAIN in /\ in[c] # InstanceFields(TRUE, old)[c].shown
    <3>. HIDE DEF old, row
    <3>. QED BY <1>7, <2>2
  <2>. QED BY <1>6, <2>1 DEF Asked
<1>. HIDE DEF row
<1>8. Put(db.instances, db2.instances, n, row)
  BY <1>5, ExceptPut
<1>9. RowsKept(form, in, db.instances, db2.instances, "coolify.update", "coolify.delete")
  BY <1>2, <1>7, <1>8, UpdateKept
<1>. QED BY <1>4, <1>9, SameKept

LEMMA CoolifyStays ==
    ASSUME NEW db, Whole(db), NEW form, NEW in, NEW n, NEW answer,
           answer \in CreateCoolify(db, in) \/ answer \in TestCoolify(db, n) \/ answer \in InstallWorkerOn(db, n, in)
    PROVE  RowsKept(form, in, db.instances, answer.d.instances, "coolify.update", "coolify.delete")
<1>. DEFINE after(row) == [db EXCEPT !.instances = Added(@, db.next, Labelled(row)), !.next = @ + 1]
<1>1. answer.d = db \/ \E row : answer.d = after(row)
  <2>1. CASE answer \in CreateCoolify(db, in)
    <3>1. answer \in Refused(db) \/ \E row : answer \in Tried(after(row), At("coolify"))
      BY <2>1 DEF CreateCoolify, IfFit
    <3>. HIDE DEF after
    <3>. QED BY <3>1, TriedIs, RefusedIs
  <2>2. CASE answer \in TestCoolify(db, n)
    <3>1. answer \in Tried(db, At("coolify")) \/ answer = Answer(db, At("coolify"), "err")
      BY <2>2 DEF TestCoolify
    <3>2. Answer(db, At("coolify"), "err").d = db
      BY DEF Answer
    <3>. QED BY <3>1, <3>2, TriedIs
  <2>3. CASE answer \in InstallWorkerOn(db, n, in)
    <3>1. answer \in Refused(db) \/ answer \in Tried(db, [At("coolify") EXCEPT !.inspect = n])
      BY <2>3 DEF InstallWorkerOn, IfFound, IfFit
    <3>. QED BY <3>1, TriedIs, RefusedIs
  <2>. QED BY <2>1, <2>2, <2>3
<1>2. ASSUME NEW row PROVE RowsKept(form, in, db.instances, after(row).instances, "coolify.update", "coolify.delete")
  <2>1. after(row).instances = Added(db.instances, db.next, Labelled(row))
    BY DEF Whole
  <2>. HIDE DEF after
  <2>2. db.next \notin DOMAIN db.instances
    BY DEF Whole, WholeInstances, Keys
  <2>. QED BY <2>1, <2>2, AddedPut, PutKept
<1>. HIDE DEF after
<1>. QED BY <1>1, <1>2, SameKept

LEMMA DeleteCoolifyKeeps ==
    ASSUME NEW db, Whole(db), NEW form, form.to = "coolify.delete", NEW in, NEW answer \in DeleteCoolify(db, form.id)
    PROVE  RowsKept(form, in, db.instances, answer.d.instances, "coolify.update", "coolify.delete")
<1>1. answer.d = db \/ answer.d = DeletedInstance(db, form.id)
  BY AnswerIs DEF DeleteCoolify, IfFound, Refused
<1>2. DeletedInstance(db, form.id).instances = Without(db.instances, {form.id})
  BY DEF DeletedInstance, Whole
<1>3. Less(db.instances, Without(db.instances, {form.id}), {form.id})
  BY WithoutLess
<1>4. CASE answer.d = DeletedInstance(db, form.id)
  <2>1. Less(db.instances, answer.d.instances, {form.id})
    BY <1>2, <1>3, <1>4
  <2>. QED BY <2>1, LessKept
<1>. QED BY <1>1, <1>4, SameKept

-----------------------------------------------------------------------------
(* The jobs.                                                               *)

JobsLeft(form, old, new) ==
    \A j \in Elements(old) : j \in Elements(new) \/ (form.to = "jobs.cancel" /\ form.id = j.id)

LEMMA RerunLeaves ==
    ASSUME NEW db, Whole(db), NEW form, NEW n, NEW answer \in RerunJob(db, n)
    PROVE  JobsLeft(form, db.jobs, answer.d.jobs)
<1>. DEFINE again(j, b) == [j EXCEPT !.id = db.next, !.status = "queued", !.shareable = db.bindings[b].shareable_logs]
            after(j, b) == [db EXCEPT !.jobs = <<again(j, b)>> \o @, !.next = @ + 1]
<1>1. \/ answer \in Refused(db) \/ answer = Answer(db, At("jobs"), "err")
      \/ \E j \in Job(db, n) : \E b \in EnabledBinding(db, j) : answer = Answer(after(j, b), At("jobs"), "ok")
  BY DEF RerunJob, IfFound
<1>2. answer.d.jobs = db.jobs \/ \E row : answer.d.jobs = <<row>> \o db.jobs
  <2>1. \A j, b : after(j, b).jobs = <<again(j, b)>> \o db.jobs
    BY DEF Whole
  <2>. HIDE DEF after, again
  <2>2. \A db2 : Answer(db2, At("jobs"), "err").d = db2 /\ Answer(db2, At("jobs"), "ok").d = db2
    BY DEF Answer
  <2>3. answer.d = db \/ \E j, b : answer.d = after(j, b)
    BY <1>1, <2>2, RefusedIs
  <2>. QED BY <2>1, <2>3
<1>3. CASE answer.d.jobs = db.jobs
  BY <1>3 DEF JobsLeft
<1>4. ASSUME NEW row, answer.d.jobs = <<row>> \o db.jobs PROVE JobsLeft(form, db.jobs, answer.d.jobs)
  <2>. DEFINE S == JobRows \cup {row}
              all == <<row>> \o db.jobs
  <2>1. db.jobs \in Seq(S) /\ row \in S
    <3>1. db.jobs \in Seq(JobRows)
      BY JobRow
    <3>. QED BY <3>1
  <2>2. Len(db.jobs) \in Nat /\ DOMAIN db.jobs = 1..Len(db.jobs)
    BY JobRow
  <2>. HIDE DEF S
  <2>3. DOMAIN all = 1..(Len(db.jobs) + 1) /\ \A i \in DOMAIN all : i # 1 => all[i] = db.jobs[i - 1]
    BY <2>1, Prepended
  <2>. HIDE DEF all
  <2>4. ASSUME NEW i \in DOMAIN db.jobs PROVE \E k \in DOMAIN all : all[k] = db.jobs[i]
    <3>1. i + 1 \in DOMAIN all /\ i + 1 # 1 /\ (i + 1) - 1 = i
      BY <2>2, <2>3
    <3>. QED BY <2>3, <3>1
  <2>5. answer.d.jobs = all
    BY <1>4 DEF all
  <2>. QED BY <2>4, <2>5 DEF JobsLeft, Elements
<1>. QED BY <1>2, <1>3, <1>4

LEMMA CancelLeaves ==
    ASSUME NEW db, Whole(db), NEW form, form.to = "jobs.cancel", NEW answer \in CancelJob(db, form.id)
    PROVE  JobsLeft(form, db.jobs, answer.d.jobs)
<1>1. answer.d = db \/ answer.d = Cancelled(db, form.id)
  BY AnswerIs DEF CancelJob, IfFound, Refused
<1>2. CASE answer.d = Cancelled(db, form.id)
  <2>1. answer.d.jobs = [i \in DOMAIN db.jobs |-> IF db.jobs[i].id = form.id /\ db.jobs[i].status = "queued"
                                                  THEN [db.jobs[i] EXCEPT !.status = "cancelled"] ELSE db.jobs[i]]
    BY <1>2 DEF Cancelled, Whole
  <2>. QED BY <2>1 DEF JobsLeft, Elements
<1>3. CASE answer.d = db
  BY <1>3 DEF JobsLeft
<1>. QED BY <1>1, <1>2, <1>3

-----------------------------------------------------------------------------
(* The setup.                                                              *)

LEMMA SetupSends ==
    ASSUME NEW in \in Fillings(SetupFields)
    PROVE  in["public_base_url"] # SetupFields["public_base_url"].shown /\ "public_base_url" \in DOMAIN SetupFields
<1>. DEFINE fields == SetupFields
<1>1. /\ DOMAIN fields = {"setup_token", "username", "password", "public_base_url"}
      /\ fields["setup_token"] = Required(Text("")) /\ fields["username"] = Required(Text("admin"))
      /\ fields["password"] = Secret(TRUE) /\ fields["public_base_url"] = Required(Text(""))
  BY DEF SetupFields, SetupToken, SetupName, SetupAddress
<1>2. in \in Fillings(fields)
  OBVIOUS
<1>. HIDE DEF fields
<1>3. \A f \in DOMAIN fields : Lets(fields[f])
  BY <1>1, RequiredLets, SecretLets
<1>4. "public_base_url" \in DOMAIN fields
  BY <1>1
<1>5. in["public_base_url"] \in fields["public_base_url"].may
  BY <1>2, <1>3, <1>4, SentFits
<1>6. fields["public_base_url"].shown = {""}
  BY <1>1, ShownIs
<1>7. {""} \notin fields["public_base_url"].may
  BY <1>1 DEF Required, Text, One, Each
<1>. QED BY <1>4, <1>5, <1>6, <1>7 DEF fields

LEMMA SetupKeeps ==
    ASSUME NEW db, Whole(db), NEW form, form.fields = SetupFields, NEW in \in Fillings(form.fields), NEW user,
           NEW answer \in HandleSetup(db, in, user)
    PROVE  /\ \A c \in DOMAIN db.settings : answer.d.settings[c] # db.settings[c] => Asked(form, in, c)
           /\ answer.d.apps = db.apps /\ answer.d.instances = db.instances
           /\ answer.d.bindings = db.bindings /\ answer.d.jobs = db.jobs
<1>. DEFINE after(text) == [db EXCEPT !.users = TRUE, !.settings.public_base_url = text]
<1>1. \/ \E to, notice : answer = [Answer(db, to, notice) EXCEPT !.user = user]
      \/ \E text : answer = Answer(after(text), At("home"), "ok")
  BY DEF HandleSetup
<1>2. answer.d = db \/ \E text : answer.d = after(text)
  <2>. HIDE DEF after
  <2>1. \A to, notice : [Answer(db, to, notice) EXCEPT !.user = user].d = db
    BY AnswerAs
  <2>2. \A text : Answer(after(text), At("home"), "ok").d = after(text)
    BY DEF Answer
  <2>. QED BY <1>1, <2>1, <2>2
<1>3. ASSUME NEW text
      PROVE  /\ \A c \in DOMAIN db.settings \ {"public_base_url"} : after(text).settings[c] = db.settings[c]
             /\ after(text).apps = db.apps /\ after(text).instances = db.instances
             /\ after(text).bindings = db.bindings /\ after(text).jobs = db.jobs
  BY DEF Whole
<1>. HIDE DEF after
<1>4. Asked(form, in, "public_base_url")
  BY SetupSends DEF Asked
<1>. QED BY <1>2, <1>3, <1>4

-----------------------------------------------------------------------------
(* The bindings.  First the editor's form.                                 *)

LEMMA PostedColumnsAre ==
    ASSUME NEW in
    PROVE  LET row == PostedBinding(in)
           IN /\ row["branches"] = Str(in, "branches") /\ row["paths"] = Str(in, "paths")
              /\ row["check_name"] = Str(in, "check_name") /\ row["install_cmd"] = Str(in, "install_cmd")
              /\ row["test_cmd"] = Str(in, "test_cmd") /\ row["build_cmd"] = Str(in, "build_cmd")
              /\ row["on_empty_pipeline"] = Str(in, "on_empty_pipeline")
              /\ row["timeout_seconds"] = IntOf(in, "timeout_seconds", 0)
BY DEF PostedBinding

LEMMA PostedBoxesAre ==
    ASSUME NEW in
    PROVE  /\ PostedBinding(in)["enabled"] = Bool(in, "enabled")
           /\ PostedBinding(in)["shareable_logs"] = Bool(in, "shareable_logs")
           /\ DOMAIN PostedBinding(in) = DOMAIN NoBinding
BY DEF PostedBinding, NoBinding

\* A box that was left as it was drawn.
LEMMA BoxStays ==
    ASSUME NEW in, NEW f \in DOMAIN in, NEW on \in BOOLEAN, in[f] = IF on THEN {"1"} ELSE {}
    PROVE  Bool(in, f) = on
<1>1. CASE on = TRUE
  <2>1. in[f] = {"1"}
    BY <1>1
  <2>2. Str(in, f) = "1"
    BY <2>1, StrOne
  <2>. QED BY <1>1, <2>2 DEF Bool
<1>2. CASE on = FALSE
  <2>1. in[f] = {}
    BY <1>2
  <2>2. Str(in, f) = ""
    BY <2>1, StrNone
  <2>. QED BY <1>2, <2>2 DEF Bool
<1>. QED BY <1>1, <1>2

AsDrawn(db, old, in, c) ==
    /\ in[c] = BindingFields(TRUE, old, db.apps, db.instances)[c].shown
    /\ c = "on_empty_pipeline" => old[c] # ""

\* A column of a binding whose field was left as it was drawn.
LEMMA BindingStays ==
    ASSUME NEW db, Whole(db), NEW old, BindingRow(db, old), NEW in, DOMAIN in = DOMAIN NoBinding,
           NEW c \in DOMAIN NoBinding, AsDrawn(db, old, in, c)
    PROVE  PostedBinding(in)[c] = old[c]
<1>. DEFINE row == PostedBinding(in)
            fields == BindingFields(TRUE, old, db.apps, db.instances)
<1>1. /\ fields["repo"] = BindingRepo(TRUE, old) /\ fields["on_empty_pipeline"] = BindingEmpty(old)
      /\ fields["github_app_id"] = BindingApp(TRUE, old, db.apps)
      /\ fields["coolify_instance_id"] = BindingCoolify(TRUE, old, db.instances)
      /\ fields["branches"] = BindingBranches(old) /\ fields["paths"] = BindingPaths(old)
      /\ fields["check_name"] = BindingCheck(old) /\ fields["pipeline_file"] = BindingFile(old)
      /\ fields["timeout_seconds"] = BindingTimeout(old)
  BY DEF BindingFields
<1>2. /\ fields["install_cmd"] = BindingInstall(old) /\ fields["test_cmd"] = BindingTest(old)
      /\ fields["build_cmd"] = BindingBuild(old) /\ fields["enabled"] = BindingEnabled(TRUE, old)
      /\ fields["shareable_logs"] = BindingShareable(TRUE, old)
  BY DEF BindingFields
<1>3. /\ row["github_app_id"] = IntOf(in, "github_app_id", 0)
      /\ row["coolify_instance_id"] = IntOf(in, "coolify_instance_id", 0)
      /\ row["repo"] = Str(in, "repo") /\ row["pipeline_file"] = Str(in, "pipeline_file")
  BY PostedBindingIs
<1>4. /\ row["branches"] = Str(in, "branches") /\ row["paths"] = Str(in, "paths")
      /\ row["check_name"] = Str(in, "check_name") /\ row["install_cmd"] = Str(in, "install_cmd")
      /\ row["test_cmd"] = Str(in, "test_cmd") /\ row["build_cmd"] = Str(in, "build_cmd")
      /\ row["on_empty_pipeline"] = Str(in, "on_empty_pipeline")
      /\ row["timeout_seconds"] = IntOf(in, "timeout_seconds", 0)
  BY PostedColumnsAre
<1>5. row["enabled"] = Bool(in, "enabled")
  BY PostedBoxesAre
<1>6. row["shareable_logs"] = Bool(in, "shareable_logs")
  BY PostedBoxesAre
<1>. HIDE DEF fields
<1>. SUFFICES row[c] = old[c]
  OBVIOUS
<1>. HIDE DEF row
<1>7. c \in DOMAIN in /\ in[c] = fields[c].shown
  BY DEF fields, AsDrawn
<1>8. /\ old.github_app_id \in DOMAIN db.apps /\ old.coolify_instance_id \in DOMAIN db.instances \cup {0}
      /\ old.timeout_seconds \in Numbers
  BY DEF BindingRow, BindingFit
<1>9. old.enabled \in BOOLEAN
  BY DEF BindingRow
<1>10. old.shareable_logs \in BOOLEAN
  BY DEF BindingRow
<1>11. old.github_app_id \in Numbers /\ old.github_app_id # 0 /\ old.coolify_instance_id \in Numbers
  BY <1>8, KeysAreFinite, ZeroIsANumber
<1>12. CASE c = "github_app_id"
  <2>1. fields["github_app_id"].shown = {Numeral(old.github_app_id)}
    BY <1>1, <1>11 DEF BindingApp, Select, One, Id
  <2>2. in["github_app_id"] = {Numeral(old.github_app_id)} /\ "github_app_id" \in DOMAIN in
    BY <1>7, <1>12, <2>1
  <2>3. Str(in, "github_app_id") = Numeral(old.github_app_id)
    BY <2>2, StrOne
  <2>4. IntOf(in, "github_app_id", 0) = old.github_app_id
    BY <1>11, <2>3, IntOfNumeral
  <2>. QED BY <1>3, <1>12, <2>4
<1>13. CASE c = "coolify_instance_id"
  <2>1. fields["coolify_instance_id"].shown = {Numeral(old.coolify_instance_id)}
    BY <1>1 DEF BindingCoolify, Select, One, Id
  <2>2. in["coolify_instance_id"] = {Numeral(old.coolify_instance_id)} /\ "coolify_instance_id" \in DOMAIN in
    BY <1>7, <1>13, <2>1
  <2>3. Str(in, "coolify_instance_id") = Numeral(old.coolify_instance_id)
    BY <2>2, StrOne
  <2>4. IntOf(in, "coolify_instance_id", 0) = old.coolify_instance_id
    BY <1>11, <2>3, IntOfNumeral
  <2>. QED BY <1>3, <1>13, <2>4
<1>14. CASE c = "timeout_seconds"
  <2>1. fields["timeout_seconds"].shown = {IdOrBlank(old.timeout_seconds)}
    <3>1. fields["timeout_seconds"] = Number(IdOrBlank(old.timeout_seconds), 0, Most)
      BY <1>1 DEF BindingTimeout
    <3>2. \A value : Number(value, 0, Most).shown = {value}
      BY DEF Number, One
    <3>. QED BY <3>1, <3>2
  <2>2. in["timeout_seconds"] = {IdOrBlank(old.timeout_seconds)} /\ "timeout_seconds" \in DOMAIN in
    BY <1>7, <1>14, <2>1
  <2>3. Str(in, "timeout_seconds") = IdOrBlank(old.timeout_seconds)
    BY <2>2, StrOne
  <2>4. CASE old.timeout_seconds = 0
    <3>1. Str(in, "timeout_seconds") = ""
      BY <2>3, <2>4 DEF IdOrBlank
    <3>2. IntOf(in, "timeout_seconds", 0) = 0
      BY <3>1, IntOfBlank
    <3>. QED BY <1>4, <1>14, <2>4, <3>2
  <2>5. CASE old.timeout_seconds # 0
    <3>1. Str(in, "timeout_seconds") = Numeral(old.timeout_seconds)
      BY <2>3, <2>5 DEF IdOrBlank, Id
    <3>2. IntOf(in, "timeout_seconds", 0) = old.timeout_seconds
      BY <1>8, <3>1, IntOfNumeral
    <3>. QED BY <1>4, <1>14, <3>2
  <2>. QED BY <2>4, <2>5
<1>15. CASE c = "on_empty_pipeline"
  <2>1. old.on_empty_pipeline \in {"", "skip", "fail"} /\ old["on_empty_pipeline"] # ""
    BY <1>15 DEF BindingRow, AsDrawn
  <2>2. fields["on_empty_pipeline"].shown = {IF old.on_empty_pipeline = "fail" THEN "fail" ELSE "skip"}
    BY <1>1 DEF BindingEmpty, Select, One
  <2>3. fields["on_empty_pipeline"].shown = {old.on_empty_pipeline}
    BY <2>1, <2>2
  <2>4. in["on_empty_pipeline"] = {old.on_empty_pipeline} /\ "on_empty_pipeline" \in DOMAIN in
    BY <1>7, <1>15, <2>3
  <2>5. Str(in, "on_empty_pipeline") = old.on_empty_pipeline
    BY <2>4, StrOne
  <2>. QED BY <1>4, <1>15, <2>5
<1>16. CASE c = "enabled"
  <2>1. fields["enabled"].shown = IF old.enabled THEN {"1"} ELSE {}
    BY <1>2 DEF BindingEnabled, CheckBox, One, None
  <2>2. in["enabled"] = (IF old.enabled THEN {"1"} ELSE {}) /\ "enabled" \in DOMAIN in
    BY <1>7, <1>16, <2>1
  <2>3. Bool(in, "enabled") = old.enabled
    BY <1>9, <2>2, BoxStays
  <2>. QED BY <1>5, <1>16, <2>3
<1>17. CASE c = "shareable_logs"
  <2>1. fields["shareable_logs"].shown = IF old.shareable_logs THEN {"1"} ELSE {}
    BY <1>2 DEF BindingShareable, CheckBox, One, None
  <2>2. in["shareable_logs"] = (IF old.shareable_logs THEN {"1"} ELSE {}) /\ "shareable_logs" \in DOMAIN in
    BY <1>7, <1>17, <2>1
  <2>3. Bool(in, "shareable_logs") = old.shareable_logs
    BY <1>10, <2>2, BoxStays
  <2>. QED BY <1>6, <1>17, <2>3
<1>18. CASE c = "repo"
  <2>1. fields["repo"].shown = {old.repo}
    <3>1. fields["repo"] = Fixed(old.repo)
      BY <1>1 DEF BindingRepo
    <3>2. Fixed(old.repo).shown = {old.repo}
      BY ShownIs
    <3>. QED BY <3>1, <3>2
  <2>2. in["repo"] = {old.repo} /\ "repo" \in DOMAIN in
    BY <1>7, <1>18, <2>1
  <2>3. Str(in, "repo") = old.repo
    BY <2>2, StrOne
  <2>. QED BY <1>3, <1>18, <2>3
<1>19. CASE c = "branches"
  <2>1. fields["branches"].shown = {old.branches}
    <3>1. fields["branches"] = Text(old.branches)
      BY <1>1 DEF BindingBranches
    <3>2. Text(old.branches).shown = {old.branches}
      BY ShownIs
    <3>. QED BY <3>1, <3>2
  <2>2. in["branches"] = {old.branches} /\ "branches" \in DOMAIN in
    BY <1>7, <1>19, <2>1
  <2>3. Str(in, "branches") = old.branches
    BY <2>2, StrOne
  <2>. QED BY <1>4, <1>19, <2>3
<1>20. CASE c = "paths"
  <2>1. fields["paths"].shown = {old.paths}
    <3>1. fields["paths"] = Text(old.paths)
      BY <1>1 DEF BindingPaths
    <3>2. Text(old.paths).shown = {old.paths}
      BY ShownIs
    <3>. QED BY <3>1, <3>2
  <2>2. in["paths"] = {old.paths} /\ "paths" \in DOMAIN in
    BY <1>7, <1>20, <2>1
  <2>3. Str(in, "paths") = old.paths
    BY <2>2, StrOne
  <2>. QED BY <1>4, <1>20, <2>3
<1>21. CASE c = "check_name"
  <2>1. fields["check_name"].shown = {old.check_name}
    <3>1. fields["check_name"] = Text(old.check_name)
      BY <1>1 DEF BindingCheck
    <3>2. Text(old.check_name).shown = {old.check_name}
      BY ShownIs
    <3>. QED BY <3>1, <3>2
  <2>2. in["check_name"] = {old.check_name} /\ "check_name" \in DOMAIN in
    BY <1>7, <1>21, <2>1
  <2>3. Str(in, "check_name") = old.check_name
    BY <2>2, StrOne
  <2>. QED BY <1>4, <1>21, <2>3
<1>22. CASE c = "pipeline_file"
  <2>1. fields["pipeline_file"].shown = {old.pipeline_file}
    <3>1. fields["pipeline_file"] = Text(old.pipeline_file)
      BY <1>1 DEF BindingFile
    <3>2. Text(old.pipeline_file).shown = {old.pipeline_file}
      BY ShownIs
    <3>. QED BY <3>1, <3>2
  <2>2. in["pipeline_file"] = {old.pipeline_file} /\ "pipeline_file" \in DOMAIN in
    BY <1>7, <1>22, <2>1
  <2>3. Str(in, "pipeline_file") = old.pipeline_file
    BY <2>2, StrOne
  <2>. QED BY <1>3, <1>22, <2>3
<1>23. CASE c = "install_cmd"
  <2>1. fields["install_cmd"].shown = {old.install_cmd}
    <3>1. fields["install_cmd"] = Text(old.install_cmd)
      BY <1>2 DEF BindingInstall
    <3>2. Text(old.install_cmd).shown = {old.install_cmd}
      BY ShownIs
    <3>. QED BY <3>1, <3>2
  <2>2. in["install_cmd"] = {old.install_cmd} /\ "install_cmd" \in DOMAIN in
    BY <1>7, <1>23, <2>1
  <2>3. Str(in, "install_cmd") = old.install_cmd
    BY <2>2, StrOne
  <2>. QED BY <1>4, <1>23, <2>3
<1>24. CASE c = "test_cmd"
  <2>1. fields["test_cmd"].shown = {old.test_cmd}
    <3>1. fields["test_cmd"] = Text(old.test_cmd)
      BY <1>2 DEF BindingTest
    <3>2. Text(old.test_cmd).shown = {old.test_cmd}
      BY ShownIs
    <3>. QED BY <3>1, <3>2
  <2>2. in["test_cmd"] = {old.test_cmd} /\ "test_cmd" \in DOMAIN in
    BY <1>7, <1>24, <2>1
  <2>3. Str(in, "test_cmd") = old.test_cmd
    BY <2>2, StrOne
  <2>. QED BY <1>4, <1>24, <2>3
<1>25. CASE c = "build_cmd"
  <2>1. fields["build_cmd"].shown = {old.build_cmd}
    <3>1. fields["build_cmd"] = Text(old.build_cmd)
      BY <1>2 DEF BindingBuild
    <3>2. Text(old.build_cmd).shown = {old.build_cmd}
      BY ShownIs
    <3>. QED BY <3>1, <3>2
  <2>2. in["build_cmd"] = {old.build_cmd} /\ "build_cmd" \in DOMAIN in
    BY <1>7, <1>25, <2>1
  <2>3. Str(in, "build_cmd") = old.build_cmd
    BY <2>2, StrOne
  <2>. QED BY <1>4, <1>25, <2>3
<1>. QED
  BY <1>12, <1>13, <1>14, <1>15, <1>16, <1>17, <1>18, <1>19, <1>20, <1>21, <1>22, <1>23, <1>24, <1>25 DEF NoBinding

\* BindingsKept, of the rows after an answer.
BindingsLeft(form, in, new) ==
    \A n \in DOMAIN d.bindings :
        IF n \notin DOMAIN new THEN BindingMayGo(form, in, n)
        ELSE \A c \in DOMAIN d.bindings[n] :
                new[n][c] # d.bindings[n][c] => BindingMayChange(form, in, n, c)

LEMMA BindingsSame == ASSUME NEW form, NEW in PROVE BindingsLeft(form, in, d.bindings)
BY DEF BindingsLeft

LEMMA BindingPutLeft ==
    ASSUME NEW form, NEW in, NEW new, NEW n, NEW row, Put(d.bindings, new, n, row),
           \A c : n \in DOMAIN d.bindings /\ c \in DOMAIN d.bindings[n] /\ row[c] # d.bindings[n][c] =>
                     BindingMayChange(form, in, n, c)
    PROVE  BindingsLeft(form, in, new)
<1>1. DOMAIN d.bindings \subseteq DOMAIN new
  BY DEF Put
<1>2. ASSUME NEW k \in DOMAIN d.bindings, NEW c \in DOMAIN d.bindings[k], new[k][c] # d.bindings[k][c]
      PROVE  BindingMayChange(form, in, k, c)
  <2>1. k = n /\ new[k] = row
    BY <1>2 DEF Put
  <2>. QED BY <1>2, <2>1
<1>. QED BY <1>1, <1>2 DEF BindingsLeft

LEMMA BindingsLess ==
    ASSUME NEW form, NEW in, NEW new, NEW ns, Less(d.bindings, new, ns),
           \A n \in ns \cap DOMAIN d.bindings : BindingMayGo(form, in, n)
    PROVE  BindingsLeft(form, in, new)
BY DEF Less, BindingsLeft

\* The editor's form writes its own row as it was left, or the row of the App and the repository it names.
LEMMA UpsertLeaves ==
    ASSUME Whole(d), Whole(tab.of), NEW form, form.to = "bindings.upsert",
           form.id \in DOMAIN tab.of.bindings \cup {0},
           form.fields = FieldsOf(tab.of, tab.at, tab.listed, "bindings.upsert", form.id),
           NEW in \in Fillings(form.fields), NEW answer \in UpsertBinding(d, in)
    PROVE  BindingsLeft(form, in, answer.d.bindings)
<1>. DEFINE row == PostedBinding(in)
            db2 == Upserted(d, row)
<1>1. answer.d = d \/ answer.d = db2
  <2>1. answer \in Refused(d) \/ answer = Answer(db2, At("repos"), "ok")
    BY DEF UpsertBinding, IfFit
  <2>. QED BY <2>1, RefusedIs, AnswerIs
<1>2. PICK n : Put(d.bindings, db2.bindings, n, row)
  BY UpsertedIs
<1>. HIDE DEF db2
<1>3. DOMAIN in = DOMAIN form.fields
  BY FillingDomain
<1>4. ASSUME n \in DOMAIN d.bindings, NEW c \in DOMAIN d.bindings[n], row[c] # d.bindings[n][c]
      PROVE  EditorMaySet(form, in, n, c)
  <2>0. SUFFICES ASSUME form.id = n, ~Asked(form, in, c), tab.of.bindings[n][c] = d.bindings[n][c],
                       ~(c = "on_empty_pipeline" /\ d.bindings[n][c] = "")
                PROVE  FALSE
    BY DEF EditorMaySet
  <2>. DEFINE old == tab.of.bindings[n]
              fields == BindingFields(TRUE, old, tab.of.apps, tab.of.instances)
  <2>1. n # 0
    BY <1>4, KeysAreFinite
  <2>2. n \in DOMAIN tab.of.bindings
    BY <2>0, <2>1
  <2>3. BindingRow(tab.of, old)
    BY <2>2, BindingRows
  <2>4. form.fields = fields
    BY <2>0, <2>1 DEF FieldsOf
  <2>5. DOMAIN fields = DOMAIN NoBinding
    BY DEF BindingFields, NoBinding
  <2>6. c \in DOMAIN NoBinding
    BY <1>4, BindingRows DEF BindingRow
  <2>7. in[c] = fields[c].shown
    <3>. HIDE DEF fields
    <3>. QED BY <2>0, <2>4, <2>5, <2>6 DEF Asked
  <2>8. AsDrawn(tab.of, old, in, c)
    <3>. HIDE DEF fields
    <3>1. c = "on_empty_pipeline" => old[c] # ""
      BY <2>0
    <3>. QED BY <2>7, <3>1 DEF AsDrawn, fields
  <2>9. DOMAIN in = DOMAIN NoBinding
    BY <1>3, <2>4, <2>5
  <2>10. row[c] = old[c]
    <3>. HIDE DEF old
    <3>. QED BY <2>3, <2>6, <2>8, <2>9, BindingStays
  <2>. QED BY <1>4, <2>0, <2>10
<1>. HIDE DEF row
<1>5. BindingsLeft(form, in, db2.bindings)
  BY <1>2, <1>4, BindingPutLeft DEF BindingMayChange
<1>. QED BY <1>1, <1>5, BindingsSame

LEMMA ToggleLeaves ==
    ASSUME Whole(d), NEW form, form.to = "bindings.toggle", NEW in, NEW answer \in ToggleBinding(d, form.id)
    PROVE  BindingsLeft(form, in, answer.d.bindings)
<1>. DEFINE m == form.id
            row == [d.bindings[m] EXCEPT !.enabled = ~@]
            db2 == Upserted(d, row)
<1>1. answer.d = d \/ (m \in DOMAIN d.bindings /\ answer.d = db2)
  <2>1. answer \in Refused(d) \/ (m \in DOMAIN d.bindings /\ answer = Answer(db2, At("repos"), "ok"))
    BY DEF ToggleBinding, IfFound
  <2>. HIDE DEF db2
  <2>2. Answer(db2, At("repos"), "ok").d = db2
    BY DEF Answer
  <2>. QED BY <2>1, <2>2, RefusedIs
<1>2. ASSUME m \in DOMAIN d.bindings PROVE BindingsLeft(form, in, db2.bindings)
  <2>1. BindingRow(d, d.bindings[m])
    BY <1>2, BindingRows
  <2>2. row.github_app_id = d.bindings[m].github_app_id /\ row.repo = d.bindings[m].repo
    BY <2>1, TurnedRow
  <2>3. m \in SameKey(d, row)
    BY <1>2, <2>2 DEF SameKey
  <2>4. PICK n : Put(d.bindings, db2.bindings, n, row) /\ \A k \in SameKey(d, row) : k = n
    BY UpsertedIs
  <2>5. n = m
    BY <2>3, <2>4
  <2>6. ASSUME NEW c \in DOMAIN d.bindings[m], row[c] # d.bindings[m][c] PROVE BindingMayChange(form, in, m, c)
    <3>1. c = "enabled"
      BY <2>6
    <3>. QED BY <3>1 DEF BindingMayChange
  <2>. HIDE DEF row, db2
  <2>. QED BY <2>4, <2>5, <2>6, BindingPutLeft
<1>. HIDE DEF db2
<1>. QED BY <1>1, <1>2, BindingsSame

LEMMA DeleteBindingLeaves ==
    ASSUME Whole(d), NEW form, form.to = "bindings.delete", NEW in, NEW answer \in DeleteBinding(d, form.id)
    PROVE  BindingsLeft(form, in, answer.d.bindings)
<1>. DEFINE db2 == [d EXCEPT !.bindings = Without(@, {form.id})]
<1>1. answer.d = d \/ answer.d = db2
  <2>1. answer \in Refused(d) \/ answer = Answer(db2, At("repos"), "ok")
    BY DEF DeleteBinding, IfFound
  <2>. HIDE DEF db2
  <2>2. Answer(db2, At("repos"), "ok").d = db2
    BY DEF Answer
  <2>. QED BY <2>1, <2>2, RefusedIs
<1>2. db2.bindings = Without(d.bindings, {form.id})
  BY DEF Whole
<1>. HIDE DEF db2
<1>3. Less(d.bindings, db2.bindings, {form.id})
  BY <1>2, WithoutLess
<1>4. BindingMayGo(form, in, form.id)
  BY DEF BindingMayGo
<1>5. BindingsLeft(form, in, db2.bindings)
  BY <1>3, <1>4, BindingsLess
<1>. QED BY <1>1, <1>5, BindingsSame

LEMMA DeleteAppLeaves ==
    ASSUME Whole(d), NEW form, form.to = "apps.delete", NEW in, NEW answer \in DeleteApp(d, form.id)
    PROVE  BindingsLeft(form, in, answer.d.bindings)
<1>. DEFINE gone == {b \in DOMAIN d.bindings : d.bindings[b].github_app_id = form.id}
<1>1. answer.d = d \/ answer.d = DeletedApp(d, form.id)
  BY AnswerIs DEF DeleteApp, IfFound, Refused
<1>2. DeletedApp(d, form.id).bindings = Without(d.bindings, gone)
  BY DEF DeletedApp, Whole
<1>3. \A n \in gone : BindingMayGo(form, in, n)
  BY DEF BindingMayGo
<1>. HIDE DEF gone
<1>4. Less(d.bindings, DeletedApp(d, form.id).bindings, gone)
  BY <1>2, WithoutLess
<1>5. BindingsLeft(form, in, DeletedApp(d, form.id).bindings)
  BY <1>3, <1>4, BindingsLess
<1>. QED BY <1>1, <1>5, BindingsSame

LEMMA DeleteCoolifyLeaves ==
    ASSUME Whole(d), NEW form, form.to = "coolify.delete", NEW in, NEW answer \in DeleteCoolify(d, form.id)
    PROVE  BindingsLeft(form, in, answer.d.bindings)
<1>. DEFINE m == form.id
            db2 == DeletedInstance(d, m)
<1>1. answer.d = d \/ answer.d = db2
  BY AnswerIs DEF DeleteCoolify, IfFound, Refused
<1>2. DOMAIN db2.bindings = DOMAIN d.bindings /\ \A k \in DOMAIN d.bindings : db2.bindings[k] = Released(d.bindings[k], m)
  BY DEF Whole, DeletedInstance, Released
<1>. HIDE DEF db2
<1>3. ASSUME NEW n \in DOMAIN d.bindings, NEW c \in DOMAIN d.bindings[n], db2.bindings[n][c] # d.bindings[n][c]
      PROVE  BindingMayChange(form, in, n, c)
  <2>1. DOMAIN d.bindings[n] = DOMAIN NoBinding
    BY BindingRows DEF BindingRow
  <2>2. Released(d.bindings[n], m)[c] # d.bindings[n][c]
    BY <1>2, <1>3
  <2>3. c = "coolify_instance_id"
    BY <2>1, <2>2, ReleasedIs
  <2>4. d.bindings[n].coolify_instance_id = m
    BY <2>2 DEF Released
  <2>. QED BY <2>3, <2>4 DEF BindingMayChange
<1>4. BindingsLeft(form, in, db2.bindings)
  BY <1>2, <1>3 DEF BindingsLeft
<1>. QED BY <1>1, <1>4, BindingsSame

\* The boxes of the picker: what it does not show it removes only when it came since.
LEMMA BulkLeaves ==
    ASSUME Whole(d), Whole(tab.of), Since(tab.of, d), Address(tab.at), tab.at.app # 0, tab.listed \subseteq Repos,
           NEW form, form.to = "bindings.bulk", form.fields = BulkFields(tab.of, tab.at, tab.listed),
           NEW in \in Fillings(form.fields), NEW answer \in BulkBindings(d, in)
    PROVE  BindingsLeft(form, in, answer.d.bindings)
<1>. DEFINE app == IntOf(in, "github_app_id", 0)
            coolify == IntOf(in, "coolify_instance_id", 0)
            wanted == StrList(in, "repo")
<1>1. answer.d = d \/ \E after \in Bulk(d, app, coolify, wanted) : answer.d = after
  <2>1. answer \in Refused(d) \/ \E after \in Bulk(d, app, coolify, wanted) : answer = Answer(after, At("repos"), "ok")
    BY DEF BulkBindings, IfFit
  <2>. HIDE DEF app, coolify, wanted
  <2>2. \A after : Answer(after, At("repos"), "ok").d = after
    BY DEF Answer
  <2>. QED BY <2>1, <2>2, RefusedIs
<1>2. app = tab.at.app
  BY PickedKeys DEF Address
<1>3. wanted \subseteq Repos
  BY BulkReads
<1>4. DOMAIN in = {"github_app_id", "coolify_instance_id", "repo"}
  <2>1. DOMAIN in = DOMAIN form.fields
    BY FillingDomain
  <2>2. DOMAIN BulkFields(tab.of, tab.at, tab.listed) = {"github_app_id", "coolify_instance_id", "repo"}
    BY DEF BulkFields
  <2>. QED BY <2>1, <2>2
<1>5. wanted = in["repo"]
  BY <1>4 DEF StrList
<1>6. form.fields["repo"].shown = Picker(tab.of, tab.at, tab.listed) \cap BoundRepos(tab.of, tab.at.app)
  <2>1. form.fields["repo"] = PickerBoxes(Picker(tab.of, tab.at, tab.listed), BoundRepos(tab.of, tab.at.app))
    BY DEF BulkFields
  <2>. QED BY <2>1 DEF PickerBoxes, CheckBoxes
<1>7. ASSUME NEW n \in DOMAIN tab.of.bindings, tab.of.bindings[n].github_app_id = tab.at.app
      PROVE  tab.of.bindings[n].repo \in form.fields["repo"].shown
  <2>1. tab.of.bindings[n].repo \in BoundRepos(tab.of, tab.at.app)
    BY <1>7 DEF BoundRepos
  <2>2. BoundRepos(tab.of, tab.at.app) \subseteq Picker(tab.of, tab.at, tab.listed)
    BY DEF Picker
  <2>. QED BY <1>6, <2>1, <2>2
<1>. HIDE DEF coolify, wanted
<1>8. ASSUME NEW after \in Bulk(d, app, coolify, wanted) PROVE BindingsLeft(form, in, after.bindings)
  <2>1. PICK k \in Nat : Picked(d, app, coolify, wanted, after.bindings, d.next..(d.next + k - 1))
    <3>. HIDE DEF app
    <3>. QED BY <1>3, BulkIs
  <2>. DEFINE ids == d.next..(d.next + k - 1)
  <2>2. \A n \in DOMAIN d.bindings : n \notin ids
    BY DEF Whole, WholeBindings, Keys
  <2>. HIDE DEF ids
  <2>3. /\ DOMAIN after.bindings = (DOMAIN d.bindings \ Unchecked(d, app, wanted)) \cup ids
        /\ \A n \in DOMAIN d.bindings \ Unchecked(d, app, wanted) : after.bindings[n] = KeptRow(d, app, coolify, n)
    BY <2>1, <2>2 DEF Picked, ids
  <2>4. ASSUME NEW n \in DOMAIN d.bindings, n \notin DOMAIN after.bindings PROVE BindingMayGo(form, in, n)
    <3>1. n \in Unchecked(d, app, wanted)
      BY <2>3, <2>4
    <3>2. d.bindings[n].github_app_id = app /\ d.bindings[n].repo \notin in["repo"]
      BY <1>5, <3>1 DEF Unchecked, Had
    <3>3. ASSUME n \in DOMAIN tab.of.bindings PROVE d.bindings[n].repo \in form.fields["repo"].shown
      <4>1. /\ d.bindings[n].github_app_id = tab.of.bindings[n].github_app_id
            /\ d.bindings[n].repo = tab.of.bindings[n].repo
        BY <3>3 DEF Since
      <4>. QED BY <1>2, <1>7, <3>2, <3>3, <4>1
    <3>. QED BY <3>2, <3>3 DEF BindingMayGo
  <2>5. ASSUME NEW n \in DOMAIN d.bindings, n \in DOMAIN after.bindings,
               NEW c \in DOMAIN d.bindings[n], after.bindings[n][c] # d.bindings[n][c]
        PROVE  BindingMayChange(form, in, n, c)
    <3>1. n \in DOMAIN d.bindings \ Unchecked(d, app, wanted)
      BY <2>2, <2>3, <2>5
    <3>2. after.bindings[n] = KeptRow(d, app, coolify, n)
      BY <2>3, <3>1
    <3>3. n \in Had(d, app) /\ after.bindings[n] = Wanted(d.bindings[n], coolify)
      BY <2>5, <3>2 DEF KeptRow
    <3>4. d.bindings[n].repo \in in["repo"]
      BY <1>5, <3>1, <3>3 DEF Unchecked
    <3>5. DOMAIN d.bindings[n] = DOMAIN NoBinding
      BY BindingRows DEF BindingRow
    <3>7. \A f \in DOMAIN d.bindings[n] \ {"coolify_instance_id", "enabled"} :
             Wanted(d.bindings[n], coolify)[f] = d.bindings[n][f]
      BY DEF Wanted
    <3>6. c \in {"enabled", "coolify_instance_id"}
      BY <2>5, <3>3, <3>7
    <3>. QED BY <3>4, <3>6 DEF BindingMayChange
  <2>. QED BY <2>4, <2>5 DEF BindingsLeft
<1>. HIDE DEF app
<1>. QED BY <1>1, <1>8, BindingsSame

-----------------------------------------------------------------------------
(* All the tables, after the answer to a form.                             *)

\* SettingsKept, of the settings after an answer.
SettingsLeft(form, in, new) ==
    \A c \in DOMAIN d.settings : new[c] # d.settings[c] =>
        Asked(form, in, c) \/ (c \in DOMAIN form.fields /\ tab.of.settings[c] # d.settings[c])

AppsLeft(form, in, new) == RowsKept(form, in, d.apps, new, "apps.update", "apps.delete")
InstancesLeft(form, in, new) == RowsKept(form, in, d.instances, new, "coolify.update", "coolify.delete")

Left(form, in, db2) ==
    /\ SettingsLeft(form, in, db2.settings)
    /\ AppsLeft(form, in, db2.apps) /\ InstancesLeft(form, in, db2.instances)
    /\ BindingsLeft(form, in, db2.bindings) /\ JobsLeft(form, d.jobs, db2.jobs)

LEMMA TablesSame ==
    ASSUME NEW form, NEW in
    PROVE  /\ SettingsLeft(form, in, d.settings)
           /\ AppsLeft(form, in, d.apps) /\ InstancesLeft(form, in, d.instances)
           /\ BindingsLeft(form, in, d.bindings) /\ JobsLeft(form, d.jobs, d.jobs)
BY SameKept, BindingsSame DEF SettingsLeft, AppsLeft, InstancesLeft, JobsLeft

LEMMA SameLeft == ASSUME NEW form, NEW in PROVE Left(form, in, d)
BY TablesSame DEF Left

\* A handler leaves the tables it does not write.
LEMMA WritesLeave ==
    ASSUME NEW form, NEW in, NEW db2, NEW tables, Writes(d, db2, tables),
           "settings" \in tables => SettingsLeft(form, in, db2.settings),
           "apps" \in tables => AppsLeft(form, in, db2.apps),
           "instances" \in tables => InstancesLeft(form, in, db2.instances),
           "bindings" \in tables => BindingsLeft(form, in, db2.bindings),
           "jobs" \in tables => JobsLeft(form, d.jobs, db2.jobs)
    PROVE  Left(form, in, db2)
<1>1. /\ "settings" \notin tables => db2.settings = d.settings
      /\ "apps" \notin tables => db2.apps = d.apps
      /\ "instances" \notin tables => db2.instances = d.instances
      /\ "bindings" \notin tables => db2.bindings = d.bindings
      /\ "jobs" \notin tables => db2.jobs = d.jobs
  BY DEF Writes, Tables
<1>2. SettingsLeft(form, in, db2.settings)
  BY <1>1, TablesSame
<1>3. AppsLeft(form, in, db2.apps) /\ InstancesLeft(form, in, db2.instances)
  BY <1>1, TablesSame
<1>4. BindingsLeft(form, in, db2.bindings) /\ JobsLeft(form, d.jobs, db2.jobs)
  BY <1>1, TablesSame
<1>. QED BY <1>2, <1>3, <1>4 DEF Left

LEMMA SettingsFormLeaves ==
    ASSUME Whole(d), NEW form, tab.at.page \in {"settings", "runner", "logs"},
           form.fields = SettingsFieldsOf(tab.of, tab.at.page),
           NEW in \in Fillings(form.fields), NEW answer \in PatchSettings(d, in)
    PROVE  SettingsLeft(form, in, answer.d.settings)
<1>1. ASSUME NEW c \in DOMAIN d.settings, answer.d.settings[c] # d.settings[c]
      PROVE  /\ c \in DOMAIN SettingsFieldsOf(tab.of, tab.at.page)
             /\ in[c] # SettingsFieldsOf(tab.of, tab.at.page)[c].shown \/ tab.of.settings[c] # d.settings[c]
  BY <1>1, PatchKeeps
<1>. QED BY <1>1 DEF SettingsLeft, Asked

LEMMA AppFormLeaves ==
    ASSUME Whole(d), Since(tab.of, d), NEW form, form.to = "apps.update", form.id \in DOMAIN tab.of.apps,
           form.fields = AppFields(TRUE, tab.of.apps[form.id]),
           NEW in \in Fillings(form.fields), NEW answer \in UpdateApp(d, form.id, in)
    PROVE  AppsLeft(form, in, answer.d.apps)
<1>1. CASE form.id \in DOMAIN d.apps
  <2>1. d.apps[form.id] = tab.of.apps[form.id]
    BY <1>1 DEF Since
  <2>2. form.fields = AppFields(TRUE, d.apps[form.id])
    BY <2>1
  <2>. QED BY <1>1, <2>2, UpdateAppKeeps DEF AppsLeft
<1>2. CASE form.id \notin DOMAIN d.apps
  <2>1. answer \in Refused(d)
    BY <1>2 DEF UpdateApp, IfFound
  <2>2. answer.d = d
    BY <2>1, RefusedIs
  <2>. QED BY <2>2, TablesSame
<1>. QED BY <1>1, <1>2

LEMMA InstanceFormLeaves ==
    ASSUME Whole(d), Since(tab.of, d), NEW form, form.to = "coolify.update", form.id \in DOMAIN tab.of.instances,
           form.fields = InstanceFields(TRUE, tab.of.instances[form.id]),
           NEW in \in Fillings(form.fields), NEW answer \in UpdateCoolify(d, form.id, in)
    PROVE  InstancesLeft(form, in, answer.d.instances)
<1>1. CASE form.id \in DOMAIN d.instances
  <2>1. d.instances[form.id] = tab.of.instances[form.id]
    BY <1>1 DEF Since
  <2>2. form.fields = InstanceFields(TRUE, d.instances[form.id])
    BY <2>1
  <2>. QED BY <1>1, <2>2, UpdateCoolifyKeeps DEF InstancesLeft
<1>2. CASE form.id \notin DOMAIN d.instances
  <2>1. answer \in Refused(d)
    BY <1>2 DEF UpdateCoolify, IfFound
  <2>2. answer.d = d
    BY <2>1, RefusedIs
  <2>. QED BY <2>2, TablesSame
<1>. QED BY <1>1, <1>2

\* A form of the page on the screen.
Shown(form) ==
    /\ Whole(d) /\ Whole(tab.of) /\ Since(tab.of, d) /\ Address(tab.at) /\ tab.listed \subseteq Repos
    /\ Offered(tab.of, tab.at, tab.listed, form)

LEMMA DispatchWrites ==
    ASSUME NEW form, Shown(form), form.to \in Sent, NEW in \in Fillings(form.fields), NEW answer \in Dispatch(form, in)
    PROVE  Writes(d, answer.d, Written(form.to))
<1>1. Readable(form.to, in)
  BY FormReads DEF Shown
<1>2. Whole(d)
  BY DEF Shown
<1>3. Mine(d, answer, Written(form.to))
  BY <1>1, <1>2, DispatchSound
<1>. QED BY <1>3 DEF Mine

LEMMA CoolifyFormsLeave ==
    ASSUME NEW form, Shown(form), NEW in \in Fillings(form.fields), NEW answer \in Dispatch(form, in),
           form.to \in {"coolify.create", "coolify.update", "coolify.test", "coolify.install", "coolify.delete"}
    PROVE  /\ InstancesLeft(form, in, answer.d.instances)
           /\ form.to = "coolify.delete" => BindingsLeft(form, in, answer.d.bindings)
<1>1. Whole(d) /\ Since(tab.of, d)
  BY DEF Shown
<1>2. CASE form.to = "coolify.update"
  <2>1. answer \in UpdateCoolify(d, form.id, in)
    BY <1>2, DispatchIs
  <2>2. form.id \in DOMAIN tab.of.instances
    BY <1>2 DEF Shown, Offered, IsThere
  <2>3. form.fields = InstanceFields(TRUE, tab.of.instances[form.id])
    BY <1>2 DEF Shown, Offered, FieldsOf
  <2>. QED BY <1>1, <1>2, <2>1, <2>2, <2>3, InstanceFormLeaves
<1>3. CASE form.to = "coolify.delete"
  <2>1. answer \in DeleteCoolify(d, form.id)
    BY <1>3, DispatchIs
  <2>. QED BY <1>1, <1>3, <2>1, DeleteCoolifyKeeps, DeleteCoolifyLeaves DEF InstancesLeft
<1>4. CASE form.to \notin {"coolify.update", "coolify.delete"}
  <2>1. \/ answer \in CreateCoolify(d, in) \/ answer \in TestCoolify(d, form.id)
        \/ answer \in InstallWorkerOn(d, form.id, in)
    BY <1>4, DispatchIs
  <2>. QED BY <1>1, <1>4, <2>1, CoolifyStays DEF InstancesLeft
<1>. QED BY <1>2, <1>3, <1>4

LEMMA AppFormsLeave ==
    ASSUME NEW form, Shown(form), NEW in \in Fillings(form.fields), NEW answer \in Dispatch(form, in),
           form.to \in {"apps.create", "apps.update", "apps.test", "apps.manifest", "apps.callback", "apps.delete"}
    PROVE  /\ AppsLeft(form, in, answer.d.apps)
           /\ form.to = "apps.delete" => BindingsLeft(form, in, answer.d.bindings)
<1>1. Whole(d) /\ Since(tab.of, d)
  BY DEF Shown
<1>2. CASE form.to = "apps.update"
  <2>1. answer \in UpdateApp(d, form.id, in)
    BY <1>2, DispatchIs
  <2>2. form.id \in DOMAIN tab.of.apps
    BY <1>2 DEF Shown, Offered, IsThere
  <2>3. form.fields = AppFields(TRUE, tab.of.apps[form.id])
    BY <1>2 DEF Shown, Offered, FieldsOf
  <2>. QED BY <1>1, <1>2, <2>1, <2>2, <2>3, AppFormLeaves
<1>3. CASE form.to = "apps.delete"
  <2>1. answer \in DeleteApp(d, form.id)
    BY <1>3, DispatchIs
  <2>. QED BY <1>1, <1>3, <2>1, DeleteAppKeeps, DeleteAppLeaves DEF AppsLeft
<1>4. CASE form.to \notin {"apps.update", "apps.delete"}
  <2>1. \/ answer \in CreateApp(d, in) \/ answer \in CallbackAppManifest(d, in)
        \/ answer \in TestApp(d, form.id) \/ answer \in StartAppManifest(d)
    BY <1>4, DispatchIs
  <2>. QED BY <1>1, <1>4, <2>1, AppsStay DEF AppsLeft
<1>. QED BY <1>2, <1>3, <1>4

LEMMA BindingFormsLeave ==
    ASSUME NEW form, Shown(form), NEW in \in Fillings(form.fields), NEW answer \in Dispatch(form, in),
           form.to \in {"bindings.upsert", "bindings.bulk", "bindings.toggle", "bindings.delete"}
    PROVE  BindingsLeft(form, in, answer.d.bindings)
<1>1. /\ Whole(d) /\ Whole(tab.of) /\ Since(tab.of, d) /\ Address(tab.at) /\ tab.listed \subseteq Repos
      /\ form.fields = FieldsOf(tab.of, tab.at, tab.listed, form.to, form.id)
      /\ IsThere(tab.of, tab.at, form.to, form.id)
  BY DEF Shown, Offered
<1>2. CASE form.to = "bindings.upsert"
  <2>1. answer \in UpsertBinding(d, in)
    BY <1>2, DispatchIs
  <2>2. form.id \in DOMAIN tab.of.bindings \cup {0}
    BY <1>1, <1>2 DEF IsThere
  <2>3. form.fields = FieldsOf(tab.of, tab.at, tab.listed, "bindings.upsert", form.id)
    BY <1>1, <1>2
  <2>. QED BY <1>1, <1>2, <2>1, <2>2, <2>3, UpsertLeaves
<1>3. CASE form.to = "bindings.bulk"
  <2>1. answer \in BulkBindings(d, in)
    BY <1>3, DispatchIs
  <2>2. tab.at.app # 0
    BY <1>1, <1>3 DEF IsThere
  <2>3. form.fields = BulkFields(tab.of, tab.at, tab.listed)
    BY <1>1, <1>3 DEF FieldsOf
  <2>. QED BY <1>1, <1>3, <2>1, <2>2, <2>3, BulkLeaves
<1>4. CASE form.to = "bindings.toggle"
  <2>1. answer \in ToggleBinding(d, form.id)
    BY <1>4, DispatchIs
  <2>. QED BY <1>1, <1>4, <2>1, ToggleLeaves
<1>5. CASE form.to = "bindings.delete"
  <2>1. answer \in DeleteBinding(d, form.id)
    BY <1>5, DispatchIs
  <2>. QED BY <1>1, <1>5, <2>1, DeleteBindingLeaves
<1>. QED BY <1>2, <1>3, <1>4, <1>5

LEMMA DispatchLeaves ==
    ASSUME NEW form, Shown(form), form.to \in Sent, NEW in \in Fillings(form.fields), NEW answer \in Dispatch(form, in)
    PROVE  Left(form, in, answer.d)
<1>. DEFINE tables == Written(form.to)
<1>1. Writes(d, answer.d, tables)
  BY DispatchWrites
<1>2. Whole(d)
  BY DEF Shown
<1>3. CASE form.to = "settings"
  <2>1. answer \in PatchSettings(d, in)
    BY <1>3, DispatchIs
  <2>2. tables = {"settings"}
    BY <1>3 DEF Written
  <2>3. tab.at.page \in {"settings", "runner", "logs"}
    BY <1>3 DEF Shown, Offered, IsThere
  <2>4. form.fields = SettingsFieldsOf(tab.of, tab.at.page)
    BY <1>3 DEF Shown, Offered, FieldsOf
  <2>5. SettingsLeft(form, in, answer.d.settings)
    BY <1>2, <2>1, <2>3, <2>4, SettingsFormLeaves
  <2>. HIDE DEF tables
  <2>. QED BY <1>1, <2>2, <2>5, WritesLeave
<1>4. CASE form.to = "password"
  <2>1. tables = {}
    BY <1>4 DEF Written
  <2>. HIDE DEF tables
  <2>. QED BY <1>1, <2>1, WritesLeave
<1>5. CASE form.to \in {"coolify.create", "coolify.update", "coolify.test", "coolify.install", "coolify.delete"}
  <2>1. tables = IF form.to = "coolify.delete" THEN {"instances", "bindings"} ELSE {"instances"}
    BY <1>5 DEF Written
  <2>2. /\ InstancesLeft(form, in, answer.d.instances)
        /\ form.to = "coolify.delete" => BindingsLeft(form, in, answer.d.bindings)
    BY <1>5, CoolifyFormsLeave
  <2>. HIDE DEF tables
  <2>3. /\ "settings" \notin tables /\ "apps" \notin tables /\ "jobs" \notin tables
        /\ "bindings" \in tables => form.to = "coolify.delete"
    BY <2>1
  <2>. QED BY <1>1, <2>2, <2>3, WritesLeave
<1>6. CASE form.to \in {"apps.create", "apps.update", "apps.test", "apps.manifest", "apps.callback", "apps.delete"}
  <2>1. tables = IF form.to = "apps.delete" THEN {"apps", "bindings"} ELSE {"apps"}
    BY <1>6 DEF Written
  <2>2. /\ AppsLeft(form, in, answer.d.apps)
        /\ form.to = "apps.delete" => BindingsLeft(form, in, answer.d.bindings)
    BY <1>6, AppFormsLeave
  <2>. HIDE DEF tables
  <2>3. /\ "settings" \notin tables /\ "instances" \notin tables /\ "jobs" \notin tables
        /\ "bindings" \in tables => form.to = "apps.delete"
    BY <2>1
  <2>. QED BY <1>1, <2>2, <2>3, WritesLeave
<1>7. CASE form.to \in {"bindings.upsert", "bindings.bulk", "bindings.toggle", "bindings.delete"}
  <2>1. tables = {"bindings"}
    BY <1>7 DEF Written
  <2>2. BindingsLeft(form, in, answer.d.bindings)
    BY <1>7, BindingFormsLeave
  <2>. HIDE DEF tables
  <2>. QED BY <1>1, <2>1, <2>2, WritesLeave
<1>8. CASE form.to \in {"jobs.rerun", "jobs.cancel"}
  <2>1. tables = {"jobs"}
    BY <1>8 DEF Written
  <2>2. \/ form.to = "jobs.cancel" /\ answer \in CancelJob(d, form.id)
        \/ answer \in RerunJob(d, form.id)
    BY <1>8, DispatchIs
  <2>3. JobsLeft(form, d.jobs, answer.d.jobs)
    BY <1>2, <2>2, CancelLeaves, RerunLeaves
  <2>. HIDE DEF tables
  <2>. QED BY <1>1, <2>1, <2>3, WritesLeave
<1>. QED BY <1>3, <1>4, <1>5, <1>6, <1>7, <1>8 DEF Sent, Actions, Buttons

LEMMA HandleLeaves ==
    ASSUME NEW form, Shown(form), NEW user \in BOOLEAN, NEW token, NEW in \in Fillings(form.fields),
           NEW answer \in Handle(user, token, form, in)
    PROVE  Left(form, in, answer.d)
<1>1. CASE form.to = "setup"
  <2>1. answer \in HandleSetup(d, in, user)
    BY <1>1 DEF Handle
  <2>2. form.fields = SetupFields
    BY <1>1 DEF Shown, Offered, FieldsOf
  <2>3. Whole(d)
    BY DEF Shown
  <2>4. /\ \A c \in DOMAIN d.settings : answer.d.settings[c] # d.settings[c] => Asked(form, in, c)
        /\ answer.d.apps = d.apps /\ answer.d.instances = d.instances
        /\ answer.d.bindings = d.bindings /\ answer.d.jobs = d.jobs
    BY <2>1, <2>2, <2>3, SetupKeeps
  <2>5. SettingsLeft(form, in, answer.d.settings)
    BY <2>4 DEF SettingsLeft
  <2>. QED BY <2>4, <2>5, TablesSame DEF Left
<1>2. CASE form.to = "login"
  <2>1. answer \in HandleLogin(d, user)
    BY <1>2 DEF Handle
  <2>2. answer = [Answer(d, At("login"), "outside") EXCEPT !.user = user] \/ answer = Answer(d, At("home"), "")
    BY <2>1 DEF HandleLogin
  <2>3. [Answer(d, At("login"), "outside") EXCEPT !.user = user].d = d
    BY DEF Answer
  <2>4. answer.d = d
    <3>1. Answer(d, At("home"), "").d = d
      BY DEF Answer
    <3>. QED BY <2>2, <2>3, <3>1
  <2>. QED BY <2>4, SameLeft
<1>3. CASE form.to = "logout"
  <2>1. answer \in HandleLogout(d)
    BY <1>3 DEF Handle
  <2>2. answer.d = d
    BY <2>1 DEF HandleLogout, Answer
  <2>. QED BY <2>2, SameLeft
<1>4. CASE form.to \notin {"setup", "login", "logout"}
  <2>1. \/ answer = [Answer(d, Guarded(user, Drawn), "") EXCEPT !.user = user]
        \/ answer \in Refused(d) \/ answer \in Dispatch(form, in)
    BY <1>4 DEF Handle
  <2>2. form.to \in Sent
    BY <1>4 DEF Shown, Offered, IsThere, Sent
  <2>3. CASE answer = [Answer(d, Guarded(user, Drawn), "") EXCEPT !.user = user]
    <3>1. answer.d = d
      BY <2>3 DEF Answer
    <3>. QED BY <3>1, SameLeft
  <2>4. CASE answer \in Refused(d)
    <3>1. answer.d = d
      BY <2>4, RefusedIs
    <3>. QED BY <3>1, SameLeft
  <2>. QED BY <2>1, <2>2, <2>3, <2>4, DispatchLeaves
<1>. QED BY <1>1, <1>2, <1>3, <1>4

-----------------------------------------------------------------------------
(* Of a step: only Submit leaves a form sent.                              *)

\* What EditsKeepTheRest says of a step.
KeepsTheRest ==
    sent' # Unsent =>
        \A form \in View(tab).forms : form.to = sent'.to /\ form.id = sent'.id =>
            /\ SettingsKept(form, sent'.in)
            /\ RowsKept(form, sent'.in, d.apps, d'.apps, "apps.update", "apps.delete")
            /\ RowsKept(form, sent'.in, d.instances, d'.instances, "coolify.update", "coolify.delete")
            /\ BindingsKept(form, sent'.in)
            /\ JobsKept(form)

LEMMA LeftKeeps ==
    ASSUME NEW form, NEW in, NEW db2, Left(form, in, db2), d' = db2
    PROVE  /\ SettingsKept(form, in)
           /\ RowsKept(form, in, d.apps, d'.apps, "apps.update", "apps.delete")
           /\ RowsKept(form, in, d.instances, d'.instances, "coolify.update", "coolify.delete")
           /\ BindingsKept(form, in)
           /\ JobsKept(form)
<1>1. SettingsKept(form, in)
  BY DEF Left, SettingsLeft, SettingsKept
<1>2. /\ RowsKept(form, in, d.apps, d'.apps, "apps.update", "apps.delete")
      /\ RowsKept(form, in, d.instances, d'.instances, "coolify.update", "coolify.delete")
  BY DEF Left, AppsLeft, InstancesLeft
<1>3. BindingsKept(form, in)
  BY DEF Left, BindingsLeft, BindingsKept
<1>4. JobsKept(form)
  BY DEF Left, JobsLeft, JobsKept
<1>. QED BY <1>1, <1>2, <1>3, <1>4

\* A form of the page, in the state the invariant allows.
LEMMA ViewShown ==
    ASSUME IInv, load = Idle, NEW form \in View(tab).forms
    PROVE  Shown(form)
<1>1. tab.at.page \notin {"", "gaveup"}
  BY ViewDrawn
<1>2. DrawnFrom(tab.of, tab.at) /\ Address(tab.at) /\ tab.listed \subseteq Repos
  BY <1>1, InvIs DEF TabFrom
<1>3. 0 \notin DOMAIN tab.of.bindings
  BY InvIs DEF Whole, WholeBindings, Keys
<1>4. Offered(tab.of, tab.at, tab.listed, form)
  BY <1>2, <1>3, ViewForms
<1>. QED BY <1>2, <1>4, InvIs DEF Shown

\* The fields of a form are those of its action and row.
LEMMA OneForm ==
    ASSUME NEW form, Shown(form), NEW other, Shown(other), other.to = form.to, other.id = form.id
    PROVE  other.fields = form.fields
BY DEF Shown, Offered

\* Forms of one action, row and fields are answered alike.
LEMMA HandleAlike ==
    ASSUME NEW form, NEW other, other.to = form.to, other.id = form.id, NEW user, NEW token, NEW in
    PROVE  Handle(user, token, other, in) = Handle(user, token, form, in)
<1>1. Dispatch(other, in) = Dispatch(form, in)
  BY DEF Dispatch
<1>. QED BY <1>1 DEF Handle

LEMMA SubmitKeeps == ASSUME IInv, Submit PROVE KeepsTheRest
<1>1. load = Idle /\ signedIn \in BOOLEAN
  BY InvIs DEF Submit
<1>2. PICK form \in View(tab).forms : \E in \in Fillings(form.fields) :
       \E answer \in Handle(signedIn, tab.token, form, in) :
           d' = answer.d /\ sent' = [to |-> form.to, id |-> form.id, in |-> in]
  BY DEF Submit
<1>3. PICK in \in Fillings(form.fields) :
       \E answer \in Handle(signedIn, tab.token, form, in) :
           d' = answer.d /\ sent' = [to |-> form.to, id |-> form.id, in |-> in]
  BY <1>2
<1>4. PICK answer \in Handle(signedIn, tab.token, form, in) :
           d' = answer.d /\ sent' = [to |-> form.to, id |-> form.id, in |-> in]
  BY <1>3
<1>5. sent'.to = form.to /\ sent'.id = form.id /\ sent'.in = in
  BY <1>4
<1>6. ASSUME NEW other \in View(tab).forms, other.to = form.to, other.id = form.id
      PROVE  Left(other, in, answer.d)
  <2>1. Shown(form) /\ Shown(other)
    BY <1>1, ViewShown
  <2>2. in \in Fillings(other.fields)
    BY <1>6, <2>1, OneForm
  <2>3. answer \in Handle(signedIn, tab.token, other, in)
    BY <1>6, HandleAlike
  <2>. QED BY <1>1, <2>1, <2>2, <2>3, HandleLeaves
<1>. QED BY <1>4, <1>5, <1>6, LeftKeeps DEF KeepsTheRest

LEMMA StepKeeps == ASSUME IInv, Next PROVE KeepsTheRest
<1>1. CASE Submit
  BY <1>1, SubmitKeeps
<1>2. CASE Follow \/ Visit \/ Refresh \/ TokenExpires
  <2>1. load = Idle /\ sent' = sent
    BY <1>2 DEF Follow, Visit, Refresh, Open, TokenExpires
  <2>2. sent = Unsent
    BY <2>1, InvIs
  <2>. QED BY <2>1, <2>2 DEF KeepsTheRest
<1>3. CASE Redirect \/ GiveUp \/ Draw \/ SessionEnds
  BY <1>3 DEF Redirect, GiveUp, Draw, SessionEnds, KeepsTheRest
<1>4. CASE AppGoes \/ InstanceGoes \/ BindingGoes \/ BindingTurns \/ BindingComes \/ AddressChanges
  <2>1. sent' = Unsent
    BY <1>4 DEF AppGoes, InstanceGoes, BindingGoes, BindingTurns, BindingComes, AddressChanges, Other
  <2>. QED BY <2>1 DEF KeepsTheRest
<1>5. CASE JobArrives \/ JobMoves \/ JobPruned \/ DockerTurns
  <2>1. sent' = Unsent
    BY <1>5 DEF JobArrives, JobMoves, JobPruned, DockerTurns, Other
  <2>. QED BY <2>1 DEF KeepsTheRest
<1>. QED BY <1>1, <1>2, <1>3, <1>4, <1>5 DEF Next

\* A form changes what its user changed in it, and nothing else: of the settings,
\* of the rows of Apps, instances and bindings and of the runs, every column and
\* row that the page did not show stays, and of what it showed all stays but what
\* the user touched, or what had changed since the page was drawn.
THEOREM EditsAlwaysKeepTheRest == Spec => EditsKeepTheRest
<1>1. IInv /\ [Next]_vars => [KeepsTheRest]_vars
  BY StepKeeps
<1>2. Init => IInv
  BY InitInv
<1>3. EditsKeepTheRest <=> [][KeepsTheRest]_vars
  BY DEF EditsKeepTheRest, KeepsTheRest
<1>. QED BY <1>1, <1>2, <1>3, StepInv, PTL DEF Spec

=============================================================================
