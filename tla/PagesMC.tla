------------------------------- MODULE PagesMC -------------------------------
(* Pages for TLC: an empty console before and after setup, and one in use.  *)
EXTENDS Pages, TLC

Decimal(n) == ToString(n)

NewSettings ==
    [public_base_url |-> "", default_check_name |-> "openpreflight",
     default_pipeline_file |-> ".ci.yml", default_timeout_seconds |-> 30,
     max_concurrent_jobs |-> 2, default_runtime |-> "", skip_fork_prs |-> TRUE,
     max_log_bytes |-> 4096, log_retention_days |-> 30]

New(users) ==
    [settings |-> NewSettings, apps |-> <<>>, instances |-> <<>>, bindings |-> <<>>, jobs |-> <<>>,
     users |-> users, docker |-> TRUE, next |-> 1]

AnApp == [name |-> "ci", slug |-> "ci", app_id |-> 2, api_url |-> DefaultAPI, check_name |-> "",
          pem |-> "key", webhook_secret |-> "secret"]
AnInstance == [name |-> "prod", base_url |-> "coolify", api_token |-> "token",
               default_server_uuid |-> "", default_project_uuid |-> ""]

ABinding == [NoBinding EXCEPT !.github_app_id = 1, !.repo = "o/app", !.enabled = TRUE]
AnOverride == [NoBinding EXCEPT !.github_app_id = 1, !.repo = "o/lib", !.coolify_instance_id = 2,
                                !.paths = "w", !.timeout_seconds = 60, !.shareable_logs = TRUE,
                                !.on_empty_pipeline = "fail"]

AJob(n, status, shareable) ==
    [id |-> n, repo |-> "o/app", app |-> 1, status |-> status, shareable |-> shareable]

InUse(skip) ==
    [settings |-> [NewSettings EXCEPT !.public_base_url = "ci.example.com", !.default_runtime = "node",
                                      !.skip_fork_prs = skip],
     apps |-> 1 :> AnApp, instances |-> 2 :> AnInstance,
     bindings |-> (3 :> ABinding) @@ (4 :> AnOverride),
     jobs |-> <<AJob(7, "in_progress", FALSE), AJob(6, "success", TRUE), AJob(5, "success", FALSE)>>,
     users |-> TRUE, docker |-> TRUE, next |-> 8]

FirstDay == {New(users) : users \in BOOLEAN} \cup {InUse(skip) : skip \in BOOLEAN}

OldBookmarks ==
    {At("home"), AtRow("run", 5), [At("apps") EXCEPT !.edit = 1], [At("repos") EXCEPT !.edit = 3],
     [At("jobs") EXCEPT !.status = "unknown"]}
=============================================================================
