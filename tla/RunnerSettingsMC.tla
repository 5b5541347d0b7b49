-------------------------- MODULE RunnerSettingsMC --------------------------
(* JobRunner and Settings for TLC, side by side: a behaviour is what the     *)
(* runner does with its jobs, or PATCHes of the settings among deliveries    *)
(* and runs of a fork's commit.                                              *)
EXTENDS JobRunnerMC, Settings

TwoForms == {{"slots", "skipForks", "runtime"}, {"skipForks"}, {"runtime"}}

VARIABLE part  \* what the behaviour is about

RunnerSettingsInit == part \in {"runner", "settings"} /\ Init /\ SettingsInit

RunnerSettingsNext ==
    /\ UNCHANGED part
    /\ \/ part = "runner" /\ Next /\ UNCHANGED settingsVars
       \/ part = "settings" /\ SettingsNext /\ UNCHANGED vars

RunnerSettingsSpec == RunnerSettingsInit /\ [][RunnerSettingsNext]_<<part, vars, settingsVars>>

AllSymmetry == Symmetry \cup Permutations(Runs) \cup Permutations(Requests)
=============================================================================
