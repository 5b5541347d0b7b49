----------------------------- MODULE SettingsMC -----------------------------
(* The form of the Runner page.                                            *)
EXTENDS Settings

RunnerForm == {{"slots", "skipForks", "runtime"}}
=============================================================================
