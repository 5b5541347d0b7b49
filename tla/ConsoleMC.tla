------------------------------ MODULE ConsoleMC ------------------------------
(* Bindings and Vault for TLC, side by side: the requests of a behaviour    *)
(* use the bindings, or the Apps and the Coolify instances.  Two            *)
(* repositories, one of which has two spellings.                            *)
EXTENDS Bindings, Vault, TLC
CONSTANTS app, App, lib, repo1, repo2

TwoRepos == (app :> repo1) @@ (App :> repo1) @@ (lib :> repo2)

VARIABLE part  \* what the requests of this behaviour use

ConsoleInit == part \in {"bindings", "vault"} /\ Init /\ VaultInit

ConsoleNext ==
    /\ UNCHANGED part
    /\ \/ part = "bindings" /\ Next /\ UNCHANGED vaultVars
       \/ part = "vault" /\ VaultNext /\ UNCHANGED vars

ConsoleSpec == ConsoleInit /\ [][ConsoleNext]_<<part, vars, vaultVars>>

Symmetry == UNION {Permutations(Handlers), Permutations(Requests), Permutations(Keys),
                   Permutations({app, App})}
=============================================================================
