---------------------------- MODULE DeliveriesMC ----------------------------
(* Webhook for TLC: deliveries of two commits, on a branch or on none.      *)
EXTENDS Webhook, TLC

Event(d, s, r, a) == [delivery |-> d, sha |-> s, ref |-> r, action |-> a]

\* Two commits come without a branch and the second on main too: GitHub sends both
\* events.  Somebody presses Re-run on the first, which is on main as well.
AllEvents == { Event("d1", 1, "", "requested"), Event("d2", 2, "main", "requested"),
               Event("d3", 2, "", "requested"), Event("d4", 1, "main", "rerequested") }

Symmetry == Permutations(Jobs) \cup Permutations(Handlers)
=============================================================================
