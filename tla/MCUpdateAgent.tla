---------------------------- MODULE MCUpdateAgent ----------------------------
(* Instances of UpdateAgent for TLC.                                       *)
EXTENDS UpdateAgent, TLC

\* Version 1 is installed; 2 and 3 are upgrades, 2 from 1, 3 from 1 or 2.
MCManifest ==
    1 :> [policy |-> "online_safe", min |-> 1, max |-> 1] @@
    2 :> [policy |-> "online_safe", min |-> 1, max |-> 1] @@
    3 :> [policy |-> "online_safe", min |-> 1, max |-> 2]

\* Keys, request threads and processes are interchangeable.
MCSymmetry == Permutations(Keys) \cup Permutations(Reqs) \cup Permutations(Procs)
=============================================================================
