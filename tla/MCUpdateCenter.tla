---------------------------- MODULE MCUpdateCenter ---------------------------
(* Instances of UpdateCenter for TLC.                                      *)
EXTENDS UpdateCenter, TLC

\* Version 1 is installed; 2 may be installed online, 3 needs an operator.
MCPolicy == 1 :> "online_safe" @@ 2 :> "online_safe" @@ 3 :> "maintenance"

\* Keys and handlers are interchangeable.
CenterSymmetry == Permutations(Keys) \cup Permutations(Handlers)
=============================================================================
