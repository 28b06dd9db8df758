------------------------------- MODULE MCOutbox ------------------------------
(* Instances of Outbox for TLC.                                            *)
EXTENDS Outbox, TLC

CONSTANTS invite, reset, legacy

\* One row of each kind; a configuration takes those it needs.
MCKind == [m \in Messages |->
    CASE m = invite -> "invitation"
      [] m = reset  -> "password_reset"
      [] m = legacy -> "automation_run"]
=============================================================================
