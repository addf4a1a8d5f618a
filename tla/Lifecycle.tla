------------------------------ MODULE Lifecycle ------------------------------
(***************************************************************************)
(* The life of a work item: its states and the transitions the code        *)
(* accepts (src/backend/app/work/lifecycle.py).  Constant definitions      *)
(* only; every module that speaks of a state extends this one.             *)
(***************************************************************************)

State == {"NEW", "QUEUED", "IN_PROGRESS", "ON_HOLD_PREEMPTED",
          "BLOCKED_ON_CLIENT", "IN_VERIFICATION", "DONE", "CANCELLED"}

\* The states a state may be followed by; check_transition refuses the rest.
ALLOWED ==
    [NEW               |-> {"QUEUED", "IN_PROGRESS", "CANCELLED"},
     QUEUED            |-> {"IN_PROGRESS", "BLOCKED_ON_CLIENT", "CANCELLED"},
     IN_PROGRESS       |-> {"ON_HOLD_PREEMPTED", "BLOCKED_ON_CLIENT",
                            "IN_VERIFICATION", "DONE", "CANCELLED"},
     ON_HOLD_PREEMPTED |-> {"IN_PROGRESS", "BLOCKED_ON_CLIENT", "CANCELLED"},
     BLOCKED_ON_CLIENT |-> {"IN_PROGRESS", "QUEUED", "CANCELLED"},
     IN_VERIFICATION   |-> {"DONE", "IN_PROGRESS", "CANCELLED"},
     DONE              |-> {},
     CANCELLED         |-> {}]

TERMINAL == {"DONE", "CANCELLED"}

OPEN_STATES == State \ TERMINAL

\* Time spent here is not charged to us (RULE-005).
CLOCK_STOPPED == {"BLOCKED_ON_CLIENT"}

\* Only this counts toward a person's load.
LOAD_BEARING == {"IN_PROGRESS"}

\* States an item reaches only after somebody started it.
WorkedOn == {"IN_PROGRESS", "ON_HOLD_PREEMPTED", "IN_VERIFICATION", "DONE"}

==============================================================================
