----------------------------- MODULE Transitions -----------------------------
(***************************************************************************)
(* The Task state machine of tools/loop-runtime/transitions.mjs: the only  *)
(* transitions that exist.  Every write of a Task's status goes through    *)
(* task-store.writeStatus, which refuses a pair that is not in this table. *)
(***************************************************************************)

States == {"TODO", "IN_PROGRESS", "REVIEW", "DONE", "BLOCKED", "DROPPED"}

\* The allowed targets of each state; DONE and DROPPED are terminal.
TRANSITIONS ==
  [ TODO        |-> {"IN_PROGRESS", "BLOCKED", "DROPPED"},
    IN_PROGRESS |-> {"REVIEW", "BLOCKED", "TODO"},
    REVIEW      |-> {"DONE", "IN_PROGRESS", "BLOCKED"},
    BLOCKED     |-> {"TODO", "DROPPED"},
    DONE        |-> {},
    DROPPED     |-> {} ]

\* What a Worker may ask for in its result.  It is a request, never a write.
WORKER_REQUESTABLE == {"REVIEW", "BLOCKED"}

CheckTransition(from, to) == to \in TRANSITIONS[from]

=============================================================================
