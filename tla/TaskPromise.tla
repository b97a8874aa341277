----------------------------- MODULE TaskPromise -----------------------------
(***************************************************************************)
(* What the runtime promises about one Task, with no mention of runs,      *)
(* gates or verifiers: its status moves only along the table, it becomes   *)
(* DONE only while a PASS verification report exists, and a DONE Task      *)
(* stays DONE and keeps that report.                                       *)
(***************************************************************************)
EXTENDS Transitions

VARIABLES status,   \* the status line of the Task file
          passed    \* does the Task have a PASS verification report?

Init == /\ status = "TODO"
        /\ passed = FALSE

\* A verification report is written, or archived to make room for another.
Judge == /\ status # "DONE"
         /\ passed' \in BOOLEAN
         /\ UNCHANGED status

\* A status write.  Only a Task with a PASS report may become DONE.
Move(to) == /\ CheckTransition(status, to)
            /\ to = "DONE" => passed
            /\ status' = to
            /\ UNCHANGED passed

Next == Judge \/ \E to \in States : Move(to)

Spec == Init /\ [][Next]_<<status, passed>>
=============================================================================
