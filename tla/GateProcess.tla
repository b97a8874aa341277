----------------------------- MODULE GateProcess -----------------------------
(***************************************************************************)
(* One gate command as the runtime's own subprocess (executeGate).  The    *)
(* shell, what it leaves behind, the two artifact files, three timers and  *)
(* Node's events are independent of each other: the outcome must be right  *)
(* in whatever order they come, and must come.                             *)
(***************************************************************************)
EXTENDS Integers

VARIABLES phase,    \* "idle" | "running" | "settled"
          shell,    \* "none" | "failed" (not launched) | "alive" | "exited"
          code,     \* its exit code, or NoCode when a signal ended it
          holders,  \* does a process it started still hold an output pipe?
          timers,   \* the timers that are armed
          closed,   \* the close events that came
          flags,    \* what the handlers noted
          status    \* the verdict, "none" before there is one

gateVars == <<phase, shell, code, holders, timers, closed, flags, status>>

NoCode  == -1
Streams == {"stdout", "stderr"}
Timers  == {"timeout", "kill", "giveup"}
\* An artifact that could not be written is noted by the name of its stream.
WriteErrors == Streams

IdleGate ==
  /\ phase = "idle" /\ shell = "none" /\ code = NoCode /\ holders = FALSE
  /\ timers = {} /\ closed = {} /\ flags = {} /\ status = "none"

\* The process that listens is gone, or has not started a gate yet.
Forget ==
  /\ phase' = "idle" /\ shell' = "none" /\ code' = NoCode /\ holders' = FALSE
  /\ timers' = {} /\ closed' = {} /\ flags' = {} /\ status' = "none"

\* Mutant: an artifact that could not be written does not matter.
VerdictUnchecked(c, f) ==
  IF "launchError" \in f THEN "ERROR"
  ELSE IF "timedOut" \in f THEN "TIMEOUT"
  ELSE IF c = 0 THEN "PASS"
  ELSE IF c = NoCode THEN "ERROR"
  ELSE "FAIL"

\* Mutant: a shell that a signal ended gets no verdict.
VerdictOfCode(c, f) ==
  IF "launchError" \in f THEN "ERROR"
  ELSE IF "timedOut" \in f THEN "TIMEOUT"
  ELSE IF f \cap WriteErrors # {} THEN "ERROR"
  ELSE IF c = 0 THEN "PASS"
  ELSE IF c = 1 THEN "FAIL"
  ELSE "none"

\* The first that applies.
Verdict(c, f) ==
  IF "launchError" \in f THEN "ERROR"
  ELSE IF "timedOut" \in f THEN "TIMEOUT"
  ELSE IF f \cap WriteErrors # {} THEN "ERROR"
  ELSE IF c = 0 THEN "PASS"
  ELSE IF c = NoCode THEN "ERROR"
  ELSE "FAIL"

\* settle(): with c the close events that came and f the notes; the exit code
\* is known from the close event of the child only.
Settle(c, f) ==
  IF "forced" \in f \/ c = Streams \cup {"child"}
  THEN /\ phase' = "settled"
       /\ timers' = {}
       /\ status' = Verdict(IF "child" \in c THEN code ELSE NoCode, f)
  ELSE UNCHANGED <<phase, timers, status>>

Running == phase = "running"

\* A gate that is disabled, has no command or no directory, or whose spawn throws.
NeverLaunched ==
  /\ phase = "idle"
  /\ phase' = "settled"
  /\ status' = "ERROR"
  /\ UNCHANGED <<shell, code, holders, timers, closed, flags>>

\* The shell is spawned in a process group of its own, or turns out not to start.
Spawn ==
  /\ phase = "idle"
  /\ phase' = "running"
  /\ shell' \in {"alive", "failed"}
  /\ timers' = {"timeout"}
  /\ UNCHANGED <<code, holders, closed, flags, status>>

\* The event 'error' ends the artifacts itself: no pipe will.
LaunchError ==
  /\ Running /\ shell = "failed" /\ "launchError" \notin flags
  /\ flags' = flags \cup {"launchError"}
  /\ UNCHANGED <<phase, shell, code, holders, timers, closed, status>>

\* The shell ends, at any time and in any way; what it started may live on.
ShellEnds ==
  /\ Running /\ shell = "alive"
  /\ shell' = "exited"
  /\ code' \in {0, 1, NoCode}
  /\ holders' \in BOOLEAN
  /\ UNCHANGED <<phase, timers, closed, flags, status>>

\* The last process with the pipe open ends, or closes it.
HoldersEnd ==
  /\ Running /\ shell = "exited" /\ holders
  /\ holders' = FALSE
  /\ UNCHANGED <<phase, shell, code, timers, closed, flags, status>>

\* Both pipes are at their end.
Drained == shell = "exited" /\ ~holders

\* The child's 'close': after its exit and the end of its pipes.
ChildClose ==
  /\ Running /\ "child" \notin closed
  /\ Drained \/ "launchError" \in flags
  /\ closed' = closed \cup {"child"}
  /\ Settle(closed', flags)
  /\ UNCHANGED <<shell, code, holders, flags>>

\* An artifact cannot be written: it is destroyed, and its 'close' follows.
StreamError(s) ==
  /\ Running /\ s \notin closed /\ s \notin flags
  /\ flags' = flags \cup {s}
  /\ UNCHANGED <<phase, shell, code, holders, timers, closed, status>>

\* An artifact is complete on disk, or destroyed.
StreamClose(s) ==
  /\ Running /\ s \notin closed
  /\ Drained \/ "launchError" \in flags \/ s \in flags
  /\ closed' = closed \cup {s}
  /\ Settle(closed', flags)
  /\ UNCHANGED <<shell, code, holders, flags>>

\* The time is over: SIGTERM, which a process may ignore, and two more timers.
Timeout ==
  /\ "timeout" \in timers
  /\ timers' = {"kill", "giveup"}
  /\ flags' = flags \cup {"timedOut"}
  /\ UNCHANGED <<phase, shell, code, holders, closed, status>>

\* SIGKILL to the group ends the shell and whatever did not leave the group;
\* a process in an uninterruptible wait stays.
Kill ==
  /\ "kill" \in timers
  /\ timers' = timers \ {"kill"}
  /\ \/ /\ shell = "alive"
        /\ shell' = "exited" /\ code' = NoCode /\ holders' \in BOOLEAN
     \/ shell = "exited" /\ holders' = FALSE /\ UNCHANGED <<shell, code>>
     \/ UNCHANGED <<shell, code, holders>>
  /\ UNCHANGED <<phase, closed, flags, status>>

\* Mutant: the runtime keeps waiting for a process that survives SIGKILL.
GiveUpWaiting ==
  /\ "giveup" \in timers /\ "kill" \notin timers
  /\ timers' = timers \ {"giveup"}
  /\ UNCHANGED <<phase, shell, code, holders, closed, flags, status>>

\* The runtime stops watching and settles with what it has.
GiveUp ==
  /\ "giveup" \in timers /\ "kill" \notin timers
  /\ flags' = flags \cup {"forced"}
  /\ Settle(closed, flags')
  /\ UNCHANGED <<shell, code, holders, closed>>

Clock == Timeout \/ Kill \/ GiveUp

Event == \/ LaunchError \/ ShellEnds \/ HoldersEnd \/ ChildClose
         \/ \E s \in Streams : StreamError(s) \/ StreamClose(s)

GateStep == NeverLaunched \/ Spawn \/ Event \/ Clock

GateTypeOK ==
  /\ phase \in {"idle", "running", "settled"}
  /\ shell \in {"none", "failed", "alive", "exited"}
  /\ code \in {0, 1, NoCode}
  /\ holders \in BOOLEAN
  /\ timers \subseteq Timers
  /\ closed \subseteq Streams \cup {"child"}
  /\ flags \subseteq Streams \cup {"launchError", "timedOut", "forced"}
  /\ status \in {"none", "PASS", "FAIL", "ERROR", "TIMEOUT"}
  /\ phase = "settled" <=> status # "none"

\* PASS is said of a shell that exited with 0 in time, when nothing it started
\* can write any more and both artifacts are on disk without an error
\* ("PASS를 지어내지 않는다", no PASS is made up).
PassIsEarned ==
  status = "PASS" => /\ shell = "exited" /\ code = 0 /\ ~holders
                     /\ Streams \subseteq closed
                     /\ flags = {}
=============================================================================
