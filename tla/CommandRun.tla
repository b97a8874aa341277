----------------------------- MODULE CommandRun ------------------------------
(***************************************************************************)
(* What a command does while it holds the repository's lock, as far as     *)
(* others see it: an execution leaves a marker of itself for its Task      *)
(* (claimExecution, writeClaim, releaseClaim) and runs a gate as a         *)
(* subprocess.  The composition of OperationLock, the marker and           *)
(* GateProcess.  A process that dies leaves the lock and the marker, the   *)
(* marker perhaps half written, since writeFileSync truncates first.       *)
(***************************************************************************)
EXTENDS OperationLock

VARIABLES marker,  \* the file of the Task: whose it is, and whether it is whole
          work,    \* what the command of each process does next
          phase, shell, code, holders, timers, closed, flags, status

gateVars == <<phase, shell, code, holders, timers, closed, flags, status>>

G == INSTANCE GateProcess

runVars == <<lock, pc, attempt, owner, marker, work, gateVars>>

Works == {"start", "mark", "gate", "beat", "report", "unmark", "over", "refused"}

RunInit ==
  /\ Init
  /\ marker = NoFile
  /\ work = [p \in Procs |-> "start"]
  /\ G!IdleGate

During(p, w)  == pc[p] = "holding" /\ work[p] = w
Then(p, w) == work' = [work EXCEPT ![p] = w]

\* Mutant: a fresh heartbeat is enough, whether or not its process lives.
BlocksUnasked(p, fresh) == marker # NoFile /\ (~marker.written \/ fresh)

\* claimExecution: a marker that cannot be read blocks; so does one with a
\* fresh heartbeat whose process is another one that is alive.
Blocks(p, fresh) ==
  /\ marker # NoFile
  /\ ~marker.written \/ (fresh /\ marker.by # p /\ Alive(marker.by))

\* execute and resume look at the marker first.
Claim(p) ==
  /\ During(p, "start")
  /\ \E fresh \in BOOLEAN :
       Then(p, IF Blocks(p, fresh) THEN "refused" ELSE "mark")
  /\ UNCHANGED <<vars, marker, gateVars>>

\* start, quick and execute-plan do not look; other commands execute nothing.
NoClaim(p) ==
  /\ During(p, "start")
  /\ \E w \in {"mark", "over"} : Then(p, w)
  /\ UNCHANGED <<vars, marker, gateVars>>

\* Mutant: a marker that is there already is left as it is.
WriteClaimKept(p, from, to) ==
  /\ During(p, from)
  /\ IF marker = File(p, FALSE)
     THEN marker' = File(p, TRUE) /\ Then(p, to)
     ELSE IF marker = NoFile THEN marker' = File(p, FALSE) /\ UNCHANGED work
     ELSE Then(p, to) /\ UNCHANGED marker
  /\ UNCHANGED <<vars, gateVars>>

\* writeClaim at the start of a stage: the file is truncated, then written.
WriteClaim(p, from, to) ==
  /\ During(p, from)
  /\ IF marker = File(p, FALSE)
     THEN marker' = File(p, TRUE) /\ Then(p, to)
     ELSE marker' = File(p, FALSE) /\ UNCHANGED work
  /\ UNCHANGED <<vars, gateVars>>

\* The heartbeat's timer fires while the stage runs, not between its end and what
\* follows at once: writeClaim has truncated the file, and writes it next.
Beat(p) ==
  /\ During(p, "gate") /\ phase # "settled"
  /\ marker' = File(p, FALSE)
  /\ Then(p, "beat")
  /\ UNCHANGED <<vars, gateVars>>

\* The gate of this command, from its launch to its verdict.
Gate(p) ==
  /\ During(p, "gate")
  /\ G!GateStep
  /\ UNCHANGED <<vars, marker, work>>

\* The verdict is in: the stage is recorded.
GateOver(p) ==
  /\ During(p, "gate") /\ phase = "settled"
  /\ Then(p, "report")
  /\ UNCHANGED <<vars, marker, gateVars>>

\* releaseClaim removes whatever marker the Task has.
ReleaseClaim(p) ==
  /\ During(p, "unmark")
  /\ marker' = NoFile
  /\ Then(p, "over")
  /\ G!Forget
  /\ UNCHANGED vars

Execution(p) ==
  \/ Claim(p) \/ NoClaim(p)
  \/ WriteClaim(p, "mark", "gate") \/ WriteClaim(p, "beat", "gate")
  \/ WriteClaim(p, "report", "unmark")
  \/ GateOver(p) \/ ReleaseClaim(p)

\* The command returns, and the lock is released as OperationLock says.
Return(p) ==
  /\ work[p] \in {"over", "refused"}
  /\ Finish(p)
  /\ UNCHANGED <<marker, work, gateVars>>

LockStep(p) == (Acquire(p) \/ Release(p)) /\ UNCHANGED <<marker, work, gateVars>>

\* A runtime that dies leaves the marker; nobody hears of its gate any more.
Die(p) ==
  /\ Crash(p)
  /\ IF pc[p] = "holding" THEN G!Forget ELSE UNCHANGED gateVars
  /\ UNCHANGED <<marker, work>>

RunNext == \E p \in Procs :
  LockStep(p) \/ Execution(p) \/ Beat(p) \/ Gate(p) \/ Return(p) \/ Die(p)

\* As in SoleSpec, recoveries of the lock do not overlap.
RunSpec == RunInit /\ [][RunNext /\ Sole']_runVars

\* The runtime keeps running and the gate's timers fire, between two heartbeats;
\* nothing is assumed of the gate's process, of its pipes or of the artifacts.
OwnStep(p) == LockStep(p) \/ Execution(p) \/ Return(p)
Tick(p)    == During(p, "gate") /\ (G!Spawn \/ G!Clock) /\ UNCHANGED <<vars, marker, work>>
FairRunSpec ==
  /\ RunSpec
  /\ WF_runVars(\E p \in Procs : OwnStep(p))
  /\ SF_runVars(\E p \in Procs : Tick(p))

-----------------------------------------------------------------------------
(* Properties.                                                             *)

RunTypeOK ==
  /\ TypeOK
  /\ marker \in [by : Procs, written : BOOLEAN] \cup {NoFile}
  /\ work \in [Procs -> Works]
  /\ G!GateTypeOK

\* No gate is said to pass that did not (see GateProcess), whoever runs it.
PassIsEarned == G!PassIsEarned

\* While a command executes a Task, the Task's marker is its own, and whole but
\* while a heartbeat writes it: two executions of a Task never overwrite each
\* other's marker.
MarkerIsOwn ==
  \A p \in Procs :
    pc[p] = "holding" /\ work[p] \in {"gate", "beat", "unmark"} =>
      marker = File(p, work[p] # "beat")

\* A marker that a dead execution left whole never stops the next one, whatever
\* its heartbeat says: only a torn one does (claimExecution: the marker of a
\* process that is gone is reclaimed).
OnlyTornRefuses ==
  [][\A p \in Procs : work'[p] = "refused" /\ work[p] # "refused"
                      => marker # NoFile /\ ~marker.written]_runVars
=============================================================================
