---------------------------- MODULE OperationLock ----------------------------
(***************************************************************************)
(* The repository-wide lock of the commands that change something          *)
(* (operation-lock.mjs): a file created with O_EXCL that holds the pid of  *)
(* its owner.  Every file system call is a step of its own, since other    *)
(* processes run between them.  A process is one loopctl invocation: it    *)
(* tries to acquire the lock, runs its command, releases the lock, exits.  *)
(***************************************************************************)
EXTENDS Naturals

CONSTANTS Procs,    \* the processes, by pid; no pid is used twice
          Nobody,   \* not a process
          CanCrash  \* those of Procs that may die at any step, or fail to write

ASSUME ProcsAssumption == Nobody \notin Procs /\ CanCrash \subseteq Procs

VARIABLES lock,     \* the file: its creator, and whether the pid is in it yet
          pc,       \* what each process does next
          attempt,  \* 0 or 1: which pass through the loop
          owner     \* the pid a process read from a lock that exists

vars == <<lock, pc, attempt, owner>>

File(p, written) == [by |-> p, written |-> written]
NoFile           == File(Nobody, FALSE)

Init == /\ lock = NoFile
        /\ pc = [p \in Procs |-> "open"]
        /\ attempt = [p \in Procs |-> 0]
        /\ owner = [p \in Procs |-> Nobody]

\* The end of a process; "failed" is that of a command that could not write the
\* lock it had created, "dead" the end of one that did not choose it.
Ended == {"refused", "exited", "failed", "dead"}
Alive(p) == pc[p] \notin Ended

At(p, here) == pc[p] = here
Go(p, there) == pc' = [pc EXCEPT ![p] = there]

\* open(path, 'wx'): the file is created, or it exists already.
Open(p) ==
  /\ At(p, "open")
  /\ IF lock = NoFile THEN lock' = File(p, FALSE) /\ Go(p, "write")
     ELSE Go(p, "read") /\ UNCHANGED lock
  /\ UNCHANGED <<attempt, owner>>

\* The pid goes to the open file, which may have been unlinked meanwhile.
Write(p) ==
  /\ At(p, "write")
  /\ lock' = IF lock = File(p, FALSE) THEN File(p, TRUE) ELSE lock
  /\ Go(p, "holding")
  /\ UNCHANGED <<attempt, owner>>

\* The pid cannot be written: the command fails, and leaves the empty file.
WriteFails(p) ==
  /\ p \in CanCrash /\ At(p, "write")
  /\ Go(p, "failed")
  /\ UNCHANGED <<lock, attempt, owner>>

\* A file that is empty or gone again is "unreadable": the command is refused.
Read(p) ==
  /\ At(p, "read")
  /\ \/ lock.written /\ owner' = [owner EXCEPT ![p] = lock.by] /\ Go(p, "probe")
     \/ ~lock.written /\ UNCHANGED owner /\ Go(p, "refused")
  /\ UNCHANGED <<lock, attempt>>

\* Mutant: an owner that cannot be asked counts as dead.
ProbeAlwaysDead(p) ==
  /\ At(p, "probe")
  /\ Go(p, "reread")
  /\ UNCHANGED <<lock, attempt, owner>>

\* kill(pid, 0): only a demonstrably dead owner loses its lock.
Probe(p) ==
  /\ At(p, "probe")
  /\ Go(p, IF Alive(owner[p]) THEN "refused" ELSE "reread")
  /\ UNCHANGED <<lock, attempt, owner>>

\* The loop makes two passes.
Again(p) == IF attempt[p] = 0 THEN "open" ELSE "refused"

\* The second look at the file; it is refused again when it cannot be read.
Reread(p) ==
  /\ At(p, "reread")
  /\ \/ lock = File(owner[p], TRUE) /\ Go(p, "unlink") /\ UNCHANGED attempt
     \/ /\ lock.written /\ lock.by # owner[p]
        /\ Go(p, Again(p)) /\ attempt' = [attempt EXCEPT ![p] = 1]
     \/ ~lock.written /\ Go(p, "refused") /\ UNCHANGED attempt
  /\ UNCHANGED <<lock, owner>>

\* unlink removes whatever file has the name now; none at all is an error.
Unlink(p) ==
  /\ At(p, "unlink")
  /\ lock' = NoFile
  /\ IF lock = NoFile THEN Go(p, "refused") /\ UNCHANGED attempt
     ELSE Go(p, Again(p)) /\ attempt' = [attempt EXCEPT ![p] = 1]
  /\ UNCHANGED owner

\* The command is over: release reads the file ...
Finish(p) ==
  /\ At(p, "holding")
  /\ Go(p, IF lock = File(p, TRUE) THEN "release" ELSE "exited")
  /\ UNCHANGED <<lock, attempt, owner>>

\* ... and removes it.
Release(p) ==
  /\ At(p, "release")
  /\ lock' = NoFile
  /\ Go(p, "exited")
  /\ UNCHANGED <<attempt, owner>>

\* A process dies and leaves the file as it is.
Crash(p) ==
  /\ p \in CanCrash /\ Alive(p)
  /\ Go(p, "dead")
  /\ UNCHANGED <<lock, attempt, owner>>

Acquire(p) ==
  Open(p) \/ Write(p) \/ WriteFails(p) \/ Read(p) \/ Probe(p) \/ Reread(p) \/ Unlink(p)
Step(p)    == Acquire(p) \/ Finish(p) \/ Release(p)

Next == \E p \in Procs : Step(p) \/ Crash(p)

Spec == Init /\ [][Next]_vars

\* At most one process at a time is about to remove the lock of a dead owner.
Recovering(p) == pc[p] \in {"reread", "unlink"}
Sole == \A p, q \in Procs : Recovering(p) /\ Recovering(q) => p = q

\* Commands whose recoveries do not overlap.
SoleSpec == Init /\ [][Next /\ Sole']_vars

-----------------------------------------------------------------------------
(* Properties.                                                             *)

Points == {"open", "write", "read", "probe", "reread", "unlink", "holding", "release"} \cup Ended

TypeOK ==
  /\ lock \in [by : Procs, written : BOOLEAN] \cup {NoFile}
  /\ pc \in [Procs -> Points]
  /\ attempt \in [Procs -> {0, 1}]
  /\ owner \in [Procs -> Procs \cup {Nobody}]

\* Two commands that change the repository never run at the same time
\* (operation-lock.mjs: "Atomic, repository-wide mutation lock").  It holds
\* whoever dies, as long as recoveries do not overlap.
MutualExclusion ==
  \A p, q \in Procs : pc[p] = "holding" /\ pc[q] = "holding" => p = q

\* Every command ends, and only a process that died, or could not write it, leaves
\* a lock behind: one that a finished command leaves would refuse every later
\* command.
LockFreed == <>[](/\ \A p \in Procs : pc[p] \in Ended
                  /\ lock = NoFile \/ pc[lock.by] \in {"dead", "failed"})
=============================================================================
