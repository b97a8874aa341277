--------------------------- MODULE CommandRunProofs ---------------------------
(***************************************************************************)
(* Proofs about OperationLock and CommandRun, and with it about            *)
(* GateProcess, for any set of processes, whichever of them may die.       *)
(***************************************************************************)
EXTENDS CommandRun, TLAPS

-----------------------------------------------------------------------------
(* The operation lock.                                                     *)

\* Who may rely on the file, and what makes it right to remove it.
LockInv ==
  /\ \A p \in Procs : pc[p] = "write" => lock = File(p, FALSE)
  /\ \A p \in Procs : pc[p] \in {"holding", "release"} => lock = File(p, TRUE)
  /\ \A p \in Procs : pc[p] = "probe" => owner[p] \in Procs
  /\ \A p \in Procs : Recovering(p) => owner[p] \in Procs /\ ~Alive(owner[p])
  /\ \A p \in Procs : pc[p] = "unlink" => lock = File(owner[p], TRUE)

IInv == TypeOK /\ Sole /\ LockInv

\* Types are kept by every step, with no assumption about who dies.
THEOREM LockTypeCorrect == Spec => []TypeOK
<1>1. Init => TypeOK
  BY DEF Init, TypeOK, NoFile, File, Points, Ended
<1>2. TypeOK /\ [Next]_vars => TypeOK'
  <2> SUFFICES ASSUME TypeOK, [Next]_vars PROVE TypeOK'
    OBVIOUS
  <2> USE DEF TypeOK, NoFile, File, Points, Ended, At, Go
  <2>1. CASE UNCHANGED vars
    BY <2>1 DEF vars
  <2>2. ASSUME NEW p \in Procs, Open(p) PROVE TypeOK'
    <3>1. CASE lock = NoFile
      <4>1. lock' \in [by : Procs, written : BOOLEAN]
        <5>1. lock' = [by |-> p, written |-> FALSE]
          BY <2>2, <3>1 DEF Open
        <5> QED
          BY ONLY <5>1, p \in Procs
      <4>2. pc' \in [Procs -> Points] /\ UNCHANGED <<attempt, owner>>
        BY <2>2, <3>1 DEF Open
      <4> QED
        BY <4>1, <4>2
    <3>2. CASE lock # NoFile
      BY <2>2, <3>2 DEF Open
    <3> QED
      BY <3>1, <3>2
  <2>3. ASSUME NEW p \in Procs, Write(p) PROVE TypeOK'
    BY <2>3 DEF Write
  <2>4. ASSUME NEW p \in Procs, Read(p) PROVE TypeOK'
    BY <2>4, ProcsAssumption DEF Read
  <2>5. ASSUME NEW p \in Procs, Probe(p) PROVE TypeOK'
    BY <2>5 DEF Probe
  <2>6. ASSUME NEW p \in Procs, Reread(p) PROVE TypeOK'
    BY <2>6 DEF Reread, Again
  <2>7. ASSUME NEW p \in Procs, Unlink(p) PROVE TypeOK'
    BY <2>7 DEF Unlink, Again
  <2>8. ASSUME NEW p \in Procs, WriteFails(p) \/ Finish(p) \/ Release(p) \/ Crash(p)
        PROVE  TypeOK'
    BY <2>8 DEF WriteFails, Finish, Release, Crash
  <2> QED
    BY <2>1, <2>2, <2>3, <2>4, <2>5, <2>6, <2>7, <2>8 DEF Next, Step, Acquire
<1> QED
  BY <1>1, <1>2, PTL DEF Spec

\* A live owner keeps its file while recoveries do not overlap.
LEMMA LockInductive == IInv /\ [Next /\ Sole']_vars /\ TypeOK' => IInv'
<1> SUFFICES ASSUME IInv, [Next /\ Sole']_vars, TypeOK' PROVE LockInv' /\ Sole'
  BY DEF IInv
<1> USE DEF IInv, TypeOK, LockInv, NoFile, File, Points, Ended, At, Go, Alive, Recovering
<1>1. CASE UNCHANGED vars
  BY <1>1 DEF vars, Sole
<1>2. ASSUME Sole', NEW p \in Procs, Open(p) PROVE LockInv'
  BY <1>2, ProcsAssumption DEF Open
<1>3. ASSUME Sole', NEW p \in Procs, Write(p) PROVE LockInv'
  <2>1. lock = File(p, FALSE) /\ lock' = File(p, TRUE)
    BY <1>3 DEF Write
  <2>2. \A q \in Procs : q # p => pc'[q] = pc[q]
    BY <1>3 DEF Write
  <2>3. pc[p] = "write" /\ pc'[p] = "holding" /\ owner' = owner
    BY <1>3 DEF Write
  <2>4. \A q \in Procs : q # p => pc[q] \notin {"write", "holding", "release", "unlink"}
    BY <2>1
  <2>5. \A q \in Procs : Recovering(q)' => owner'[q] \in Procs /\ ~Alive(owner[q])'
    BY <2>2, <2>3
  <2> QED
    BY <2>1, <2>2, <2>3, <2>4, <2>5
<1>4. ASSUME Sole', NEW p \in Procs, Read(p) PROVE LockInv'
  BY <1>4, ProcsAssumption DEF Read
<1>5. ASSUME Sole', NEW p \in Procs, Probe(p) PROVE LockInv'
  BY <1>5 DEF Probe
<1>6. ASSUME Sole', NEW p \in Procs, Reread(p) PROVE LockInv'
  BY <1>6 DEF Reread, Again
\* The file that Unlink removes is that of the dead owner: no live process
\* has it, and nobody else is at the same point.
<1>7. ASSUME Sole', NEW p \in Procs, Unlink(p) PROVE LockInv'
  BY <1>7, ProcsAssumption DEF Unlink, Again, Sole
<1>8. ASSUME Sole', NEW p \in Procs, Finish(p) PROVE LockInv'
  BY <1>8 DEF Finish
<1>9. ASSUME Sole', NEW p \in Procs, Release(p) PROVE LockInv'
  BY <1>9, ProcsAssumption DEF Release
<1>10. ASSUME Sole', NEW p \in Procs, WriteFails(p) \/ Crash(p) PROVE LockInv'
  BY <1>10 DEF WriteFails, Crash
<1> QED
  BY <1>1, <1>2, <1>3, <1>4, <1>5, <1>6, <1>7, <1>8, <1>9, <1>10 DEF Next, Step, Acquire

\* At most one command changes the repository at a time, whichever processes
\* die holding the lock or fail to write it, if no two recoveries overlap.
THEOREM LockExcludes == SoleSpec => []MutualExclusion
<1>1. Init => IInv
  BY DEF Init, IInv, TypeOK, LockInv, Sole, Recovering, NoFile, File, Points, Ended
<1>2. SoleSpec => []TypeOK
  <2>1. [Next /\ Sole']_vars => [Next]_vars
    BY DEF vars
  <2> QED
    BY <2>1, LockTypeCorrect, PTL DEF Spec, SoleSpec
<1>3. IInv => MutualExclusion
  BY DEF IInv, LockInv, MutualExclusion, File
<1> QED
  BY <1>1, <1>2, <1>3, LockInductive, PTL DEF SoleSpec

\* Without deaths nobody ever gets to remove the file of another process.
NoDeathInv ==
  /\ TypeOK
  /\ \A p \in Procs : pc[p] = "write" => lock = File(p, FALSE)
  /\ \A p \in Procs : pc[p] \in {"holding", "release"} => lock = File(p, TRUE)
  /\ \A p \in Procs : lock.by = p => pc[p] \in {"write", "holding", "release"}
  /\ \A p \in Procs : pc[p] = "probe" => owner[p] \in Procs
  /\ \A p \in Procs : Recovering(p) => owner[p] \in Procs /\ ~Alive(owner[p])
  /\ \A p \in Procs : pc[p] # "unlink"

\* When no process dies and no lock fails to be written, commands exclude each other with no assumption about
\* how they overlap: the probe of an owner that ended meanwhile does no harm.
THEOREM LockExcludesTheLiving ==
  ASSUME CanCrash = {}
  PROVE  Spec => []MutualExclusion
<1>1. Init => NoDeathInv
  BY ProcsAssumption
  DEF Init, NoDeathInv, TypeOK, Recovering, NoFile, File, Points, Ended
<1>2. NoDeathInv /\ [Next]_vars /\ TypeOK' => NoDeathInv'
  <2> SUFFICES ASSUME NoDeathInv, [Next]_vars, TypeOK' PROVE NoDeathInv'
    OBVIOUS
  <2> USE DEF NoDeathInv, TypeOK, NoFile, File, Points, Ended, At, Go, Alive, Recovering
  <2>1. CASE UNCHANGED vars
    BY <2>1 DEF vars
  <2>2. ASSUME NEW p \in Procs, Open(p) PROVE NoDeathInv'
    <3>1. CASE lock = NoFile
      <4>1. \A q \in Procs : pc[q] \notin {"write", "holding", "release"}
        BY <3>1, ProcsAssumption
      <4>2. lock' = File(p, FALSE) /\ pc' = [pc EXCEPT ![p] = "write"] /\ owner' = owner
        BY <2>2, <3>1 DEF Open
      <4>3. pc[p] = "open"
        BY <2>2 DEF Open
      <4>4. \A q \in Procs : Recovering(q)' => owner'[q] \in Procs /\ ~Alive(owner[q])'
        BY <4>2, <4>3
      <4>5. \A q \in Procs : lock'.by = q => pc'[q] = "write"
        BY <4>2
      <4>6. \A q \in Procs : pc'[q] = "write" => q = p
        BY <4>1, <4>2
      <4>7. \A q \in Procs : pc'[q] \notin {"holding", "release", "unlink"}
        BY <4>1, <4>2
      <4>8. \A q \in Procs : pc'[q] = "probe" => owner'[q] \in Procs
        BY <4>2
      <4>9. \A q \in Procs : pc'[q] = "write" => lock' = File(q, FALSE)
        BY <4>2, <4>6
      <4> QED
        BY <4>4, <4>5, <4>7, <4>8, <4>9
    <3>2. CASE lock # NoFile
      BY <2>2, <3>2 DEF Open
    <3> QED
      BY <3>1, <3>2
  <2>3. ASSUME NEW p \in Procs, Write(p) PROVE NoDeathInv'
    <3>1. lock = File(p, FALSE) /\ lock' = File(p, TRUE)
      BY <2>3 DEF Write
    <3>2. pc[p] = "write" /\ pc' = [pc EXCEPT ![p] = "holding"] /\ owner' = owner
      BY <2>3 DEF Write
    <3>3. \A q \in Procs : q # p => pc[q] \notin {"write", "holding", "release"}
      BY <3>1
    <3>4. \A q \in Procs : pc'[q] \notin {"write", "release"}
                           /\ (pc'[q] = "holding" => q = p)
      BY <3>2, <3>3
    <3>5. \A q \in Procs : Recovering(q)' => owner'[q] \in Procs /\ ~Alive(owner[q])'
      BY <3>2
    <3>6. lock'.by = p /\ pc'[p] = "holding"
      BY <3>1, <3>2
    <3>7. \A q \in Procs : pc'[q] # "unlink" /\ (pc'[q] = "probe" => owner'[q] \in Procs)
      BY <3>2
    <3> QED
      BY <3>1, <3>4, <3>5, <3>6, <3>7
  <2>4. ASSUME NEW p \in Procs, Read(p) PROVE NoDeathInv'
    BY <2>4, ProcsAssumption DEF Read
  <2>5. ASSUME NEW p \in Procs, Probe(p) PROVE NoDeathInv'
    BY <2>5 DEF Probe
  <2>6. ASSUME NEW p \in Procs, Reread(p) PROVE NoDeathInv'
    <3>1. lock # File(owner[p], TRUE)
      BY <2>6 DEF Reread
    <3> QED
      BY <2>6, <3>1 DEF Reread, Again
  <2>7. ASSUME NEW p \in Procs, Unlink(p) PROVE NoDeathInv'
    BY <2>7 DEF Unlink
  <2>8. ASSUME NEW p \in Procs, Finish(p) PROVE NoDeathInv'
    BY <2>8 DEF Finish
  <2>9. ASSUME NEW p \in Procs, Release(p) PROVE NoDeathInv'
    <3>1. pc[p] = "release" /\ pc' = [pc EXCEPT ![p] = "exited"] /\ owner' = owner
      BY <2>9 DEF Release
    <3>2. lock = File(p, TRUE) /\ lock' = NoFile
      BY <2>9 DEF Release
    <3>3. \A q \in Procs : q # p => pc[q] \notin {"write", "holding", "release"}
      BY <3>2
    <3> QED
      BY <3>1, <3>2, <3>3, ProcsAssumption
  <2> QED
    BY <2>1, <2>2, <2>3, <2>4, <2>5, <2>6, <2>7, <2>8, <2>9
    DEF Next, Step, Acquire, Crash, WriteFails
<1>3. NoDeathInv => MutualExclusion
  BY DEF NoDeathInv, MutualExclusion, File
<1> QED
  BY <1>1, <1>2, <1>3, LockTypeCorrect, PTL DEF Spec

-----------------------------------------------------------------------------
(* One gate.                                                               *)

\* Before it is launched nothing has happened; the end of the child, noted while
\* the gate runs, was an end with the pipes drained; only the timeout arms what
\* gives up; and once it is settled no timer is left to say something else.
GateInv ==
  /\ G!GateTypeOK
  /\ phase = "idle" => shell = "none" /\ flags = {} /\ closed = {} /\ timers = {}
  /\ phase = "settled" => timers = {}
  /\ phase = "running" /\ "child" \in closed => G!Drained \/ "launchError" \in flags
  /\ "giveup" \in timers \/ "kill" \in timers \/ "forced" \in flags => "timedOut" \in flags
  /\ G!PassIsEarned

\* Settling in a state that satisfies the invariant makes no PASS up.
LEMMA SettleKeeps ==
  ASSUME GateInv, phase = "running",
         UNCHANGED <<shell, code, holders>>,
         closed' \subseteq G!Streams \cup {"child"},
         flags' \subseteq G!Streams \cup {"launchError", "timedOut", "forced"},
         "child" \in closed' => G!Drained \/ "launchError" \in flags',
         flags \subseteq flags',
         "forced" \in flags' => "timedOut" \in flags',
         G!Settle(closed', flags')
  PROVE  GateInv'
<1> USE DEF GateInv, G!GateTypeOK, G!Streams, G!Timers, G!Drained, G!NoCode
<1>1. status = "none"
  OBVIOUS
<1>2. CASE "forced" \in flags' \/ closed' = G!Streams \cup {"child"}
  <2>1. /\ phase' = "settled" /\ timers' = {}
        /\ status' = G!Verdict(IF "child" \in closed' THEN code ELSE G!NoCode, flags')
    BY <1>2 DEF G!Settle
  <2>2. status' \in {"PASS", "FAIL", "ERROR", "TIMEOUT"}
    BY <2>1 DEF G!Verdict
  <2>3. ASSUME status' = "PASS" PROVE G!PassIsEarned'
    <3>1. /\ "launchError" \notin flags' /\ "timedOut" \notin flags'
          /\ flags' \cap {"stdout", "stderr"} = {}
          /\ (IF "child" \in closed' THEN code ELSE G!NoCode) = 0
      BY <2>1, <2>3 DEF G!Verdict, G!WriteErrors
    <3>2. flags' = {}
      BY <3>1
    <3>3. "child" \in closed' /\ code = 0
      BY <3>1
    <3>4. closed' = G!Streams \cup {"child"}
      BY <1>2, <3>2
    <3> QED
      BY <3>2, <3>3, <3>4 DEF G!PassIsEarned
  <2>4. G!PassIsEarned'
    BY <2>3 DEF G!PassIsEarned
  <2> QED
    BY <2>1, <2>2, <2>4
<1>3. CASE ~("forced" \in flags' \/ closed' = G!Streams \cup {"child"})
  <2>1. UNCHANGED <<phase, timers, status>>
    BY <1>3 DEF G!Settle
  <2>2. G!PassIsEarned'
    BY <1>1, <2>1 DEF G!PassIsEarned
  <2> QED
    BY <2>1, <2>2
<1> QED
  BY <1>2, <1>3

\* Whatever the shell, the pipes, the artifacts and the timers do next.
LEMMA GateKeeps == GateInv /\ G!GateStep => GateInv'
<1> SUFFICES ASSUME GateInv, G!GateStep PROVE GateInv'
  OBVIOUS
<1> USE DEF G!Running
<1>1. CASE G!NeverLaunched
  BY <1>1 DEF G!NeverLaunched, GateInv, G!GateTypeOK, G!PassIsEarned, G!Drained
<1>2. CASE G!Spawn
  BY <1>2 DEF G!Spawn, GateInv, G!GateTypeOK, G!PassIsEarned, G!Drained, G!Timers
<1>3. CASE G!LaunchError
  BY <1>3 DEF G!LaunchError, GateInv, G!GateTypeOK, G!PassIsEarned, G!Drained
<1>4. CASE G!ShellEnds
  BY <1>4 DEF G!ShellEnds, GateInv, G!GateTypeOK, G!PassIsEarned, G!Drained
<1>5. CASE G!HoldersEnd
  BY <1>5 DEF G!HoldersEnd, GateInv, G!GateTypeOK, G!PassIsEarned, G!Drained
<1>6. CASE G!ChildClose
  BY <1>6, SettleKeeps DEF G!ChildClose, GateInv, G!GateTypeOK
<1>7. ASSUME NEW s \in G!Streams, G!StreamError(s) PROVE GateInv'
  <2>1. phase = "running" /\ status = "none"
    BY <1>7 DEF G!StreamError, GateInv, G!GateTypeOK
  <2> QED
    BY <1>7, <2>1
    DEF G!StreamError, GateInv, G!GateTypeOK, G!PassIsEarned, G!Drained, G!Streams
<1>8. ASSUME NEW s \in G!Streams, G!StreamClose(s) PROVE GateInv'
  <2>1. "child" \in closed' => "child" \in closed
    BY <1>8 DEF G!StreamClose, G!Streams
  <2> QED
    BY <1>8, <2>1, SettleKeeps DEF G!StreamClose, GateInv, G!GateTypeOK
<1>9. CASE G!Timeout
  <2>1. phase = "running" /\ status = "none"
    BY <1>9 DEF G!Timeout, GateInv, G!GateTypeOK
  <2> QED
    BY <1>9, <2>1 DEF G!Timeout, GateInv, G!GateTypeOK, G!PassIsEarned, G!Drained, G!Timers
<1>10. CASE G!Kill
  <2>1. phase = "running" /\ status = "none"
    BY <1>10 DEF G!Kill, GateInv, G!GateTypeOK
  <2>2. G!PassIsEarned'
    BY <1>10, <2>1 DEF G!Kill, G!PassIsEarned
  <2>3. /\ shell' \in {"none", "failed", "alive", "exited"}
        /\ code' \in {0, 1, G!NoCode} /\ holders' \in BOOLEAN
        /\ G!Drained => G!Drained'
    <3>1. /\ shell \in {"none", "failed", "alive", "exited"}
          /\ code \in {0, 1, G!NoCode} /\ holders \in BOOLEAN
      BY DEF GateInv, G!GateTypeOK
    <3>2. CASE /\ shell = "alive"
               /\ shell' = "exited" /\ code' = G!NoCode /\ holders' \in BOOLEAN
      BY <3>2 DEF G!Drained
    <3>3. CASE shell = "exited" /\ holders' = FALSE /\ UNCHANGED <<shell, code>>
      BY <3>1, <3>3 DEF G!Drained
    <3>4. CASE UNCHANGED <<shell, code, holders>>
      BY <3>1, <3>4 DEF G!Drained
    <3> QED
      BY <1>10, <3>2, <3>3, <3>4 DEF G!Kill
  <2>4. /\ timers' \subseteq timers
        /\ UNCHANGED <<phase, closed, flags, status>>
    BY <1>10 DEF G!Kill
  <2> QED
    BY <2>1, <2>2, <2>3, <2>4 DEF GateInv, G!GateTypeOK
<1>11. CASE G!GiveUp
  <2>1. phase = "running" /\ "timedOut" \in flags
    BY <1>11 DEF G!GiveUp, GateInv, G!GateTypeOK
  <2> QED
    BY <1>11, <2>1, SettleKeeps DEF G!GiveUp, GateInv, G!GateTypeOK
<1> QED
  BY <1>1, <1>2, <1>3, <1>4, <1>5, <1>6, <1>7, <1>8, <1>9, <1>10, <1>11
  DEF G!GateStep, G!Event, G!Clock

-----------------------------------------------------------------------------
(* The commands.                                                           *)

Acquiring == {"open", "write", "read", "probe", "reread", "unlink"}

\* Whose marker it can be: that of the execution that holds the lock, or that of
\* one that died.
MarkerInv ==
  /\ marker \in [by : Procs, written : BOOLEAN] \cup {NoFile}
  /\ work \in [Procs -> Works]
  /\ \A p \in Procs : pc[p] \in Acquiring => work[p] = "start"
  /\ marker # NoFile =>
       \/ pc[marker.by] = "dead"
       \/ /\ pc[marker.by] = "holding"
          /\ work[marker.by] \in {"mark", "gate", "beat", "report", "unmark"}
  /\ MarkerIsOwn

\* CommandRun implements OperationLock: the commands do nothing to the lock.
LEMMA RunIsLock == RunSpec => SoleSpec
<1>1. RunInit => Init
  BY DEF RunInit
<1>2. [RunNext /\ Sole']_runVars => [Next /\ Sole']_vars
  <2> SUFFICES ASSUME RunNext, Sole' PROVE [Next /\ Sole']_vars
    BY DEF runVars, vars
  <2>1. PICK p \in Procs : LockStep(p) \/ Execution(p) \/ Beat(p) \/ Gate(p)
                             \/ Return(p) \/ Die(p)
    BY DEF RunNext
  <2>2. CASE LockStep(p)
    BY <2>2 DEF LockStep, Next, Step
  <2>3. CASE Execution(p) \/ Beat(p) \/ Gate(p)
    BY <2>3 DEF Execution, Claim, NoClaim, WriteClaim, GateOver, ReleaseClaim, Beat, Gate
  <2>4. CASE Return(p) \/ Die(p)
    BY <2>4 DEF Return, Die, Next, Step
  <2> QED
    BY <2>1, <2>2, <2>3, <2>4
<1> QED
  BY <1>1, <1>2, PTL DEF RunSpec, SoleSpec

\* The lock keeps its types and excludes, under the commands.
LEMMA RunKeepsLock == RunSpec => [](TypeOK /\ MutualExclusion)
<1>1. SoleSpec => Spec
  <2>1. [Next /\ Sole']_vars => [Next]_vars
    OBVIOUS
  <2> QED
    BY <2>1, PTL DEF SoleSpec, Spec
<1> QED
  BY <1>1, RunIsLock, LockTypeCorrect, LockExcludes, PTL

\* What a step of the lock does to the program counters.
LEMMA LockStepMoves ==
  ASSUME TypeOK, NEW p \in Procs, Acquire(p) \/ Release(p)
  PROVE  /\ pc[p] \in Acquiring \cup {"release"}
         /\ \A q \in Procs : q # p => pc'[q] = pc[q]
         /\ pc'[p] \in Acquiring \cup {"holding", "refused", "failed", "exited"}
         /\ pc[p] = "release" => pc'[p] = "exited"
<1> USE DEF TypeOK, Acquiring, At, Go, Again
<1>1. CASE Open(p)
  BY <1>1 DEF Open
<1>2. CASE Write(p) \/ WriteFails(p)
  BY <1>2 DEF Write, WriteFails
<1>3. CASE Read(p)
  BY <1>3 DEF Read
<1>4. CASE Probe(p)
  BY <1>4 DEF Probe
<1>5. CASE Reread(p)
  BY <1>5 DEF Reread
<1>6. CASE Unlink(p)
  BY <1>6 DEF Unlink
<1>7. CASE Release(p)
  BY <1>7 DEF Release
<1> QED
  BY <1>1, <1>2, <1>3, <1>4, <1>5, <1>6, <1>7 DEF Acquire

\* No step takes the marker from the execution it belongs to.
LEMMA MarkerKeeps ==
  ASSUME TypeOK, MutualExclusion, MarkerInv, [RunNext]_runVars
  PROVE  MarkerInv'
<1> USE DEF File, NoFile
<1>1. CASE UNCHANGED runVars
  BY <1>1 DEF runVars, vars, MarkerInv, MarkerIsOwn
<1>2. ASSUME NEW p \in Procs, LockStep(p) PROVE MarkerInv'
  <2>1. UNCHANGED <<marker, work>> /\ (Acquire(p) \/ Release(p))
    BY <1>2 DEF LockStep
  <2>2. /\ pc[p] \in Acquiring \cup {"release"}
        /\ \A q \in Procs : q # p => pc'[q] = pc[q]
        /\ pc'[p] \in Acquiring \cup {"holding", "refused", "failed", "exited"}
        /\ pc[p] = "release" => pc'[p] = "exited"
    BY <2>1, LockStepMoves
  <2>3. marker # NoFile => marker.by \in Procs /\ marker.by # p
    BY <2>2 DEF MarkerInv, Acquiring
  <2>4. pc'[p] \in Acquiring \cup {"holding"} => work[p] = "start"
    BY <2>2 DEF MarkerInv, Acquiring
  <2> QED
    BY <2>1, <2>2, <2>3, <2>4 DEF MarkerInv, MarkerIsOwn
<1>3. ASSUME NEW p \in Procs, Return(p) \/ Die(p) PROVE MarkerInv'
  <2>1. UNCHANGED <<marker, work>>
    BY <1>3 DEF Return, Die
  <2>2. /\ \A q \in Procs : q # p => pc'[q] = pc[q]
        /\ pc'[p] \in {"release", "exited", "dead"}
        /\ pc'[p] # "dead" => pc[p] = "holding" /\ work[p] \in {"over", "refused"}
    BY <1>3 DEF Return, Die, Finish, Crash, At, Go, TypeOK
  <2>3. marker # NoFile => marker.by \in Procs
    BY DEF MarkerInv
  <2> QED
    BY <2>1, <2>2, <2>3 DEF MarkerInv, MarkerIsOwn, Acquiring
<1>4. ASSUME NEW p \in Procs, Claim(p) \/ NoClaim(p) \/ GateOver(p) PROVE MarkerInv'
  <2>1. /\ UNCHANGED <<marker, pc>> /\ pc[p] = "holding"
        /\ \A q \in Procs : q # p => work'[q] = work[q]
        /\ work'[p] \in {"refused", "mark", "over", "report"}
        /\ work' \in [Procs -> Works]
        /\ work[p] \in {"start", "gate"}
        /\ work[p] = "gate" => work'[p] = "report"
    BY <1>4 DEF Claim, NoClaim, GateOver, During, Then, vars, MarkerInv, Works
  <2>2. marker # NoFile => marker.by \in Procs
    BY DEF MarkerInv
  <2> QED
    BY <2>1, <2>2 DEF MarkerInv, MarkerIsOwn, Acquiring
<1>5. ASSUME NEW p \in Procs, Gate(p) PROVE MarkerInv'
  BY <1>5 DEF Gate, vars, MarkerInv, MarkerIsOwn
<1>6. ASSUME NEW p \in Procs, NEW from \in {"mark", "beat", "report"}, NEW to \in {"gate", "unmark"},
             WriteClaim(p, from, to)
      PROVE  MarkerInv'
  <2>1. /\ pc' = pc /\ pc[p] = "holding" /\ work[p] = from
        /\ \A q \in Procs : q # p => work'[q] = work[q]
        /\ work' \in [Procs -> Works]
        /\ \/ work'[p] = to /\ marker' = File(p, TRUE)
           \/ work'[p] = from /\ marker' = File(p, FALSE)
    BY <1>6 DEF WriteClaim, During, Then, vars, MarkerInv, Works
  <2>2. \A q \in Procs : pc[q] = "holding" => q = p
    BY <2>1 DEF MutualExclusion
  <2>3. marker' \in [by : Procs, written : BOOLEAN] /\ marker'.by = p
    <3>1. \A b \in BOOLEAN :
            /\ [by |-> p, written |-> b] \in [by : Procs, written : BOOLEAN]
            /\ [by |-> p, written |-> b].by = p
      BY ONLY p \in Procs
    <3> QED
      BY <2>1, <3>1
  <2>4. \A q \in Procs : pc'[q] \in Acquiring => work'[q] = "start"
    BY <2>1 DEF MarkerInv, Acquiring
  <2>5. MarkerIsOwn'
    BY <2>1, <2>2 DEF MarkerIsOwn
  <2> QED
    BY <2>1, <2>3, <2>4, <2>5 DEF MarkerInv
<1>7. ASSUME NEW p \in Procs, ReleaseClaim(p) PROVE MarkerInv'
  <2>1. /\ pc' = pc /\ pc[p] = "holding" /\ marker' = NoFile
        /\ work' = [work EXCEPT ![p] = "over"]
    BY <1>7 DEF ReleaseClaim, During, Then, vars
  <2>2. \A q \in Procs : pc[q] = "holding" => q = p
    BY <2>1 DEF MutualExclusion
  <2>3. /\ work' \in [Procs -> Works]
        /\ \A q \in Procs : pc'[q] \in Acquiring => work'[q] = "start"
    BY <2>1 DEF MarkerInv, Acquiring, Works
  <2>4. MarkerIsOwn'
    BY <2>1, <2>2 DEF MarkerIsOwn, MarkerInv
  <2> QED
    BY <2>1, <2>3, <2>4 DEF MarkerInv
<1>8. ASSUME NEW p \in Procs, Beat(p) PROVE MarkerInv'
  <2>1. /\ pc' = pc /\ pc[p] = "holding" /\ work' = [work EXCEPT ![p] = "beat"]
        /\ marker' = File(p, FALSE)
    BY <1>8 DEF Beat, During, Then, vars
  <2>2. \A q \in Procs : pc[q] = "holding" => q = p
    BY <2>1 DEF MutualExclusion
  <2>3. marker' \in [by : Procs, written : BOOLEAN] /\ marker'.by = p
    <3>1. /\ [by |-> p, written |-> FALSE] \in [by : Procs, written : BOOLEAN]
          /\ [by |-> p, written |-> FALSE].by = p
      BY ONLY p \in Procs
    <3> QED
      BY <2>1, <3>1
  <2>4. work' \in [Procs -> Works] /\ work'[p] = "beat"
    BY <2>1 DEF MarkerInv, Works
  <2>5. \A q \in Procs : pc'[q] \in Acquiring => work'[q] = "start"
    BY <2>1 DEF MarkerInv, Acquiring
  <2>6. MarkerIsOwn'
    BY <2>1, <2>2, <2>4 DEF MarkerIsOwn
  <2> QED
    BY <2>1, <2>3, <2>4, <2>5, <2>6 DEF MarkerInv
<1> QED
  BY <1>1, <1>2, <1>3, <1>4, <1>5, <1>6, <1>7, <1>8 DEF RunNext, Execution

-----------------------------------------------------------------------------
(* Theorems.                                                               *)

LEMMA MarkerHolds == RunSpec => [](TypeOK /\ MutualExclusion /\ MarkerInv)
<1>1. RunInit => MarkerInv
  BY DEF RunInit, Init, MarkerInv, MarkerIsOwn, Works, Acquiring, NoFile
<1>2. TypeOK /\ MutualExclusion /\ MarkerInv /\ [RunNext]_runVars => MarkerInv'
  BY MarkerKeeps
<1>3. [RunNext /\ Sole']_runVars => [RunNext]_runVars
  OBVIOUS
<1> QED
  BY <1>1, <1>2, <1>3, RunKeepsLock, PTL DEF RunSpec

LEMMA GateHolds == RunSpec => []GateInv
<1>1. RunInit => GateInv
  BY DEF RunInit, G!IdleGate, GateInv, G!GateTypeOK, G!PassIsEarned, G!Drained,
         G!Timers, G!Streams, G!NoCode
<1>2. GateInv /\ [RunNext]_runVars => GateInv'
  <2> SUFFICES ASSUME GateInv, [RunNext]_runVars PROVE GateInv'
    OBVIOUS
  <2>1. CASE UNCHANGED gateVars
    BY <2>1 DEF gateVars, GateInv, G!GateTypeOK, G!PassIsEarned, G!Drained
  <2>2. CASE G!Forget
    BY <2>2 DEF G!Forget, GateInv, G!GateTypeOK, G!PassIsEarned, G!Drained,
                G!Timers, G!Streams, G!NoCode
  <2>3. CASE G!GateStep
    BY <2>3, GateKeeps
  <2>4. CASE UNCHANGED runVars
    BY <2>1, <2>4 DEF runVars
  <2>5. ASSUME NEW p \in Procs,
               LockStep(p) \/ Execution(p) \/ Beat(p) \/ Gate(p) \/ Return(p) \/ Die(p)
        PROVE  UNCHANGED gateVars \/ G!Forget \/ G!GateStep
    <3>1. CASE LockStep(p) \/ Beat(p) \/ Gate(p) \/ Return(p) \/ Die(p)
      BY <3>1 DEF LockStep, Beat, Gate, Return, Die
    <3>2. CASE Execution(p)
      BY <3>2 DEF Execution, Claim, NoClaim, WriteClaim, GateOver, ReleaseClaim
    <3> QED
      BY <2>5, <3>1, <3>2
  <2> QED
    BY <2>1, <2>2, <2>3, <2>4, <2>5 DEF RunNext
<1>3. [RunNext /\ Sole']_runVars => [RunNext]_runVars
  OBVIOUS
<1> QED
  BY <1>1, <1>2, <1>3, PTL DEF RunSpec

\* The lock, the marker, the commands and the gate keep their types, and a gate
\* has a verdict when it is settled and not before.
THEOREM RunTypeCorrect == RunSpec => []RunTypeOK
<1>1. TypeOK /\ MarkerInv /\ GateInv => RunTypeOK
  BY DEF MarkerInv, GateInv, RunTypeOK
<1> QED
  BY <1>1, MarkerHolds, GateHolds, PTL

\* Whatever the order in which the shell ends, pipes and artifacts close and
\* timers fire, PASS is said only of a gate that exited with 0 in time and whose
\* output is complete on disk.
THEOREM NoPassMadeUp == RunSpec => []PassIsEarned
<1>1. GateInv => PassIsEarned
  BY DEF GateInv, PassIsEarned
<1> QED
  BY <1>1, GateHolds, PTL

\* No execution overwrites the marker of another one, whoever dies, although
\* start and execute-plan write it without a look at the one that is there.
THEOREM MarkersAreOwn == RunSpec => []MarkerIsOwn
<1>1. MarkerInv => MarkerIsOwn
  BY DEF MarkerInv
<1> QED
  BY <1>1, MarkerHolds, PTL

\* Only a marker that a death tore makes a command refuse: the holder of one that
\* is whole is dead, as the lock excludes the living.
THEOREM TornMarkersOnly == RunSpec => OnlyTornRefuses
<1> DEFINE Torn == \A p \in Procs : work'[p] = "refused" /\ work[p] # "refused"
                                   => marker # NoFile /\ ~marker.written
<1>1. TypeOK /\ MutualExclusion /\ MarkerInv /\ [RunNext]_runVars => [Torn]_runVars
  <2> SUFFICES ASSUME TypeOK, MutualExclusion, MarkerInv, RunNext,
                      NEW q \in Procs, work'[q] = "refused", work[q] # "refused"
               PROVE  marker # NoFile /\ ~marker.written
    OBVIOUS
  <2>1. PICK p \in Procs : LockStep(p) \/ Execution(p) \/ Beat(p) \/ Gate(p)
                             \/ Return(p) \/ Die(p)
    BY DEF RunNext
  <2>2. work' # work
    OBVIOUS
  <2>3. Claim(p)
    <3>1. ~(LockStep(p) \/ Gate(p) \/ Return(p) \/ Die(p))
      BY <2>2 DEF LockStep, Gate, Return, Die
    <3>2. work \in [Procs -> Works]
      BY DEF MarkerInv
    <3>3. ~(NoClaim(p) \/ Beat(p) \/ GateOver(p) \/ ReleaseClaim(p))
      BY <3>2 DEF NoClaim, Beat, GateOver, ReleaseClaim, Then
    <3>4. ~(WriteClaim(p, "mark", "gate") \/ WriteClaim(p, "beat", "gate")
             \/ WriteClaim(p, "report", "unmark"))
      BY <3>2 DEF WriteClaim, Then
    <3> QED
      BY <2>1, <3>1, <3>3, <3>4 DEF Execution
  <2>4. pc[p] = "holding" /\ \E fresh \in BOOLEAN : Blocks(p, fresh)
    <3>1. work \in [Procs -> Works]
      BY DEF MarkerInv
    <3> QED
      BY <2>3, <3>1 DEF Claim, During, Then
  <2>5. marker # NoFile
    BY <2>4 DEF Blocks
  <2>6. marker.by \in Procs
    BY <2>5 DEF MarkerInv
  <2>7. marker.written => marker.by # p /\ Alive(marker.by)
    BY <2>4 DEF Blocks
  <2>8. Alive(marker.by) => marker.by = p
    BY <2>4, <2>5, <2>6 DEF MarkerInv, MutualExclusion, Alive, Ended
  <2> QED
    BY <2>5, <2>7, <2>8
<1>2. [RunNext /\ Sole']_runVars => [RunNext]_runVars
  OBVIOUS
<1>3. RunSpec => [][Torn]_runVars
  BY <1>1, <1>2, MarkerHolds, PTL DEF RunSpec
<1> QED
  BY <1>3 DEF OnlyTornRefuses
=============================================================================
