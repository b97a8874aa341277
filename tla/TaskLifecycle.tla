---------------------------- MODULE TaskLifecycle ----------------------------
(***************************************************************************)
(* One Task driven by loopctl: the loop of execute (loop/orchestrator), the*)
(* stages it shares with the commands run, gate, verify and retry          *)
(* (stages), the Triage, and what a person does around them.               *)
(*                                                                         *)
(* The files are status (the Task file), tree (everything else that git    *)
(* sees) and runs (the run directories); they survive a crash.  pc, exec   *)
(* and stop belong to the process that holds the operation lock, so there  *)
(* is at most one.  AI processes, gate commands and the user are the       *)
(* environment: their outcomes are chosen from sets.                       *)
(***************************************************************************)
EXTENDS Transitions, Recovery

CONSTANTS
  WorkerOutcomes,    \* pairs [w, req] a worker call can end with
  GateOutcomes,      \* pairs [res, det] a gate suite can end with
  VerifierOutcomes,  \* pairs [res, det] a verifier call can end with
  ReadOnlyEnforced,  \* does mode 0444 stop the runtime's own writes?
  CallsCanFail,      \* adapter missing, budget spent, interrupt, snapshot error
  OperatorTargets,   \* states a person sets with the transition command
  CrashPoints,       \* values of pc at which the process may die
  MaxEdits, MaxPauses, MaxCrashes, MaxOps    \* bounds of the environment

Idle   == "idle"
Stages == {"loop", "snapshot", "worker", "requested", "gate", "verify", "verdict",
           "triage", "apply"}
RunActs   == {"FIRST", "RETRY", "RETRY_WITH_HINT", "RETRY_WITH_TRIAGE"}
Decisions == {"UNBLOCK", "RERUN_GATES", "RERUN_VERIFIER", "RETRY_WITH_LESSON", "REPLAN"}

ASSUME EnvironmentAssumption ==
  /\ WorkerOutcomes \subseteq
       [w : {"exit0", "exit1", "signal", "timeout", "launch", "policy"},
        req : {"REVIEW", "BLOCKED", "none", "invalid"}]
  /\ GateOutcomes \subseteq
       [res : {"PASS", "FAIL", "TIMEOUT", "ERROR"}, det : Details \cup {"none"}]
  /\ VerifierOutcomes \subseteq
       [res : {"PASS", "FAIL", "policy", "launch", "timeout", "exit1", "signal", "schema"},
        det : Details \cup {"none"}]
  /\ {ReadOnlyEnforced, CallsCanFail} \subseteq BOOLEAN
  /\ OperatorTargets \subseteq States /\ CrashPoints \subseteq Stages
  /\ {MaxEdits, MaxPauses, MaxCrashes, MaxOps} \subseteq Nat

VARIABLES
  status, tree, runs,  \* the repository and .loop-local/runs
  triage,              \* recorded triage decisions: all, retries, replans
  paused,              \* does .loop-local/PAUSE exist?
  pc,                  \* what the runtime process is doing, or Idle
  exec,                \* memory of that process
  stop,                \* how the last one ended
  edits, pauses, crashes, ops   \* what the environment has used of its bounds

repo == <<status, tree, runs, triage>>
env  == <<paused, edits, pauses, crashes, ops>>
vars == <<repo, pc, exec, stop, env>>

(* single: a command other than execute; ack: resume --rerun-gates;        *)
(* ticks, reruns: transitions and recoveryRuns of executeTask; run, act,   *)
(* subj, menu: what the current stage works on.                            *)
NoExec == [single |-> FALSE, ack |-> FALSE, ticks |-> 0, reruns |-> 0, run |-> 0,
           act |-> "FIRST", subj |-> NoSubject, menu |-> {}]

Current == Subject(tree, status)

\* Mutant: half of the limit.
loopGuardLimitLow == MaxAttempts * 3
loopGuardLimit == MaxAttempts * 6 + 10

Init ==
  /\ status = "TODO" /\ tree \in Trees /\ runs = <<>>
  /\ triage = [n |-> 0, retries |-> 0, replans |-> 0]
  /\ paused = FALSE /\ pc = Idle /\ exec = NoExec /\ stop = "none"
  /\ edits = 0 /\ pauses = 0 /\ crashes = 0 /\ ops = 0

-----------------------------------------------------------------------------
(* How a step hands over to the next one.                                  *)

\* Mutant: the table is not consulted.
writeStatusUnchecked(to) == status' = to

writeStatus(to) == /\ CheckTransition(status, to)
                   /\ status' = to

Stop(why) == /\ pc' = Idle /\ exec' = NoExec /\ stop' = why

Goto(stage, e) == /\ pc' = stage /\ exec' = e /\ UNCHANGED stop

\* A finished stage: execute loops, a single command is over.
Return == IF exec.single THEN Stop("COMMAND_DONE")
          ELSE Goto("loop", [exec EXCEPT !.run = 0, !.act = "FIRST", !.subj = NoSubject])

Tick(n) == [exec EXCEPT !.ticks = @ + n]

\* The files of run i of rs, with an earlier report moved to its history.
GatesArchived(rs, i) ==
  [rs EXCEPT ![i] = [@ EXCEPT !.gate = NoGate, !.gateDebris = FALSE]]
VerificationArchived(rs, i) ==
  [rs EXCEPT ![i] = [@ EXCEPT !.ver = NoVer, !.verDebris = FALSE, !.verHistory = TRUE]]

(***************************************************************************)
(* stageGate on the files rs: refused, stopped by the read-only files of a *)
(* suite that died before its report (only a report makes --rerun archive),*)
(* or started on the current subject.                                      *)
(***************************************************************************)
stageGate(rs, i, rerun, e) ==
  LET archive == rerun /\ rs[i].gate.res # "none"
      ready   == IF archive THEN GatesArchived(rs, i) ELSE rs
  IN  IF ~GateEligible(rs[i], status) THEN runs' = rs /\ Stop("GATE_NOT_ELIGIBLE")
      ELSE /\ runs' = ready
           /\ IF ready[i].gateDebris /\ ReadOnlyEnforced THEN Stop("GATE_SUITE_THREW")
              ELSE Goto("gate", [e EXCEPT !.run = i, !.subj = Current])

\* stageVerify likewise; the snapshot of the verifier is written read-only.
stageVerify(rs, i, rerun, e) ==
  LET archive == rerun /\ rs[i].ver.res # "none"
      ready   == IF archive THEN VerificationArchived(rs, i) ELSE rs
  IN  IF ~checkVerifierEligibility(rs[i], status, Current)
      THEN runs' = rs /\ Stop("VERIFIER_NOT_ELIGIBLE")
      ELSE /\ runs' = ready
           /\ \/ /\ ready[i].verDebris /\ ReadOnlyEnforced
                 /\ Stop("VERIFIER_LAUNCH_FAILED")
              \/ CallsCanFail /\ Stop("VERIFIER_LAUNCH_FAILED")
              \/ /\ ~(ready[i].verDebris /\ ReadOnlyEnforced)
                 /\ Goto("verify", [e EXCEPT !.run = i, !.subj = Current])

\* The status write with which an attempt begins; its snapshot comes next.
BeginAttempt(i, act, e) ==
  /\ IF status = "IN_PROGRESS" THEN UNCHANGED status ELSE writeStatus("IN_PROGRESS")
  /\ Goto("snapshot", [e EXCEPT !.run = i, !.act = act])

\* startRetryAttempt: it diagnoses again, then checks PAUSE and the budget.
startRetryAttempt(i, withLesson, e) ==
  LET rs == Diagnose(runs, i, Current)
      d  == computeDiagnosis(runs[i], Current)
  IN  /\ runs' = rs
      /\ IF ~paused /\ checkRetryEligibility(rs, i, status, d, withLesson)
         THEN BeginAttempt(i, IF withLesson THEN "RETRY_WITH_TRIAGE" ELSE d.action, e)
         ELSE Stop("RETRY_REFUSED") /\ UNCHANGED status

-----------------------------------------------------------------------------
(* The loop of executeTask.                                                *)

\* cmdExecute, or cmdResume when ack (it needs a completed run).
Execute(ack) ==
  /\ pc = Idle /\ ~paused /\ status # "DROPPED"
  /\ ack => LatestCompleted(runs) # 0
  /\ pc' = "loop" /\ exec' = [NoExec EXCEPT !.ack = ack] /\ stop' = "none"
  /\ UNCHANGED <<repo, env>>

NextAction == resolveNextAction(runs, status, Current, exec.ack)

\* Mutant: the guard is not consulted.
IterationUnguarded == pc = "loop"

\* Every iteration re-reads the disk.
Iteration == pc = "loop" /\ exec.ticks < loopGuardLimit
Step(act) == Iteration /\ ~paused /\ NextAction = act

\* Resolving the next action may write a diagnosis, whatever follows.
Diagnosed == Resolved(runs, status, Current)

GuardStop == /\ pc = "loop" /\ exec.ticks >= loopGuardLimit
             /\ Stop("RUNTIME_LOOP_GUARD_EXCEEDED")
             /\ UNCHANGED <<repo, env>>

\* A usage budget, an interrupt or a deadline ends the loop anywhere; so does PAUSE.
OperatorStop == /\ Iteration /\ (paused \/ CallsCanFail)
                /\ Stop("OPERATOR_STOP")
                /\ runs' = Diagnosed
                /\ UNCHANGED <<status, tree, triage, env>>

Terminal == {"DONE", "STOP_REFUSED"} \cup TRIAGE_STOPS

Menu == triageMenu(runs, status, Current, NextAction, triage)

\* Mutant: the decisions used are not counted against the limit.
TriageUsefulAlways == /\ TriageOn /\ NextAction \in TRIAGE_STOPS
                      /\ LatestCompleted(runs) # 0 /\ Menu # {}

\* There is something a Triage may choose, and a run to keep its record in.
TriageUseful == /\ TriageOn /\ NextAction \in TRIAGE_STOPS
                /\ LatestCompleted(runs) # 0
                /\ triage.n < TriageMax /\ Menu # {}

StopStep == /\ Iteration /\ ~paused /\ NextAction \in Terminal /\ ~TriageUseful
            /\ Stop(NextAction)
            /\ runs' = Diagnosed
            /\ UNCHANGED <<status, tree, triage, env>>

AskTriage == /\ Iteration /\ ~paused /\ TriageUseful
             /\ Goto("triage", [exec EXCEPT !.run = LatestCompleted(runs),
                                            !.subj = Current, !.menu = Menu])
             /\ runs' = Diagnosed
             /\ UNCHANGED <<status, tree, triage, env>>

ApplyResult == /\ Step("APPLY_WORKER_RESULT")
               /\ writeStatus(runs[LatestCompleted(runs)].env.req)
               /\ Goto("loop", Tick(1))
               /\ UNCHANGED <<tree, runs, triage, env>>

RecoverDone == /\ Step("RECOVER_DONE")
               /\ writeStatus("DONE")
               /\ Goto("loop", Tick(1))
               /\ UNCHANGED <<tree, runs, triage, env>>

RunWorker == /\ Step("RUN_WORKER")
             /\ BeginAttempt(0, "FIRST", Tick(1))
             /\ UNCHANGED <<tree, runs, triage, env>>

\* A retry that starts counts two transitions.
RetryWorker == /\ Step("RETRY_WORKER")
               /\ startRetryAttempt(LatestCompleted(runs), FALSE, Tick(2))
               /\ UNCHANGED <<tree, triage, env>>

RunGates == /\ Step("RUN_GATES")
            /\ stageGate(runs, LatestCompleted(runs), FALSE, Tick(1))
            /\ UNCHANGED <<status, tree, triage, env>>

\* One automatic rerun per execution; a second one means the tree keeps moving.
RerunGates == /\ Step("RERUN_GATES")
              /\ IF exec.reruns >= 1 THEN Stop("UNSTABLE_SUBJECT") /\ UNCHANGED runs
                 ELSE stageGate(runs, LatestCompleted(runs), TRUE,
                                [Tick(1) EXCEPT !.reruns = @ + 1])
              /\ UNCHANGED <<status, tree, triage, env>>

\* completeGateOnly: a PASS report without a verifier, then the DONE write.
CompleteGates ==
  LET i == LatestCompleted(runs)
  IN  /\ Step("COMPLETE_GATES")
      /\ runs' = [runs EXCEPT ![i] = [@ EXCEPT !.ver =
                   [res |-> "PASS", det |-> "none", stable |-> TRUE, method |-> "gate-only",
                    subj |-> Current, gateSubj |-> runs[i].gate.subj]]]
      /\ Goto("verdict", [Tick(1) EXCEPT !.run = i])
      /\ UNCHANGED <<status, tree, triage, env>>

\* rerun holds when the recovery policy repeats a broken verifier once.
RunVerifier ==
  LET i == LatestCompleted(runs)
  IN  /\ Step("RUN_VERIFIER")
      /\ stageVerify(Diagnosed, i, ReportFailed(runs[i]), Tick(1))
      /\ UNCHANGED <<status, tree, triage, env>>

-----------------------------------------------------------------------------
(* The stages.                                                             *)

\* One more than the highest attempt so far; a first attempt is always 1.
AttemptNumber(n) ==
  IF exec.act = "FIRST" THEN n = 1
  ELSE \E k \in DOMAIN runs : /\ \A j \in DOMAIN runs : runs[j].attempt <= runs[k].attempt
                              /\ n = runs[k].attempt + 1

\* Mutant: the lineage names the new run as its own parent.
SnapshotOwnParent ==
  /\ pc = "snapshot"
  /\ \E n \in 1..(Len(runs) + 1) :
       /\ AttemptNumber(n)
       /\ runs' = Append(runs, NewRun(n, exec.act, Len(runs) + 1))
  /\ Goto("worker", [exec EXCEPT !.run = Len(runs) + 1])
  /\ UNCHANGED <<status, tree, triage, env>>

Snapshot ==
  /\ pc = "snapshot"
  /\ \E n \in 1..(Len(runs) + 1) :
       /\ AttemptNumber(n)
       /\ runs' = Append(runs, NewRun(n, exec.act, exec.run))
  /\ Goto("worker", [exec EXCEPT !.run = Len(runs) + 1])
  /\ UNCHANGED <<status, tree, triage, env>>

SnapshotFails ==
  /\ pc = "snapshot" /\ CallsCanFail
  /\ Stop(IF exec.act = "FIRST" THEN "WORKER_NOT_DISPATCHABLE" ELSE "RETRY_REFUSED")
  /\ UNCHANGED <<repo, env>>

\* The call throws before the worker starts: no envelope, and the loop goes on.
WorkerUnavailable == /\ pc = "worker" /\ CallsCanFail
                     /\ Return
                     /\ UNCHANGED <<repo, env>>

\* The worker leaves any tree; its request is applied only if nothing failed.
WorkerFinish ==
  /\ pc = "worker"
  /\ \E o \in WorkerOutcomes, t \in Trees :
       /\ tree' = t
       /\ runs' = [runs EXCEPT ![exec.run] = [@ EXCEPT !.env =
                     [w |-> o.w, req |-> o.req, subj |-> Subject(t, status)]]]
       /\ IF o.w = "exit0" /\ o.req \in WORKER_REQUESTABLE
          THEN Goto("requested", exec) ELSE Return
  /\ UNCHANGED <<status, triage, env>>

ApplyRequested == /\ pc = "requested"
                  /\ writeStatus(runs[exec.run].env.req)
                  /\ Return
                  /\ UNCHANGED <<tree, runs, triage, env>>

\* The report is bound to the subject computed before the first gate ran.
GateFinish ==
  /\ pc = "gate"
  /\ \E o \in GateOutcomes :
       runs' = [runs EXCEPT ![exec.run] = [@ EXCEPT !.gateDebris = FALSE,
                  !.gate = [res |-> o.res, det |-> o.det, subj |-> exec.subj]]]
  /\ Return
  /\ UNCHANGED <<status, tree, triage, env>>

\* The verdict holds for one tree only: before and after must be the same.
VerifyFinish ==
  /\ pc = "verify"
  /\ \E o \in VerifierOutcomes :
       LET stable == exec.subj = Current
       IN  /\ runs' = [runs EXCEPT ![exec.run] = [@ EXCEPT !.verDebris = FALSE,
                         !.ver = [res |-> o.res, det |-> o.det, stable |-> stable,
                                  method |-> "verifier", subj |-> exec.subj,
                                  gateSubj |-> runs[exec.run].gate.subj]]]
           /\ IF o.res = "PASS" /\ stable THEN Goto("verdict", exec) ELSE Return
  /\ UNCHANGED <<status, tree, triage, env>>

\* The report is on disk; the DONE write is a second file.
WriteDone == /\ pc = "verdict"
             /\ writeStatus("DONE")
             /\ Return
             /\ UNCHANGED <<tree, runs, triage, env>>

-----------------------------------------------------------------------------
(* The Triage, and applyTriageDecision.                                    *)

\* Mutant: the loop goes on after a call that could not be made.
TriageUnavailableRetried == /\ pc = "triage" /\ CallsCanFail
                            /\ Goto("loop", exec)
                            /\ UNCHANGED <<repo, env>>

\* No call could be made, so nothing is recorded.
TriageUnavailable == /\ pc = "triage" /\ CallsCanFail
                     /\ Stop("ESCALATED")
                     /\ UNCHANGED <<repo, env>>

\* It escalates, or its answer is unusable; either way the decision counts.
Escalate == /\ pc = "triage"
            /\ triage' = [triage EXCEPT !.n = @ + 1]
            /\ Stop("ESCALATED")
            /\ UNCHANGED <<status, tree, runs, env>>

\* A choice counts only if nothing in the repository moved during the call.
Decide(d) ==
  /\ pc = "triage" /\ d \in exec.menu /\ exec.subj = Current
  /\ triage' = [n       |-> triage.n + 1,
                retries |-> triage.retries + (IF d = "RETRY_WITH_LESSON" THEN 1 ELSE 0),
                replans |-> triage.replans + (IF d = "REPLAN" THEN 1 ELSE 0)]
  /\ Goto("apply", [exec EXCEPT !.act = d, !.menu = {}, !.subj = NoSubject])
  /\ UNCHANGED <<status, tree, runs, env>>

Applying(d) == pc = "apply" /\ exec.act = d

\* The old verdict is archived first, whether or not the gates may run.
TriageRerunGates ==
  LET i  == exec.run
      rs == IF runs[i].ver.res # "none" THEN VerificationArchived(runs, i) ELSE runs
  IN  /\ Applying("RERUN_GATES")
      /\ stageGate(rs, i, TRUE, Tick(1))
      /\ UNCHANGED <<status, tree, triage, env>>

TriageRerunVerifier == /\ Applying("RERUN_VERIFIER")
                       /\ stageVerify(runs, exec.run, TRUE, Tick(1))
                       /\ UNCHANGED <<status, tree, triage, env>>

TriageRetry == /\ Applying("RETRY_WITH_LESSON")
               /\ startRetryAttempt(exec.run, TRUE, Tick(1))
               /\ UNCHANGED <<tree, triage, env>>

TriageUnblock == /\ Applying("UNBLOCK")
                 /\ writeStatus("TODO")
                 /\ Goto("loop", [Tick(1) EXCEPT !.run = 0, !.act = "FIRST"])
                 /\ UNCHANGED <<tree, runs, triage, env>>

TriageReplan == /\ Applying("REPLAN")
                /\ Stop("TRIAGE_REPLAN")
                /\ UNCHANGED <<repo, env>>

-----------------------------------------------------------------------------
(* The environment: the user at a prompt, the working tree, and crashes.   *)

Command == pc = Idle /\ ops < MaxOps /\ ops' = ops + 1
Single  == [NoExec EXCEPT !.single = TRUE]

CmdRun == /\ Command /\ ~paused /\ status = "TODO"
          /\ BeginAttempt(0, "FIRST", Single)
          /\ UNCHANGED <<tree, runs, triage, paused, edits, pauses, crashes>>

CmdRetry(i) == /\ Command
               /\ startRetryAttempt(i, FALSE, Single)
               /\ UNCHANGED <<tree, triage, paused, edits, pauses, crashes>>

\* Refused without effect when not eligible, or for a second report without --rerun.
CmdGate(i, rerun) ==
  /\ Command /\ GateEligible(runs[i], status)
  /\ rerun \/ runs[i].gate.res = "none"
  /\ stageGate(runs, i, rerun, Single)
  /\ UNCHANGED <<status, tree, triage, paused, edits, pauses, crashes>>

CmdVerify(i, rerun) ==
  /\ Command /\ checkVerifierEligibility(runs[i], status, Current)
  /\ rerun \/ runs[i].ver.res = "none"
  /\ stageVerify(runs, i, rerun, Single)
  /\ UNCHANGED <<status, tree, triage, paused, edits, pauses, crashes>>

CmdTransition(to) == /\ Command /\ to \in OperatorTargets
                     /\ writeStatus(to)
                     /\ UNCHANGED <<tree, runs, triage, pc, exec, stop,
                                    paused, edits, pauses, crashes>>

\* snapshot makes a run directory that no worker will ever complete.
CmdSnapshot == /\ Command
               /\ runs' = Append(runs, NewRun(1, "FIRST", 0))
               /\ UNCHANGED <<status, tree, triage, pc, exec, stop,
                              paused, edits, pauses, crashes>>

\* diagnose takes no operation lock: it may write while another command runs.
CmdDiagnose(i) == /\ ops < MaxOps /\ ops' = ops + 1
                  /\ runs' = Diagnose(runs, i, Current)
                  /\ UNCHANGED <<status, tree, triage, pc, exec, stop,
                                 paused, edits, pauses, crashes>>

TogglePause == /\ pauses < MaxPauses /\ pauses' = pauses + 1
               /\ paused' = ~paused
               /\ UNCHANGED <<repo, pc, exec, stop, edits, crashes, ops>>

\* Somebody, or a process a gate left behind, changes the working tree.
Edit == /\ edits < MaxEdits /\ edits' = edits + 1
        /\ tree' \in Trees \ {tree}
        /\ UNCHANGED <<status, runs, triage, pc, exec, stop, paused, pauses, crashes, ops>>

\* The process dies.  A suite or a verifier call leaves read-only files behind
\* when it had already frozen some of them.
Crash ==
  /\ pc \in CrashPoints /\ crashes < MaxCrashes /\ crashes' = crashes + 1
  /\ Stop("CRASHED")
  /\ \/ UNCHANGED runs
     \/ pc = "gate" /\ runs' = [runs EXCEPT ![exec.run] = [@ EXCEPT !.gateDebris = TRUE]]
     \/ pc = "verify" /\ runs' = [runs EXCEPT ![exec.run] = [@ EXCEPT !.verDebris = TRUE]]
  /\ UNCHANGED <<status, tree, triage, paused, edits, pauses, ops>>

-----------------------------------------------------------------------------
LoopStep == \/ GuardStop \/ OperatorStop \/ StopStep \/ AskTriage
            \/ ApplyResult \/ RecoverDone \/ RunWorker \/ RetryWorker
            \/ RunGates \/ RerunGates \/ CompleteGates \/ RunVerifier

StageStep == \/ Snapshot \/ SnapshotFails \/ WorkerUnavailable \/ WorkerFinish
             \/ ApplyRequested \/ GateFinish \/ VerifyFinish \/ WriteDone

TriageStep == \/ TriageUnavailable \/ Escalate
              \/ \E d \in Decisions : Decide(d)
              \/ TriageRerunGates \/ TriageRerunVerifier \/ TriageRetry
              \/ TriageUnblock \/ TriageReplan

\* What the runtime process does once it is started.
Runtime == LoopStep \/ StageStep \/ TriageStep

Commands == \/ \E ack \in BOOLEAN : Execute(ack)
            \/ CmdRun \/ CmdSnapshot
            \/ \E to \in States : CmdTransition(to)
            \/ \E i \in DOMAIN runs :
                 \/ CmdRetry(i) \/ CmdDiagnose(i)
                 \/ \E rerun \in BOOLEAN : CmdGate(i, rerun) \/ CmdVerify(i, rerun)

Next == Runtime \/ Commands \/ TogglePause \/ Edit \/ Crash

Spec == Init /\ [][Next]_vars

\* A started process keeps running: AI calls and gates have timeouts.
FairSpec == Spec /\ WF_vars(Runtime)

\* The user runs execute again whenever it has ended.
ResumeSpec == FairSpec /\ WF_vars(Execute(FALSE))

-----------------------------------------------------------------------------
(* Properties.                                                             *)

Subjects == [tree : Trees, status : States] \cup {NoSubject}
Findings == {"none", "PROCESS_CRASH", "TIMEOUT", "SCHEMA_FAILURE", "GATE_FAILURE",
             "VERIFY_FAILED", "PERMISSION_DENIED", "POLICY_VIOLATION",
             "STALE_VERIFICATION_SUBJECT", "RECOVERY_AMBIGUOUS"}
Kinds == {"none", "policy", "launch", "timeout", "exit1", "no-envelope", "schema",
          "error", "fail", "stale"}

Envs  == [w : {"none", "exit0", "exit1", "signal", "timeout", "launch", "policy"},
          req : {"REVIEW", "BLOCKED", "none", "invalid"}, subj : Subjects]
Gates == [res : {"none", "PASS", "FAIL", "TIMEOUT", "ERROR"}, det : Details \cup {"none"},
          subj : Subjects]
Vers  == [res : {"none", "PASS", "FAIL", "policy", "launch", "timeout", "exit1", "signal",
                 "schema"},
          det : Details \cup {"none"}, stable : BOOLEAN,
          method : {"none", "verifier", "gate-only"}, subj : Subjects, gateSubj : Subjects]
Diags == [stage : {"none", "worker", "gate", "verifier"}, class : Findings \cup {"unread"},
          kind : Kinds, det : Details \cup {"none"}]
Runs  == [attempt : Nat \ {0}, act : RunActs, parent : Nat,
          env : Envs, gate : Gates, ver : Vers, diag : Diags,
          gateDebris : BOOLEAN, verDebris : BOOLEAN, verHistory : BOOLEAN]
Execs == [single : BOOLEAN, ack : BOOLEAN, ticks : Nat, reruns : Nat, run : Nat,
          act : RunActs \cup Decisions, subj : Subjects, menu : SUBSET Decisions]

StopReasons == Terminal \cup
  {"none", "COMMAND_DONE", "CRASHED", "OPERATOR_STOP", "RUNTIME_LOOP_GUARD_EXCEEDED",
   "WORKER_NOT_DISPATCHABLE", "RETRY_REFUSED", "GATE_NOT_ELIGIBLE", "GATE_SUITE_THREW",
   "UNSTABLE_SUBJECT", "VERIFIER_NOT_ELIGIBLE", "VERIFIER_LAUNCH_FAILED", "ESCALATED",
   "TRIAGE_REPLAN"}

RunsOK(rs) == rs \in Seq(Runs) /\ \A i \in DOMAIN rs : rs[i].parent < i

\* The state stays in its types, and every run refers to an earlier one.
TypeOK ==
  /\ status \in States /\ tree \in Trees
  /\ RunsOK(runs)
  /\ triage \in [n : Nat, retries : Nat, replans : Nat]
  /\ paused \in BOOLEAN
  /\ pc \in Stages \cup {Idle}
  /\ exec \in Execs
  /\ stop \in StopReasons
  /\ {edits, pauses, crashes, ops} \subseteq Nat

\* A run's verification report is PASS for one tree: the one its gates passed on.
Evidence(r) == ReportPassed(r) /\ r.ver.subj = r.ver.gateSubj /\ r.ver.subj.status = "REVIEW"

\* DONE rests on a PASS report of some run (README "DONE 전이": no other way),
\* whatever crashed, was rerun, or was typed by hand before.
EvidencedDone == status = "DONE" => \E i \in DOMAIN runs : Evidence(runs[i])

\* Without manual commands the evidence is that of the newest completed attempt,
\* and its gate report still is the PASS that the verdict was built on.
DoneByLatest ==
  status = "DONE" => LET r == runs[LatestCompleted(runs)]
                     IN  Evidence(r) /\ GatePassed(r) /\ r.gate.subj = r.ver.subj

\* The retries of a Task never exceed the ladder of limits.yaml, whichever
\* command, loop or triage started them and however often the process died.
RetryBudget ==
  /\ Launched(runs, "RETRY") <= RetryMax
  /\ Launched(runs, "RETRY_WITH_HINT") <= HintMax
  /\ Launched(runs, "RETRY_WITH_TRIAGE") <= TriageRetryMax
  /\ \A i \in DOMAIN runs : runs[i].act \in {"RETRY", "RETRY_WITH_HINT"} =>
                              runs[i].attempt <= MaxAttempts

\* Paid worker calls of a Task driven by execute alone are bounded by its limits,
\* across any number of executions: one, the retries, and one for each UNBLOCK.
WorkersBounded == Len(runs) <= 1 + RetryMax + HintMax + TriageMax

\* The guard of executeTask is a last line of defence: under the limits of
\* limits.yaml every execution stops for a reason of its own first.
GuardNeverNeeded == stop # "RUNTIME_LOOP_GUARD_EXCEEDED"

\* With limits so generous that they do not stop the loop, the guard does: no
\* execution changes the Task more often, though a retry counts two at once.
TicksBounded == exec.ticks <= loopGuardLimit + 1

\* While a stage runs, nobody moved the Task out of the state the stage needs.
StageStatus ==
  /\ pc \in {"snapshot", "worker", "requested"} => status = "IN_PROGRESS"
  /\ pc \in {"gate", "verify", "verdict"} => status = "REVIEW"

Passed(rs) == \E i \in DOMAIN rs : ReportPassed(rs[i])

\* The loop never pays again for a Task that has a PASS report, nor drops it.
PassIsFinal == [][Passed(runs) => /\ Passed(runs')
                                  /\ Len(runs') = Len(runs)
                                  /\ pc' \notin {"worker", "gate", "verify"}]_vars

\* The detailed state machine keeps what TaskPromise says of the Task file.
Promise == INSTANCE TaskPromise WITH passed <- Passed(runs)
KeepsPromise == Promise!Spec

\* Every execution comes to a stop, whatever the AI, the gates and the tree do.
ExecutionStops == (pc # Idle) ~> (pc = Idle)

\* A crash outside a worker attempt costs nothing but a repetition: running
\* execute again takes a Task whose worker, gates and verifier succeed to DONE.
\* It holds for a user whom mode 0444 does not stop; otherwise the read-only
\* files of an interrupted gate suite or verifier call keep it from restarting.
EventuallyDone == <>(status = "DONE")

(* What the documentation says and the code does not keep.                 *)

\* next-action.mjs applies a saved request because "a crash can happen after
\* the envelope is saved but before applying": that is the newest attempt's.
AppliesNewest ==
  [][(pc = "loop" /\ status = "IN_PROGRESS" /\ status' # status)
       => LatestCompleted(runs) = Len(runs)]_vars
=============================================================================
