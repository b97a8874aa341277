------------------------- MODULE TaskLifecycleProofs -------------------------
(***************************************************************************)
(* Type correctness of TaskLifecycle for every value of its constants.     *)
(* TypeOK alone is not inductive: a stage writes to the run it holds, so   *)
(* TypeInv adds AtHand, which says that this run exists.  One lemma per    *)
(* helper that a step ends with, then one per group of steps.              *)
(***************************************************************************)
EXTENDS TaskLifecycle, RecoveryProofs

\* A run rewritten within its type, with the same parent, keeps the files in
\* theirs.
LEMMA ReplaceRun ==
  ASSUME NEW rs, RunsOK(rs), NEW i \in DOMAIN rs, NEW r \in Runs, r.parent = rs[i].parent
  PROVE  /\ RunsOK([rs EXCEPT ![i] = r])
         /\ DOMAIN [rs EXCEPT ![i] = r] = DOMAIN rs
         /\ Len([rs EXCEPT ![i] = r]) = Len(rs)
         /\ \A j \in DOMAIN rs : [rs EXCEPT ![i] = r][j] = IF j = i THEN r ELSE rs[j]
<1>1. rs \in Seq(Runs) /\ i \in 1..Len(rs) /\ DOMAIN rs = 1..Len(rs)
  BY LenProperties DEF RunsOK
<1>2. [rs EXCEPT ![i] = r] \in Seq(Runs) /\ Len([rs EXCEPT ![i] = r]) = Len(rs)
  BY <1>1, ExceptSeq
<1>3. \A j \in DOMAIN rs : [rs EXCEPT ![i] = r][j] = IF j = i THEN r ELSE rs[j]
  OBVIOUS
<1> QED
  BY <1>1, <1>2, <1>3 DEF RunsOK

\* What the failure classifier can report.
LEMMA FindingTypes ==
  ASSUME NEW r \in Runs
  PROVE  FurthestFailure(r) \in
           [stage : {"none", "worker", "gate", "verifier"}, class : Findings,
            action : {"NO_ACTION", "NEEDS_HUMAN", "RETRY", "RETRY_WITH_HINT", "RERUN_GATES"},
            kind : Kinds, det : Details \cup {"none"}]
<1> USE DEF Finding, Findings, Kinds
<1> DEFINE F == [stage : {"none", "worker", "gate", "verifier"}, class : Findings,
            action : {"NO_ACTION", "NEEDS_HUMAN", "RETRY", "RETRY_WITH_HINT", "RERUN_GATES"},
            kind : Kinds, det : Details \cup {"none"}]
<1>0. r.gate.det \in Details \cup {"none"} /\ r.ver.det \in Details \cup {"none"}
  BY DEF Runs, Gates, Vers
<1>1. NoFinding \in F
  BY DEF NoFinding
<1>2. diagnoseWorker(r) \in F
  BY <1>1 DEF diagnoseWorker
<1>3. diagnoseGate(r) \in F
  BY <1>0, <1>1 DEF diagnoseGate
<1>4. diagnoseVerifier(r) \in F
  BY <1>0, <1>1 DEF diagnoseVerifier
<1> QED
  BY <1>2, <1>3, <1>4 DEF FurthestFailure

\* A diagnosis is one of the findings, and so is its fingerprint on disk.
LEMMA DiagnosisTypes ==
  ASSUME NEW r \in Runs, NEW c
  PROVE  /\ Fingerprint(computeDiagnosis(r, c)) \in Diags
         /\ computeDiagnosis(r, c).action \in
              {"NO_ACTION", "NEEDS_HUMAN", "RETRY", "RETRY_WITH_HINT", "RERUN_GATES"}
BY FindingTypes DEF computeDiagnosis, Fingerprint, Diags, Findings

\* A diagnosis keeps the files in their types and changes nothing but itself.
LEMMA DiagnoseType ==
  ASSUME NEW rs, RunsOK(rs), NEW i \in DOMAIN rs, NEW c
  PROVE  /\ RunsOK(Diagnose(rs, i, c))
         /\ DOMAIN Diagnose(rs, i, c) = DOMAIN rs
         /\ Len(Diagnose(rs, i, c)) = Len(rs)
         /\ \A j \in DOMAIN rs : /\ Diagnose(rs, i, c)[j].env = rs[j].env
                                 /\ Diagnose(rs, i, c)[j].gate = rs[j].gate
                                 /\ Diagnose(rs, i, c)[j].ver = rs[j].ver
                                 /\ Diagnose(rs, i, c)[j].act = rs[j].act
                                 /\ Diagnose(rs, i, c)[j].attempt = rs[j].attempt
<1> DEFINE f == Fingerprint(computeDiagnosis(rs[i], c))
           r == [rs[i] EXCEPT !.diag = f]
<1>1. rs[i] \in Runs
  BY LenProperties, ElementOfSeq DEF RunsOK
<1>2. f \in Diags
  BY <1>1, DiagnosisTypes
<1>3. /\ r \in Runs /\ r.parent = rs[i].parent
      /\ r.env = rs[i].env /\ r.gate = rs[i].gate /\ r.ver = rs[i].ver
      /\ r.act = rs[i].act /\ r.attempt = rs[i].attempt
  <2> HIDE DEF f
  <2> QED
    BY <1>1, <1>2 DEF Runs
<1>4. Diagnose(rs, i, c) = [rs EXCEPT ![i] = r]
  BY DEF Diagnose
<1> HIDE DEF r
<1>5. /\ RunsOK([rs EXCEPT ![i] = r])
      /\ DOMAIN [rs EXCEPT ![i] = r] = DOMAIN rs
      /\ Len([rs EXCEPT ![i] = r]) = Len(rs)
      /\ \A j \in DOMAIN rs : [rs EXCEPT ![i] = r][j] = IF j = i THEN r ELSE rs[j]
  BY <1>3, ReplaceRun
<1> QED
  BY ONLY <1>3, <1>4, <1>5

\* The run a stage works on exists, and a new run's parent is an earlier one.
AtHand ==
  /\ pc \in {"worker", "requested", "gate", "verify", "verdict", "triage", "apply"}
       => exec.run \in DOMAIN runs
  /\ pc = "snapshot" => exec.run \in 0..Len(runs) /\ exec.act \in RunActs

TypeInv == TypeOK /\ AtHand

\* What every step that touches the process leaves behind.
HandedOver == pc' \in Stages \cup {Idle} /\ exec' \in Execs /\ stop' \in StopReasons /\ AtHand'

\* The current verification subject is a subject.
LEMMA CurrentType == ASSUME TypeOK PROVE Current \in Subjects
BY DEF TypeOK, Current, Subject, Subjects

\* The memory every process starts with.
LEMMA NoExecType == NoExec \in Execs /\ Single \in Execs
BY DEF NoExec, Single, Execs, NoSubject, Subject, Subjects, RunActs

\* A stage that stops leaves the process in its types.
LEMMA StopHandsOver ==
  ASSUME NEW why \in StopReasons, Stop(why)
  PROVE  HandedOver
BY NoExecType DEF HandedOver, Stop, AtHand, Stages, Idle

\* So does one that goes on to a stage whose run exists.
LEMMA GotoHandsOver ==
  ASSUME TypeOK, NEW stage \in Stages \ {"snapshot"}, NEW e \in Execs, Goto(stage, e),
         stage = "loop" \/ e.run \in DOMAIN runs'
  PROVE  HandedOver
BY DEF Goto, HandedOver, AtHand, TypeOK

\* So does a finished one.
LEMMA ReturnHandsOver ==
  ASSUME TypeOK, Return
  PROVE  HandedOver
<1>1. CASE exec.single
  BY <1>1, StopHandsOver DEF StopReasons, Return
<1>2. CASE ~exec.single
  <2>1. /\ pc' = "loop" /\ stop' = stop
        /\ exec' = [exec EXCEPT !.run = 0, !.act = "FIRST", !.subj = NoSubject]
    BY <1>2 DEF Return, Goto
  <2>2. exec' \in Execs
    BY <2>1 DEF TypeOK, Execs, NoSubject, Subject, Subjects, RunActs
  <2> QED
    BY <2>1, <2>2 DEF HandedOver, AtHand, Stages, TypeOK
<1> QED
  BY <1>1, <1>2

\* Counting transitions keeps the memory in its type.
LEMMA TickType == ASSUME TypeOK, NEW n \in Nat PROVE Tick(n) \in Execs
BY DEF TypeOK, Tick, Execs

\* Archiving an earlier report keeps the files in their types.
LEMMA ArchivedTypes ==
  ASSUME NEW rs, RunsOK(rs), NEW i \in DOMAIN rs
  PROVE  /\ RunsOK(GatesArchived(rs, i)) /\ Len(GatesArchived(rs, i)) = Len(rs)
         /\ RunsOK(VerificationArchived(rs, i)) /\ Len(VerificationArchived(rs, i)) = Len(rs)
<1>1. rs[i] \in Runs
  BY LenProperties, ElementOfSeq DEF RunsOK
<1>2. NoGate \in Gates /\ NoVer \in Vers
  BY DEF NoGate, NoVer, Gates, Vers, NoSubject, Subject, Subjects
<1> DEFINE g == [rs[i] EXCEPT !.gate = NoGate, !.gateDebris = FALSE]
           v == [rs[i] EXCEPT !.ver = NoVer, !.verDebris = FALSE, !.verHistory = TRUE]
<1>3. g \in Runs /\ g.parent = rs[i].parent /\ v \in Runs /\ v.parent = rs[i].parent
  BY <1>1, <1>2 DEF Runs
<1>4. GatesArchived(rs, i) = [rs EXCEPT ![i] = g]
  BY DEF GatesArchived
<1>5. VerificationArchived(rs, i) = [rs EXCEPT ![i] = v]
  BY DEF VerificationArchived
<1> HIDE DEF g, v
<1>6. RunsOK([rs EXCEPT ![i] = g]) /\ Len([rs EXCEPT ![i] = g]) = Len(rs)
  BY <1>3, ReplaceRun
<1>7. RunsOK([rs EXCEPT ![i] = v]) /\ Len([rs EXCEPT ![i] = v]) = Len(rs)
  BY <1>3, ReplaceRun
<1> QED
  BY ONLY <1>4, <1>5, <1>6, <1>7

\* Starting the gates keeps every type, also when an old report is archived.
LEMMA GateTypes ==
  ASSUME TypeOK, NEW rs, RunsOK(rs), NEW i \in DOMAIN rs, NEW rerun \in BOOLEAN,
         NEW e \in Execs, stageGate(rs, i, rerun, e)
  PROVE  RunsOK(runs') /\ Len(runs') = Len(rs) /\ HandedOver
<1> DEFINE ready == IF rerun /\ rs[i].gate.res # "none" THEN GatesArchived(rs, i) ELSE rs
<1>1. RunsOK(ready) /\ Len(ready) = Len(rs)
  BY ArchivedTypes
<1>2. CASE ~GateEligible(rs[i], status)
  BY <1>2, StopHandsOver DEF StopReasons, stageGate
<1>3. CASE GateEligible(rs[i], status)
  <2>1. runs' = ready
    BY <1>3 DEF stageGate
  <2>2. HandedOver
    <3>1. CASE ready[i].gateDebris /\ ReadOnlyEnforced
      BY <1>3, <3>1, StopHandsOver DEF StopReasons, stageGate
    <3>2. CASE ~(ready[i].gateDebris /\ ReadOnlyEnforced)
      <4>1. Goto("gate", [e EXCEPT !.run = i, !.subj = Current])
        BY <1>3, <3>2 DEF stageGate
      <4>2. i \in Nat /\ i \in DOMAIN runs'
        BY <1>1, <2>1, LenProperties DEF RunsOK
      <4>3. [e EXCEPT !.run = i, !.subj = Current] \in Execs
        BY <4>2, CurrentType DEF Execs
      <4>4. [e EXCEPT !.run = i, !.subj = Current].run = i
        BY DEF Execs
      <4> QED
        BY <4>1, <4>2, <4>3, <4>4, GotoHandsOver DEF Stages
    <3> QED
      BY <3>1, <3>2
  <2> QED
    BY <1>1, <2>1, <2>2
<1> QED
  BY <1>2, <1>3

\* Starting the verifier does too.
LEMMA VerifyTypes ==
  ASSUME TypeOK, NEW rs, RunsOK(rs), NEW i \in DOMAIN rs, NEW rerun \in BOOLEAN,
         NEW e \in Execs, stageVerify(rs, i, rerun, e)
  PROVE  RunsOK(runs') /\ Len(runs') = Len(rs) /\ HandedOver
<1> DEFINE ready == IF rerun /\ rs[i].ver.res # "none" THEN VerificationArchived(rs, i) ELSE rs
<1>1. RunsOK(ready) /\ Len(ready) = Len(rs)
  BY ArchivedTypes
<1>2. CASE ~checkVerifierEligibility(rs[i], status, Current)
  BY <1>2, StopHandsOver DEF StopReasons, stageVerify
<1>3. CASE checkVerifierEligibility(rs[i], status, Current)
  <2>1. runs' = ready
    BY <1>3 DEF stageVerify
  <2>2. \/ Stop("VERIFIER_LAUNCH_FAILED")
        \/ Goto("verify", [e EXCEPT !.run = i, !.subj = Current])
    BY <1>3 DEF stageVerify
  <2>3. i \in Nat /\ i \in DOMAIN runs'
    BY <1>1, <2>1, LenProperties DEF RunsOK
  <2>4. [e EXCEPT !.run = i, !.subj = Current] \in Execs
    BY <2>3, CurrentType DEF Execs
  <2>5. [e EXCEPT !.run = i, !.subj = Current].run = i
    BY DEF Execs
  <2>6. Goto("verify", [e EXCEPT !.run = i, !.subj = Current]) => HandedOver
    BY <2>3, <2>4, <2>5, GotoHandsOver DEF Stages
  <2> QED
    BY <1>1, <2>1, <2>2, <2>6, StopHandsOver DEF StopReasons
<1> QED
  BY <1>2, <1>3

\* Beginning an attempt sets a legal status and remembers a legal act.
LEMMA BeginTypes ==
  ASSUME TypeOK, NEW i \in 0..Len(runs'), NEW act \in RunActs, NEW e \in Execs,
         BeginAttempt(i, act, e), RunsOK(runs')
  PROVE  status' \in States /\ HandedOver
<1>1. status' \in States
  <2>1. status' = status \/ status' = "IN_PROGRESS"
    BY DEF BeginAttempt, writeStatus
  <2>2. status \in States
    BY DEF TypeOK
  <2> QED
    BY ONLY <2>1, <2>2 DEF States
<1> DEFINE f == [e EXCEPT !.run = i, !.act = act]
<1>2. pc' = "snapshot" /\ exec' = f /\ stop' = stop
  BY DEF BeginAttempt, Goto
<1>3. i \in Nat
  <2>1. Len(runs') \in Nat
    BY LenProperties DEF RunsOK
  <2> QED
    BY <2>1
<1>4. f \in Execs /\ f.run = i /\ f.act = act
  BY ONLY <1>3, act \in RunActs, e \in Execs DEF Execs
<1> HIDE DEF f
<1> QED
  BY <1>1, <1>2, <1>4 DEF HandedOver, AtHand, Stages, TypeOK

\* A retry that begins, or is refused, keeps every type.
LEMMA RetryTypes ==
  ASSUME TypeOK, NEW i \in DOMAIN runs, NEW withLesson \in BOOLEAN, NEW e \in Execs,
         startRetryAttempt(i, withLesson, e)
  PROVE  status' \in States /\ RunsOK(runs') /\ Len(runs') = Len(runs) /\ HandedOver
<1> DEFINE d  == computeDiagnosis(runs[i], Current)
           ok == ~paused /\ checkRetryEligibility(Diagnose(runs, i, Current), i, status, d, withLesson)
           act == IF withLesson THEN "RETRY_WITH_TRIAGE" ELSE d.action
<1>1. runs' = Diagnose(runs, i, Current)
  BY DEF startRetryAttempt
<1>2. RunsOK(runs') /\ Len(runs') = Len(runs) /\ i \in 0..Len(runs')
  <2>1. RunsOK(Diagnose(runs, i, Current)) /\ Len(Diagnose(runs, i, Current)) = Len(runs)
    BY DiagnoseType DEF TypeOK
  <2>2. i \in 1..Len(runs) /\ Len(runs) \in Nat
    BY LenProperties DEF TypeOK, RunsOK
  <2> QED
    BY <1>1, <2>1, <2>2
<1>3. CASE ok
  <2>1. BeginAttempt(i, act, e)
    BY <1>3 DEF startRetryAttempt
  <2>2. act \in RunActs
    BY <1>3 DEF checkRetryEligibility, RETRYABLE_ACTIONS, RunActs
  <2> HIDE DEF act, ok, d
  <2> QED
    BY <1>2, <2>1, <2>2, BeginTypes
<1>4. CASE ~ok
  <2>1. Stop("RETRY_REFUSED") /\ status' = status
    BY <1>4 DEF startRetryAttempt
  <2> QED
    BY <1>2, <2>1, StopHandsOver DEF StopReasons, TypeOK
<1> QED
  BY <1>3, <1>4

\* The diagnosis that resolving the next action may write keeps the files in
\* their types.
LEMMA ResolvedTypes ==
  ASSUME TypeOK
  PROVE  RunsOK(Diagnosed) /\ Len(Diagnosed) = Len(runs)
<1> DEFINE i == LatestCompleted(runs)
<1>1. runs \in Seq(Runs)
  BY DEF TypeOK, RunsOK
<1>2. i = 0 \/ i \in DOMAIN runs
  BY <1>1, LatestCompletedIsARun
<1>3. Diagnosed = runs \/ (i \in DOMAIN runs /\ Diagnosed = Diagnose(runs, i, Current))
  BY <1>2 DEF Diagnosed, Resolved
<1> HIDE DEF i
<1> QED
  BY <1>3, DiagnoseType DEF TypeOK

\* A step that keeps the parts of TypeOK keeps TypeInv.
LEMMA Assembled ==
  ASSUME TypeOK, status' \in States, tree' \in Trees, RunsOK(runs'), HandedOver,
         triage' \in [n : Nat, retries : Nat, replans : Nat], UNCHANGED env
  PROVE  TypeInv'
BY DEF TypeOK, HandedOver, TypeInv, env

\* Which run the loop works on.
LEMMA LoopRun ==
  ASSUME TypeOK,
         NextAction \in {"RETRY_WORKER", "APPLY_WORKER_RESULT", "RECOVER_DONE", "RUN_GATES",
                        "RERUN_GATES", "COMPLETE_GATES", "RUN_VERIFIER"}
  PROVE  LatestCompleted(runs) \in DOMAIN runs
<1>1. LatestCompleted(runs) # 0
  BY NextActionMeans DEF NextAction, TypeOK, States
<1>2. runs \in Seq(Runs)
  BY DEF TypeOK, RunsOK
<1> QED
  BY <1>1, <1>2, LatestCompletedIsARun

\* The Triage is offered decisions only.
LEMMA MenuType == Menu \subseteq Decisions
BY DEF Menu, triageMenu, Decisions

\* Every step of the loop of executeTask keeps the types.
LEMMA LoopTypes == ASSUME TypeInv, LoopStep PROVE TypeInv'
<1> USE DEF TypeInv
<1>0. /\ RunsOK(runs) /\ status \in States /\ tree' = tree /\ tree' \in Trees /\ UNCHANGED env
      /\ triage' = triage /\ triage' \in [n : Nat, retries : Nat, replans : Nat]
      /\ exec \in Execs
  BY DEF TypeOK, LoopStep, GuardStop, OperatorStop, StopStep, AskTriage, ApplyResult, RecoverDone,
         RunWorker, RetryWorker, RunGates, RerunGates, CompleteGates, RunVerifier, repo
<1>1. CASE GuardStop
  BY <1>0, <1>1, StopHandsOver, Assembled DEF GuardStop, repo, StopReasons
<1>2. CASE OperatorStop
  BY <1>0, <1>2, StopHandsOver, ResolvedTypes, Assembled DEF OperatorStop, StopReasons
<1>3. CASE StopStep
  <2>1. NextAction \in StopReasons /\ Stop(NextAction) /\ runs' = Diagnosed /\ status' = status
    BY <1>3 DEF StopStep, StopReasons
  <2> QED
    BY <1>0, <2>1, StopHandsOver, ResolvedTypes, Assembled
<1>4. CASE AskTriage
  <2> DEFINE i == LatestCompleted(runs)
             e == [exec EXCEPT !.run = i, !.subj = Current, !.menu = Menu]
  <2>1. Goto("triage", e) /\ runs' = Diagnosed /\ status' = status /\ i # 0
    BY <1>4 DEF AskTriage, TriageUseful
  <2>2. i \in DOMAIN runs
    BY <2>1, LatestCompletedIsARun DEF TypeOK, RunsOK
  <2>3. RunsOK(Diagnosed) /\ Len(Diagnosed) = Len(runs)
    BY ResolvedTypes
  <2>4. i \in DOMAIN runs' /\ i \in Nat
    BY <1>0, <2>1, <2>2, <2>3, LenProperties DEF RunsOK
  <2>5. e \in Execs /\ e.run = i
    <3> HIDE DEF i
    <3> QED
      BY <1>0, <2>4, MenuType, CurrentType DEF Execs
  <2>6. HandedOver
    <3> HIDE DEF e, i
    <3> QED
      BY <2>1, <2>4, <2>5, GotoHandsOver DEF Stages
  <2> QED
    BY <1>0, <2>1, <2>3, <2>6, Assembled
<1>5. CASE ApplyResult
  <2>1. runs[LatestCompleted(runs)].env.req \in States
    BY <1>5, NextActionMeans DEF ApplyResult, Step, NextAction, TypeOK, States, RequestPending
  <2>2. status' \in States /\ runs' = runs /\ Goto("loop", Tick(1))
    BY <1>5, <2>1 DEF ApplyResult, writeStatus
  <2> QED
    BY <1>0, <2>2, TickType, GotoHandsOver, Assembled DEF Stages
<1>6. CASE RecoverDone
  <2>1. status' = "DONE" /\ runs' = runs /\ Goto("loop", Tick(1))
    BY <1>6 DEF RecoverDone, writeStatus
  <2>2. status' \in States
    BY <2>1 DEF States
  <2> QED
    BY <1>0, <2>1, <2>2, TickType, GotoHandsOver, Assembled DEF Stages
<1>7. CASE RunWorker
  <2>1. BeginAttempt(0, "FIRST", Tick(1)) /\ runs' = runs
    BY <1>7 DEF RunWorker
  <2>2. 0 \in 0..Len(runs') /\ "FIRST" \in RunActs
    BY <1>0, <2>1, LenProperties DEF RunsOK, RunActs
  <2>3. status' \in States /\ HandedOver
    BY <1>0, <2>1, <2>2, TickType, BeginTypes
  <2> QED
    BY <1>0, <2>1, <2>3, Assembled
<1>8. CASE RetryWorker
  <2>1. /\ NextAction = "RETRY_WORKER"
        /\ startRetryAttempt(LatestCompleted(runs), FALSE, Tick(2))
    BY <1>8 DEF RetryWorker, Step
  <2>2. LatestCompleted(runs) \in DOMAIN runs /\ Tick(2) \in Execs
    BY <2>1, LoopRun, TickType
  <2>3. status' \in States /\ RunsOK(runs') /\ HandedOver
    BY <2>1, <2>2, RetryTypes
  <2> QED
    BY <1>0, <2>3, Assembled
<1>9. CASE RunGates
  <2>1. /\ NextAction = "RUN_GATES" /\ status' = status
        /\ stageGate(runs, LatestCompleted(runs), FALSE, Tick(1))
    BY <1>9 DEF RunGates, Step
  <2>2. LatestCompleted(runs) \in DOMAIN runs /\ Tick(1) \in Execs
    BY <2>1, LoopRun, TickType
  <2>3. RunsOK(runs') /\ HandedOver
    BY <1>0, <2>1, <2>2, GateTypes
  <2> QED
    BY <1>0, <2>1, <2>3, Assembled
<1>10. CASE RerunGates
  <2>1. NextAction = "RERUN_GATES" /\ status' = status
    BY <1>10 DEF RerunGates, Step
  <2>2. CASE exec.reruns >= 1
    BY <1>0, <1>10, <2>1, <2>2, StopHandsOver, Assembled DEF RerunGates, StopReasons
  <2>3. CASE ~(exec.reruns >= 1)
    <3> DEFINE e == [Tick(1) EXCEPT !.reruns = @ + 1]
    <3>1. stageGate(runs, LatestCompleted(runs), TRUE, e)
      BY <1>10, <2>3 DEF RerunGates
    <3>2. LatestCompleted(runs) \in DOMAIN runs
      BY <2>1, LoopRun
    <3>3. e \in Execs
      BY TickType DEF Execs
    <3>4. RunsOK(runs') /\ HandedOver
      <4> HIDE DEF e
      <4> QED
        BY <1>0, <3>1, <3>2, <3>3, GateTypes
    <3> QED
      BY <1>0, <2>1, <3>4, Assembled
  <2> QED
    BY <2>2, <2>3
<1>11. CASE CompleteGates
  <2> DEFINE i == LatestCompleted(runs)
             v == [res |-> "PASS", det |-> "none", stable |-> TRUE, method |-> "gate-only",
                   subj |-> Current, gateSubj |-> runs[i].gate.subj]
             r == [runs[i] EXCEPT !.ver = v]
             e == [Tick(1) EXCEPT !.run = i]
  <2>1. /\ NextAction = "COMPLETE_GATES" /\ status' = status
        /\ runs' = [runs EXCEPT ![i] = r] /\ Goto("verdict", e)
    BY <1>11 DEF CompleteGates, Step
  <2>2. i \in DOMAIN runs
    BY <2>1, LoopRun
  <2>3. runs[i] \in Runs /\ i \in Nat
    BY <1>0, <2>2, LenProperties, ElementOfSeq DEF RunsOK
  <2>4. v \in Vers
    <3>1. runs[i].gate.subj \in Subjects
      BY <2>3 DEF Runs, Gates
    <3> QED
      BY <3>1, CurrentType DEF Vers
  <2>5. r \in Runs /\ r.parent = runs[i].parent
    <3> HIDE DEF v
    <3> QED
      BY <2>3, <2>4 DEF Runs
  <2>6. e \in Execs /\ e.run = i
    BY <2>3, TickType DEF Execs
  <2> HIDE DEF r, e, i
  <2>7. RunsOK(runs') /\ i \in DOMAIN runs'
    BY <1>0, <2>1, <2>2, <2>5, ReplaceRun
  <2>8. HandedOver
    BY <2>1, <2>6, <2>7, GotoHandsOver DEF Stages
  <2> QED
    BY <1>0, <2>1, <2>7, <2>8, Assembled
<1>12. CASE RunVerifier
  <2> DEFINE i == LatestCompleted(runs)
             again == ReportFailed(runs[i])
  <2>1. /\ NextAction = "RUN_VERIFIER" /\ status' = status
        /\ stageVerify(Diagnosed, i, again, Tick(1))
    BY <1>12 DEF RunVerifier, Step
  <2>2. again \in BOOLEAN
    BY DEF ReportFailed
  <2>3. RunsOK(Diagnosed) /\ i \in DOMAIN Diagnosed
    <3>1. i \in DOMAIN runs
      BY <2>1, LoopRun
    <3> HIDE DEF i
    <3> QED
      BY <1>0, <3>1, ResolvedTypes, LenProperties DEF RunsOK
  <2> HIDE DEF i, again
  <2>4. RunsOK(runs') /\ HandedOver
    BY <2>1, <2>2, <2>3, TickType, VerifyTypes
  <2> QED
    BY <1>0, <2>1, <2>4, Assembled
<1> QED
  BY <1>1, <1>2, <1>3, <1>4, <1>5, <1>6, <1>7, <1>8, <1>9, <1>10, <1>11, <1>12 DEF LoopStep

\* A new run directory is a run.
LEMMA NewRunType ==
  ASSUME NEW n \in Nat \ {0}, NEW act \in RunActs, NEW parent \in Nat
  PROVE  NewRun(n, act, parent) \in Runs /\ NewRun(n, act, parent).parent = parent
<1>1. NoEnv \in Envs /\ NoGate \in Gates /\ NoVer \in Vers /\ NoDiag \in Diags
  BY DEF NoEnv, NoGate, NoVer, NoDiag, Envs, Gates, Vers, Diags, Findings, Kinds,
         NoSubject, Subject, Subjects
<1> QED
  BY <1>1 DEF NewRun, Runs

\* Creating a run keeps the files in their types and changes no earlier run.
LEMMA AppendRun ==
  ASSUME NEW rs, RunsOK(rs), NEW r \in Runs, r.parent <= Len(rs)
  PROVE  /\ RunsOK(Append(rs, r)) /\ Len(Append(rs, r)) = Len(rs) + 1
         /\ DOMAIN Append(rs, r) = 1..(Len(rs) + 1)
         /\ \A j \in DOMAIN rs : Append(rs, r)[j] = rs[j]
         /\ Append(rs, r)[Len(rs) + 1] = r
<1>1. rs \in Seq(Runs) /\ Len(rs) \in Nat /\ DOMAIN rs = 1..Len(rs)
  BY LenProperties DEF RunsOK
<1>2. /\ Append(rs, r) \in Seq(Runs) /\ Len(Append(rs, r)) = Len(rs) + 1
      /\ \A j \in 1..Len(rs) : Append(rs, r)[j] = rs[j]
      /\ Append(rs, r)[Len(rs) + 1] = r
  BY <1>1, AppendProperties
<1>3. DOMAIN Append(rs, r) = 1..(Len(rs) + 1)
  BY <1>2, LenProperties
<1>4. r.parent \in Nat
  BY DEF Runs
<1>5. \A j \in 1..(Len(rs) + 1) : Append(rs, r)[j].parent < j
  <2> SUFFICES ASSUME NEW j \in 1..(Len(rs) + 1) PROVE Append(rs, r)[j].parent < j
    OBVIOUS
  <2>1. CASE j = Len(rs) + 1
    BY <1>1, <1>2, <1>4, <2>1
  <2>2. CASE j # Len(rs) + 1
    <3>1. j \in 1..Len(rs)
      BY <1>1, <2>2
    <3> QED
      BY <1>1, <1>2, <3>1 DEF RunsOK
  <2> QED
    BY <2>1, <2>2
<1> QED
  BY <1>1, <1>2, <1>3, <1>5 DEF RunsOK

\* A stage that writes an artifact of the run at hand and goes on.
LEMMA ArtifactWritten ==
  ASSUME TypeOK, exec.run \in DOMAIN runs, NEW r \in Runs,
         r.parent = runs[exec.run].parent, runs' = [runs EXCEPT ![exec.run] = r],
         NEW next \in {"requested", "verdict"}, Return \/ Goto(next, exec)
  PROVE  RunsOK(runs') /\ HandedOver
<1>1. RunsOK(runs') /\ DOMAIN runs' = DOMAIN runs
  BY ReplaceRun DEF TypeOK
<1>2. CASE Return
  BY <1>1, <1>2, ReturnHandsOver
<1>3. CASE Goto(next, exec)
  <2>1. exec \in Execs /\ exec.run \in DOMAIN runs' /\ next \in Stages \ {"snapshot"}
    BY <1>1 DEF TypeOK, Stages
  <2> QED
    BY <1>1, <1>3, <2>1, GotoHandsOver
<1> QED
  BY <1>2, <1>3

\* Every stage keeps the types.
LEMMA StageTypes == ASSUME TypeInv, StageStep PROVE TypeInv'
<1> USE DEF TypeInv
<1>0. /\ RunsOK(runs) /\ status \in States /\ tree \in Trees /\ UNCHANGED env
      /\ triage' = triage /\ triage' \in [n : Nat, retries : Nat, replans : Nat]
      /\ exec \in Execs
  BY DEF TypeOK, StageStep, Snapshot, SnapshotFails, WorkerUnavailable, WorkerFinish,
         ApplyRequested, GateFinish, VerifyFinish, WriteDone, repo
<1>1. CASE Snapshot
  <2>1. PICK n \in 1..(Len(runs) + 1) : runs' = Append(runs, NewRun(n, exec.act, exec.run))
    BY <1>1 DEF Snapshot
  <2> DEFINE r == NewRun(n, exec.act, exec.run)
             e == [exec EXCEPT !.run = Len(runs) + 1]
  <2>2. Len(runs) \in Nat /\ n \in Nat \ {0}
    BY <1>0, <2>1, LenProperties DEF RunsOK
  <2>3. exec.run \in 0..Len(runs) /\ exec.act \in RunActs
    BY <1>1 DEF Snapshot, AtHand
  <2>4. r \in Runs /\ r.parent <= Len(runs)
    BY <2>2, <2>3, NewRunType
  <2>5. Goto("worker", e) /\ status' = status /\ tree' = tree
    BY <1>1 DEF Snapshot
  <2>6. e \in Execs /\ e.run = Len(runs) + 1
    BY <1>0, <2>2 DEF Execs
  <2> HIDE DEF r, e
  <2>7. RunsOK(runs') /\ Len(runs) + 1 \in DOMAIN runs'
    BY <1>0, <2>1, <2>2, <2>4, AppendRun DEF r
  <2>8. HandedOver
    BY <2>5, <2>6, <2>7, GotoHandsOver DEF Stages
  <2> QED
    BY <1>0, <2>5, <2>7, <2>8, Assembled
<1>2. CASE SnapshotFails
  <2>1. (Stop("WORKER_NOT_DISPATCHABLE") \/ Stop("RETRY_REFUSED")) /\ UNCHANGED repo
    BY <1>2 DEF SnapshotFails
  <2> QED
    BY <1>0, <2>1, StopHandsOver, Assembled DEF repo, StopReasons
<1>3. CASE WorkerUnavailable
  BY <1>0, <1>3, ReturnHandsOver, Assembled DEF WorkerUnavailable, repo
<1>4. CASE WorkerFinish
  <2>1. PICK o \in WorkerOutcomes, t \in Trees :
          /\ tree' = t
          /\ runs' = [runs EXCEPT ![exec.run] = [@ EXCEPT !.env =
                        [w |-> o.w, req |-> o.req, subj |-> Subject(t, status)]]]
          /\ IF o.w = "exit0" /\ o.req \in WORKER_REQUESTABLE
             THEN Goto("requested", exec) ELSE Return
    BY <1>4 DEF WorkerFinish
  <2> DEFINE v == [w |-> o.w, req |-> o.req, subj |-> Subject(t, status)]
             r == [runs[exec.run] EXCEPT !.env = v]
  <2>2. v \in Envs
    <3>1. /\ o.w \in {"exit0", "exit1", "signal", "timeout", "launch", "policy"}
          /\ o.req \in {"REVIEW", "BLOCKED", "none", "invalid"}
      BY EnvironmentAssumption
    <3>2. Subject(t, status) \in Subjects
      BY <1>0 DEF Subject, Subjects
    <3> QED
      BY <3>1, <3>2 DEF Envs
  <2>3. exec.run \in DOMAIN runs
    BY <1>4 DEF WorkerFinish, AtHand
  <2>4. runs[exec.run] \in Runs
    BY <1>0, <2>3, LenProperties, ElementOfSeq DEF RunsOK
  <2>5. r \in Runs /\ r.parent = runs[exec.run].parent
    <3> HIDE DEF v
    <3> QED
      BY <2>2, <2>4 DEF Runs
  <2>6. runs' = [runs EXCEPT ![exec.run] = r] /\ (Return \/ Goto("requested", exec))
    BY <2>1
  <2> HIDE DEF r
  <2>7. RunsOK(runs') /\ HandedOver
    BY <2>3, <2>5, <2>6, ArtifactWritten
  <2>8. status' = status /\ tree' \in Trees
    BY <1>4, <2>1 DEF WorkerFinish
  <2> QED
    BY <1>0, <2>7, <2>8, Assembled
<1>5. CASE ApplyRequested
  <2>1. status' \in States
    <3>1. pc = "requested" /\ status' = runs[exec.run].env.req /\ CheckTransition(status, status')
      BY <1>5 DEF ApplyRequested, writeStatus
    <3> QED
      BY <1>0, <3>1 DEF CheckTransition, TRANSITIONS, States
  <2>2. runs' = runs /\ tree' = tree /\ Return
    BY <1>5 DEF ApplyRequested
  <2> QED
    BY <1>0, <2>1, <2>2, ReturnHandsOver, Assembled
<1>6. CASE GateFinish
  <2>1. PICK o \in GateOutcomes :
          runs' = [runs EXCEPT ![exec.run] = [@ EXCEPT !.gateDebris = FALSE,
                     !.gate = [res |-> o.res, det |-> o.det, subj |-> exec.subj]]]
    BY <1>6 DEF GateFinish
  <2> DEFINE v == [res |-> o.res, det |-> o.det, subj |-> exec.subj]
             r == [runs[exec.run] EXCEPT !.gateDebris = FALSE, !.gate = v]
  <2>2. v \in Gates
    <3>1. o.res \in {"PASS", "FAIL", "TIMEOUT", "ERROR"} /\ o.det \in Details \cup {"none"}
      BY EnvironmentAssumption
    <3> QED
      BY <1>0, <3>1 DEF Gates, Execs
  <2>3. exec.run \in DOMAIN runs /\ Return /\ status' = status /\ tree' = tree
    BY <1>6 DEF GateFinish, AtHand
  <2>4. runs[exec.run] \in Runs
    BY <1>0, <2>3, LenProperties, ElementOfSeq DEF RunsOK
  <2>5. r \in Runs /\ r.parent = runs[exec.run].parent
    <3> HIDE DEF v
    <3> QED
      BY <2>2, <2>4 DEF Runs
  <2>6. runs' = [runs EXCEPT ![exec.run] = r]
    BY <2>1
  <2> HIDE DEF r
  <2>7. RunsOK(runs') /\ HandedOver
    BY <2>3, <2>5, <2>6, ArtifactWritten
  <2> QED
    BY <1>0, <2>3, <2>7, Assembled
<1>7. CASE VerifyFinish
  <2> DEFINE stable == exec.subj = Current
  <2>1. PICK o \in VerifierOutcomes :
          /\ runs' = [runs EXCEPT ![exec.run] = [@ EXCEPT !.verDebris = FALSE,
                        !.ver = [res |-> o.res, det |-> o.det, stable |-> stable,
                                 method |-> "verifier", subj |-> exec.subj,
                                 gateSubj |-> runs[exec.run].gate.subj]]]
          /\ IF o.res = "PASS" /\ stable THEN Goto("verdict", exec) ELSE Return
    BY <1>7 DEF VerifyFinish
  <2> DEFINE v == [res |-> o.res, det |-> o.det, stable |-> stable, method |-> "verifier",
                   subj |-> exec.subj, gateSubj |-> runs[exec.run].gate.subj]
             r == [runs[exec.run] EXCEPT !.verDebris = FALSE, !.ver = v]
  <2>2. exec.run \in DOMAIN runs /\ status' = status /\ tree' = tree
    BY <1>7 DEF VerifyFinish, AtHand
  <2>3. runs[exec.run] \in Runs
    BY <1>0, <2>2, LenProperties, ElementOfSeq DEF RunsOK
  <2>4. v \in Vers
    <3>1. /\ o.res \in {"PASS", "FAIL", "policy", "launch", "timeout", "exit1", "signal", "schema"}
          /\ o.det \in Details \cup {"none"}
      BY EnvironmentAssumption
    <3>2. exec.subj \in Subjects /\ runs[exec.run].gate.subj \in Subjects
      BY <1>0, <2>3 DEF Execs, Runs, Gates
    <3>3. stable \in BOOLEAN
      OBVIOUS
    <3> HIDE DEF stable
    <3> QED
      BY <3>1, <3>2, <3>3 DEF Vers
  <2>5. r \in Runs /\ r.parent = runs[exec.run].parent
    <3> HIDE DEF v
    <3> QED
      BY <2>3, <2>4 DEF Runs
  <2>6. runs' = [runs EXCEPT ![exec.run] = r] /\ (Return \/ Goto("verdict", exec))
    BY <2>1
  <2> HIDE DEF r
  <2>7. RunsOK(runs') /\ HandedOver
    BY <2>2, <2>5, <2>6, ArtifactWritten
  <2> QED
    BY <1>0, <2>2, <2>7, Assembled
<1>8. CASE WriteDone
  <2>1. status' = "DONE" /\ runs' = runs /\ tree' = tree /\ Return
    BY <1>8 DEF WriteDone, writeStatus
  <2> QED
    BY <1>0, <2>1, ReturnHandsOver, Assembled DEF States
<1> QED
  BY <1>1, <1>2, <1>3, <1>4, <1>5, <1>6, <1>7, <1>8 DEF StageStep

\* The Triage and what applies its decisions keep the types.
LEMMA TriageTypes == ASSUME TypeInv, TriageStep PROVE TypeInv'
<1> USE DEF TypeInv
<1>0. /\ RunsOK(runs) /\ status \in States /\ tree' = tree /\ tree' \in Trees /\ UNCHANGED env
      /\ triage \in [n : Nat, retries : Nat, replans : Nat]
      /\ exec \in Execs /\ exec.run \in DOMAIN runs /\ pc \in {"triage", "apply"}
  BY DEF TypeOK, AtHand, TriageStep, TriageUnavailable, Escalate, Decide, TriageRerunGates,
         TriageRerunVerifier, TriageRetry, TriageUnblock, TriageReplan, Applying, repo
<1>1. CASE TriageUnavailable
  BY <1>0, <1>1, StopHandsOver, Assembled DEF TriageUnavailable, repo, StopReasons
<1>2. CASE Escalate
  <2>1. triage' \in [n : Nat, retries : Nat, replans : Nat]
    BY <1>0, <1>2 DEF Escalate
  <2>2. Stop("ESCALATED") /\ UNCHANGED <<status, tree, runs>>
    BY <1>2 DEF Escalate
  <2> QED
    BY <1>0, <2>1, <2>2, StopHandsOver, Assembled DEF StopReasons
<1>3. ASSUME NEW d \in Decisions, Decide(d) PROVE TypeInv'
  <2> DEFINE e == [exec EXCEPT !.act = d, !.menu = {}, !.subj = NoSubject]
  <2>1. /\ triage' = [n       |-> triage.n + 1,
                      retries |-> triage.retries + (IF d = "RETRY_WITH_LESSON" THEN 1 ELSE 0),
                      replans |-> triage.replans + (IF d = "REPLAN" THEN 1 ELSE 0)]
        /\ Goto("apply", e) /\ UNCHANGED <<status, tree, runs>>
    BY <1>3 DEF Decide
  <2>2. triage' \in [n : Nat, retries : Nat, replans : Nat]
    BY <1>0, <2>1
  <2>3. e \in Execs /\ e.run = exec.run
    BY <1>0 DEF Execs, NoSubject, Subject, Subjects
  <2> HIDE DEF e
  <2>4. HandedOver
    BY <1>0, <2>1, <2>3, GotoHandsOver DEF Stages
  <2> QED
    BY <1>0, <2>1, <2>2, <2>4, Assembled
<1>4. CASE TriageRerunGates
  <2> DEFINE i  == exec.run
             rs == IF runs[i].ver.res # "none" THEN VerificationArchived(runs, i) ELSE runs
  <2>1. stageGate(rs, i, TRUE, Tick(1)) /\ UNCHANGED <<status, triage>>
    BY <1>4 DEF TriageRerunGates
  <2>2. RunsOK(rs) /\ Len(rs) = Len(runs)
    BY <1>0, ArchivedTypes
  <2>3. i \in DOMAIN rs
    BY <1>0, <2>2, LenProperties DEF RunsOK
  <2> HIDE DEF rs, i
  <2>4. RunsOK(runs') /\ HandedOver
    BY <2>1, <2>2, <2>3, TickType, GateTypes
  <2> QED
    BY <1>0, <2>1, <2>4, Assembled
<1>5. CASE TriageRerunVerifier
  <2>1. stageVerify(runs, exec.run, TRUE, Tick(1)) /\ UNCHANGED <<status, triage>>
    BY <1>5 DEF TriageRerunVerifier
  <2>2. RunsOK(runs') /\ HandedOver
    BY <1>0, <2>1, TickType, VerifyTypes
  <2> QED
    BY <1>0, <2>1, <2>2, Assembled
<1>6. CASE TriageRetry
  <2>1. startRetryAttempt(exec.run, TRUE, Tick(1)) /\ triage' = triage
    BY <1>6 DEF TriageRetry
  <2>2. status' \in States /\ RunsOK(runs') /\ HandedOver
    BY <1>0, <2>1, TickType, RetryTypes
  <2> QED
    BY <1>0, <2>1, <2>2, Assembled
<1>7. CASE TriageUnblock
  <2> DEFINE e == [Tick(1) EXCEPT !.run = 0, !.act = "FIRST"]
  <2>1. status' = "TODO" /\ Goto("loop", e) /\ UNCHANGED <<runs, triage>>
    BY <1>7 DEF TriageUnblock, writeStatus
  <2>2. e \in Execs
    <3>1. Tick(1) \in Execs /\ "FIRST" \in RunActs
      BY TickType DEF RunActs
    <3> QED
      BY <3>1 DEF Execs
  <2> HIDE DEF e
  <2>3. HandedOver
    BY <2>1, <2>2, GotoHandsOver DEF Stages
  <2> QED
    BY <1>0, <2>1, <2>3, Assembled DEF States
<1>8. CASE TriageReplan
  <2>1. Stop("TRIAGE_REPLAN") /\ UNCHANGED repo
    BY <1>8 DEF TriageReplan
  <2> QED
    BY <1>0, <2>1, StopHandsOver, Assembled DEF repo, StopReasons
<1> QED
  BY <1>1, <1>2, <1>3, <1>4, <1>5, <1>6, <1>7, <1>8 DEF TriageStep

\* A command types only what the process holds; its use of the bounds is counted.
LEMMA CommandAssembled ==
  ASSUME TypeOK, status' \in States, tree' = tree, RunsOK(runs'), HandedOver,
         triage' = triage, UNCHANGED <<paused, edits, pauses, crashes>>, ops' = ops + 1
  PROVE  TypeInv'
<1>1. {edits, pauses, crashes, ops}' \subseteq Nat
  BY DEF TypeOK
<1> QED
  BY <1>1 DEF TypeOK, HandedOver, TypeInv

\* Every command keeps the types.
LEMMA CommandTypes == ASSUME TypeInv, Commands PROVE TypeInv'
<1> USE DEF TypeInv
<1>0. /\ RunsOK(runs) /\ status \in States /\ tree' = tree /\ tree \in Trees
      /\ triage' = triage /\ triage \in [n : Nat, retries : Nat, replans : Nat]
  BY DEF TypeOK, Commands, Execute, CmdRun, CmdSnapshot, CmdTransition, CmdRetry, CmdDiagnose,
         CmdGate, CmdVerify, repo
<1>1. ASSUME NEW ack \in BOOLEAN, Execute(ack) PROVE TypeInv'
  <2> DEFINE e == [NoExec EXCEPT !.ack = ack]
  <2>1. pc' = "loop" /\ exec' = e /\ stop' = "none" /\ UNCHANGED <<repo, env>>
    BY <1>1 DEF Execute
  <2>2. e \in Execs
    BY NoExecType DEF Execs
  <2> HIDE DEF e
  <2>3. HandedOver
    BY <2>1, <2>2 DEF HandedOver, AtHand, Stages, StopReasons
  <2> QED
    BY <1>0, <2>1, <2>3, Assembled DEF repo
<1>2. CASE CmdRun
  <2>1. BeginAttempt(0, "FIRST", Single) /\ runs' = runs
    BY <1>2 DEF CmdRun
  <2>2. 0 \in 0..Len(runs') /\ "FIRST" \in RunActs
    BY <1>0, <2>1, LenProperties DEF RunsOK, RunActs
  <2>3. status' \in States /\ HandedOver
    BY <1>0, <2>1, <2>2, NoExecType, BeginTypes
  <2> QED
    BY <1>0, <1>2, <2>1, <2>3, CommandAssembled DEF CmdRun, Command
<1>3. CASE CmdSnapshot
  <2> DEFINE r == NewRun(1, "FIRST", 0)
  <2>1. Len(runs) \in Nat
    BY <1>0, LenProperties DEF RunsOK
  <2>2. r \in Runs /\ r.parent <= Len(runs)
    BY <2>1, NewRunType DEF RunActs
  <2>3. /\ runs' = Append(runs, r) /\ UNCHANGED <<status, pc, exec, stop>> /\ pc = Idle
        /\ UNCHANGED <<paused, edits, pauses, crashes>> /\ ops' = ops + 1
    BY <1>3 DEF CmdSnapshot, Command
  <2> HIDE DEF r
  <2>4. RunsOK(runs')
    BY <1>0, <2>2, <2>3, AppendRun
  <2>5. HandedOver
    BY <2>3 DEF HandedOver, AtHand, TypeOK, Idle
  <2> QED
    BY <1>0, <2>3, <2>4, <2>5, CommandAssembled
<1>4. ASSUME NEW to \in States, CmdTransition(to) PROVE TypeInv'
  <2>1. /\ status' = to /\ UNCHANGED <<runs, pc, exec, stop>> /\ pc = Idle
        /\ UNCHANGED <<paused, edits, pauses, crashes>> /\ ops' = ops + 1
    BY <1>4 DEF CmdTransition, Command, writeStatus
  <2>2. HandedOver
    BY <2>1 DEF HandedOver, AtHand, TypeOK, Idle
  <2> QED
    BY <1>0, <2>1, <2>2, CommandAssembled
<1>5. ASSUME NEW i \in DOMAIN runs, CmdRetry(i) PROVE TypeInv'
  <2>1. startRetryAttempt(i, FALSE, Single)
    BY <1>5 DEF CmdRetry
  <2>2. status' \in States /\ RunsOK(runs') /\ HandedOver
    BY <2>1, NoExecType, RetryTypes
  <2> QED
    BY <1>0, <1>5, <2>2, CommandAssembled DEF CmdRetry, Command
<1>6. ASSUME NEW i \in DOMAIN runs, CmdDiagnose(i) PROVE TypeInv'
  <2>1. /\ runs' = Diagnose(runs, i, Current) /\ UNCHANGED <<status, pc, exec, stop>>
        /\ UNCHANGED <<paused, edits, pauses, crashes>> /\ ops' = ops + 1
    BY <1>6 DEF CmdDiagnose
  <2>2. RunsOK(runs') /\ Len(runs') = Len(runs) /\ DOMAIN runs' = DOMAIN runs
    BY <1>0, <2>1, DiagnoseType
  <2>3. HandedOver
    BY <2>1, <2>2 DEF HandedOver, AtHand, TypeOK
  <2> QED
    BY <1>0, <2>1, <2>2, <2>3, CommandAssembled
<1>7. ASSUME NEW i \in DOMAIN runs, NEW rerun \in BOOLEAN, CmdGate(i, rerun) PROVE TypeInv'
  <2>1. stageGate(runs, i, rerun, Single)
    BY <1>7 DEF CmdGate
  <2>2. RunsOK(runs') /\ HandedOver
    BY <1>0, <2>1, NoExecType, GateTypes
  <2> QED
    BY <1>0, <1>7, <2>2, CommandAssembled DEF CmdGate, Command
<1>8. ASSUME NEW i \in DOMAIN runs, NEW rerun \in BOOLEAN, CmdVerify(i, rerun) PROVE TypeInv'
  <2>1. stageVerify(runs, i, rerun, Single)
    BY <1>8 DEF CmdVerify
  <2>2. RunsOK(runs') /\ HandedOver
    BY <1>0, <2>1, NoExecType, VerifyTypes
  <2> QED
    BY <1>0, <1>8, <2>2, CommandAssembled DEF CmdVerify, Command
<1> QED
  BY <1>1, <1>2, <1>3, <1>4, <1>5, <1>6, <1>7, <1>8 DEF Commands

\* So do PAUSE, an edit and a crash.
LEMMA EnvironmentTypes == ASSUME TypeInv, TogglePause \/ Edit \/ Crash PROVE TypeInv'
<1> USE DEF TypeInv
<1>1. CASE TogglePause
  <2>1. {edits, pauses, crashes, ops}' \subseteq Nat
    BY <1>1 DEF TypeOK, TogglePause
  <2> QED
    BY <1>1, <2>1 DEF TogglePause, TypeOK, AtHand, repo
<1>2. CASE Edit
  <2>1. {edits, pauses, crashes, ops}' \subseteq Nat
    BY <1>2 DEF TypeOK, Edit
  <2> QED
    BY <1>2, <2>1 DEF Edit, TypeOK, AtHand
<1>3. CASE Crash
  <2>0. RunsOK(runs)
    BY DEF TypeOK
  <2>1. {edits, pauses, crashes, ops}' \subseteq Nat
    BY <1>3 DEF TypeOK, Crash
  <2>2. HandedOver /\ UNCHANGED <<status, tree, triage, paused>>
    BY <1>3, StopHandsOver DEF Crash, StopReasons
  <2>3. RunsOK(runs')
    <3>1. CASE UNCHANGED runs
      BY <3>1 DEF TypeOK
    <3>2. CASE pc \in {"gate", "verify"} /\ runs' # runs
      <4> DEFINE g == [runs[exec.run] EXCEPT !.gateDebris = TRUE]
                 v == [runs[exec.run] EXCEPT !.verDebris = TRUE]
      <4>1. exec.run \in DOMAIN runs
        BY <3>2 DEF AtHand
      <4>2. runs[exec.run] \in Runs
        BY <2>0, <4>1, LenProperties, ElementOfSeq DEF RunsOK
      <4>3. /\ g \in Runs /\ g.parent = runs[exec.run].parent
            /\ v \in Runs /\ v.parent = runs[exec.run].parent
        BY <4>2 DEF Runs
      <4>4. runs' = [runs EXCEPT ![exec.run] = g] \/ runs' = [runs EXCEPT ![exec.run] = v]
        BY <1>3, <3>2 DEF Crash
      <4> HIDE DEF g, v
      <4> QED
        BY <2>0, <4>1, <4>3, <4>4, ReplaceRun
    <3> QED
      BY <1>3, <3>1, <3>2 DEF Crash
  <2> QED
    BY <2>1, <2>2, <2>3 DEF TypeOK, HandedOver
<1> QED
  BY <1>1, <1>2, <1>3

\* TypeInv is inductive.
LEMMA TypeStep == TypeInv /\ [Next]_vars => TypeInv'
<1> SUFFICES ASSUME TypeInv, [Next]_vars PROVE TypeInv'
  OBVIOUS
<1>1. CASE UNCHANGED vars
  BY <1>1 DEF vars, repo, env, TypeInv, TypeOK, AtHand
<1>2. CASE Next
  BY <1>2, LoopTypes, StageTypes, TriageTypes, CommandTypes, EnvironmentTypes
  DEF Next, Runtime
<1> QED
  BY <1>1, <1>2

\* It holds at the start.
LEMMA TypeInit == Init => TypeInv
<1> SUFFICES ASSUME Init PROVE TypeInv
  OBVIOUS
<1>1. RunsOK(runs)
  BY EmptySeq DEF Init, RunsOK
<1>2. exec \in Execs
  BY NoExecType DEF Init
<1>3. triage \in [n : Nat, retries : Nat, replans : Nat]
  BY DEF Init
<1>4. {edits, pauses, crashes, ops} \subseteq Nat
  BY DEF Init
<1>5. status \in States /\ tree \in Trees /\ paused \in BOOLEAN /\ stop \in StopReasons
  BY DEF Init, States, StopReasons
<1>6. pc = Idle /\ AtHand
  BY DEF Init, AtHand, Idle
<1> QED
  BY <1>1, <1>2, <1>3, <1>4, <1>5, <1>6 DEF TypeInv, TypeOK

\* The state stays in its types, for any limits, outcomes and bounds.
THEOREM TypeCorrect == Spec => []TypeOK
<1>1. TypeInv => TypeOK
  BY DEF TypeInv
<1> QED
  BY <1>1, TypeInit, TypeStep, PTL DEF Spec
=============================================================================
