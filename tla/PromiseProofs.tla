---------------------------- MODULE PromiseProofs ----------------------------
(***************************************************************************)
(* A Task becomes DONE only on evidence, and TaskLifecycle implements      *)
(* TaskPromise: for any limits, outcomes, crashes and commands, as long as *)
(* nobody types DONE (DoneIsNotTyped).                                     *)
(***************************************************************************)
EXTENDS TaskLifecycleProofs

\* Nobody sets DONE with the transition command, or types any command but execute.
DoneIsNotTyped == MaxOps = 0 \/ "DONE" \notin OperatorTargets

PassedIsEvidence == \A i \in DOMAIN runs : ReportPassed(runs[i]) => Evidence(runs[i])

\* What each stage relies on, and what a PASS report stands for.
SafeInv ==
  /\ StageStatus
  /\ pc = "requested" => runs[exec.run].env.req \in WORKER_REQUESTABLE
  /\ pc \in {"triage", "apply"} => status # "DONE"
  /\ pc = "verify" => exec.subj.status = "REVIEW" /\ runs[exec.run].gate.subj = exec.subj
  /\ pc = "verdict" => ReportPassed(runs[exec.run])
  /\ PassedIsEvidence
  /\ status = "DONE" => Passed(runs)

\* The verification reports of rs and rs2 agree; new runs have none.
SameVerdicts(rs, rs2) ==
  /\ DOMAIN rs \subseteq DOMAIN rs2
  /\ \A i \in DOMAIN rs : rs2[i].ver = rs[i].ver
  /\ \A i \in DOMAIN rs2 \ DOMAIN rs : rs2[i].ver = NoVer

\* Every step keeps the status and the verdicts, or judges a Task that is not
\* DONE, or moves it along the table, to DONE only when a report is PASS.
LegalMove ==
  \/ status' = status /\ (status # "DONE" \/ SameVerdicts(runs, runs'))
  \/ /\ CheckTransition(status, status') /\ SameVerdicts(runs, runs')
     /\ status' = "DONE" => Passed(runs)

\* A run without a report has not passed.
LEMMA NoVerNotPassed == ASSUME NEW r, r.ver = NoVer PROVE ~ReportPassed(r)
BY DEF ReportPassed, NoVer

\* What passed, and on what evidence, depends on the verification reports only.
LEMMA SamePassed ==
  ASSUME SameVerdicts(runs, runs')
  PROVE  /\ Passed(runs') <=> Passed(runs)
         /\ PassedIsEvidence => PassedIsEvidence'
<1>1. \A i \in DOMAIN runs : /\ ReportPassed(runs'[i]) <=> ReportPassed(runs[i])
                             /\ Evidence(runs'[i]) <=> Evidence(runs[i])
  BY DEF SameVerdicts, ReportPassed, Evidence
<1>2. \A i \in DOMAIN runs' \ DOMAIN runs : ~ReportPassed(runs'[i])
  BY NoVerNotPassed DEF SameVerdicts
<1>3. DOMAIN runs \subseteq DOMAIN runs'
  BY DEF SameVerdicts
<1>4. Passed(runs') <=> Passed(runs)
  BY <1>1, <1>2, <1>3 DEF Passed
<1>5. PassedIsEvidence => PassedIsEvidence'
  BY <1>1, <1>2 DEF PassedIsEvidence
<1> QED
  BY <1>4, <1>5

\* The diagnosis that resolving may write is no verdict, no gate report, no
\* attempt.
LEMMA DiagnosedKeeps ==
  ASSUME TypeOK
  PROVE  /\ SameVerdicts(runs, Diagnosed)
         /\ DOMAIN Diagnosed = DOMAIN runs
         /\ \A j \in DOMAIN runs : /\ Diagnosed[j].gate = runs[j].gate
                                   /\ Diagnosed[j].act = runs[j].act
                                   /\ Diagnosed[j].attempt = runs[j].attempt
<1> DEFINE i == LatestCompleted(runs)
<1>1. RunsOK(runs) /\ (i = 0 \/ i \in DOMAIN runs)
  BY LatestCompletedIsARun DEF TypeOK, RunsOK
<1>2. Diagnosed = runs \/ (i \in DOMAIN runs /\ Diagnosed = Diagnose(runs, i, Current))
  BY <1>1 DEF Diagnosed, Resolved
<1> HIDE DEF i
<1> QED
  BY <1>1, <1>2, DiagnoseType DEF SameVerdicts

\* Starting the gates keeps every verdict and needs a Task in REVIEW.
LEMMA GateKeeps ==
  ASSUME TypeOK, NEW rs, RunsOK(rs), NEW i \in DOMAIN rs, NEW rerun \in BOOLEAN,
         NEW e \in Execs, stageGate(rs, i, rerun, e)
  PROVE  /\ DOMAIN runs' = DOMAIN rs
         /\ \A j \in DOMAIN rs : runs'[j].ver = rs[j].ver
         /\ pc' = Idle \/ (pc' = "gate" /\ status = "REVIEW")
<1>1. \A j \in DOMAIN rs : rs[j] \in Runs
  BY LenProperties, ElementOfSeq DEF RunsOK
<1>2. runs' = rs \/ runs' = GatesArchived(rs, i)
  BY DEF stageGate
<1>3. /\ DOMAIN GatesArchived(rs, i) = DOMAIN rs
      /\ \A j \in DOMAIN rs : GatesArchived(rs, i)[j].ver = rs[j].ver
  BY <1>1 DEF GatesArchived, Runs
<1>4. pc' = Idle \/ (pc' = "gate" /\ status = "REVIEW")
  BY DEF stageGate, Stop, Goto, GateEligible
<1> QED
  BY <1>2, <1>3, <1>4

\* Starting the verifier archives at most the verdict it replaces, and only in
\* REVIEW.
LEMMA VerifyKeeps ==
  ASSUME TypeOK, NEW rs, RunsOK(rs), NEW i \in DOMAIN rs, NEW rerun \in BOOLEAN,
         NEW e \in Execs, stageVerify(rs, i, rerun, e)
  PROVE  /\ DOMAIN runs' = DOMAIN rs
         /\ \A j \in DOMAIN rs : runs'[j].ver \in {rs[j].ver, NoVer}
         /\ runs' = rs \/ status = "REVIEW"
         /\ \/ pc' = Idle
            \/ /\ pc' = "verify" /\ status = "REVIEW" /\ exec'.run = i
               /\ exec'.subj = Current /\ runs'[i].gate.subj = Current
<1>1. \A j \in DOMAIN rs : rs[j] \in Runs
  BY LenProperties, ElementOfSeq DEF RunsOK
<1>2. /\ runs' = rs \/ runs' = VerificationArchived(rs, i)
      /\ runs' = rs \/ status = "REVIEW"
  BY DEF stageVerify, checkVerifierEligibility, GateEligible
<1>3. /\ DOMAIN VerificationArchived(rs, i) = DOMAIN rs
      /\ \A j \in DOMAIN rs : /\ VerificationArchived(rs, i)[j].ver \in {rs[j].ver, NoVer}
                              /\ VerificationArchived(rs, i)[j].gate = rs[j].gate
  BY <1>1 DEF VerificationArchived, Runs
<1>4. CASE checkVerifierEligibility(rs[i], status, Current)
  <2>1. status = "REVIEW" /\ rs[i].gate.subj = Current
    BY <1>4 DEF checkVerifierEligibility, GateEligible, GateStale
  <2>2. runs'[i].gate.subj = Current
    BY <1>2, <1>3, <2>1
  <2> DEFINE f == [e EXCEPT !.run = i, !.subj = Current]
  <2>3. f.run = i /\ f.subj = Current
    BY DEF Execs
  <2> HIDE DEF f
  <2>4. pc' = Idle \/ (pc' = "verify" /\ exec' = f)
    BY <1>4 DEF stageVerify, Stop, Goto, f
  <2> QED
    BY <1>2, <1>3, <2>1, <2>2, <2>3, <2>4
<1>5. CASE ~checkVerifierEligibility(rs[i], status, Current)
  BY <1>2, <1>5 DEF stageVerify, Stop
<1> QED
  BY <1>4, <1>5

\* An attempt begins with a legal move to IN_PROGRESS, or in it.
LEMMA BeginMoves ==
  ASSUME NEW i, NEW act, NEW e, BeginAttempt(i, act, e)
  PROVE  /\ pc' = "snapshot" /\ status' = "IN_PROGRESS"
         /\ status' = status \/ CheckTransition(status, status')
BY DEF BeginAttempt, Goto, writeStatus

\* A retry keeps the verdicts; it is refused or begins such an attempt.
LEMMA RetryMoves ==
  ASSUME TypeOK, NEW i \in DOMAIN runs, NEW withLesson \in BOOLEAN, NEW e \in Execs,
         startRetryAttempt(i, withLesson, e)
  PROVE  /\ SameVerdicts(runs, runs')
         /\ \/ pc' = Idle /\ status' = status
            \/ /\ pc' = "snapshot" /\ status' = "IN_PROGRESS"
               /\ status' = status \/ CheckTransition(status, status')
<1>1. SameVerdicts(runs, runs')
  BY DiagnoseType DEF startRetryAttempt, SameVerdicts, TypeOK
<1>2. \/ Stop("RETRY_REFUSED") /\ status' = status
      \/ \E act : BeginAttempt(i, act, e)
  BY DEF startRetryAttempt
<1>3. CASE Stop("RETRY_REFUSED") /\ status' = status
  BY <1>1, <1>3 DEF Stop
<1>4. ASSUME NEW act, BeginAttempt(i, act, e)
      PROVE  /\ pc' = "snapshot" /\ status' = "IN_PROGRESS"
             /\ status' = status \/ CheckTransition(status, status')
  BY <1>4, BeginMoves
<1> QED
  BY <1>1, <1>2, <1>3, <1>4

\* Evidence is carried over a step that keeps the verdicts.
LEMMA Carried ==
  ASSUME SafeInv, SameVerdicts(runs, runs'), status' = status \/ status' # "DONE" \/ Passed(runs)
  PROVE  PassedIsEvidence' /\ (status' = "DONE" => Passed(runs'))
BY SamePassed DEF SafeInv

\* Evidence is carried over a step that only archives verdicts.
LEMMA Archived ==
  ASSUME PassedIsEvidence, DOMAIN runs' = DOMAIN runs,
         \A j \in DOMAIN runs : runs'[j].ver \in {runs[j].ver, NoVer}
  PROVE  PassedIsEvidence'
<1> SUFFICES ASSUME NEW j \in DOMAIN runs, ReportPassed(runs'[j]) PROVE Evidence(runs'[j])
  BY DEF PassedIsEvidence
<1>1. runs'[j].ver = runs[j].ver
  BY NoVerNotPassed
<1> QED
  BY <1>1 DEF PassedIsEvidence, ReportPassed, Evidence

\* When no stage is left running, the evidence is all there is to SafeInv.
LEMMA Quiet ==
  ASSUME pc' \in {Idle, "loop"}, PassedIsEvidence', status' = "DONE" => Passed(runs')
  PROVE  SafeInv'
BY DEF SafeInv, StageStatus, Idle

\* A finished stage leaves none running.
LEMMA ReturnsQuietly == ASSUME Return PROVE pc' \in {Idle, "loop"}
BY DEF Return, Stop, Goto

\* Steps that leave a gate or a verifier running, or none.
LEMMA GateSafe ==
  ASSUME TypeInv, SafeInv, NEW i \in DOMAIN runs, NEW rerun \in BOOLEAN, NEW e \in Execs,
         stageGate(runs, i, rerun, e), status' = status
  PROVE  SafeInv' /\ LegalMove
<1>1. SameVerdicts(runs, runs') /\ (pc' = Idle \/ (pc' = "gate" /\ status = "REVIEW"))
  BY GateKeeps DEF SameVerdicts, TypeInv, TypeOK
<1>2. PassedIsEvidence' /\ (status' = "DONE" => Passed(runs'))
  BY <1>1, Carried
<1> QED
  BY <1>1, <1>2 DEF SafeInv, StageStatus, LegalMove, Idle

\* Starting the verifier keeps SafeInv: its subject is the tree the gates passed
\* on.
LEMMA VerifySafe ==
  ASSUME TypeInv, SafeInv, NEW rs, RunsOK(rs), NEW i \in DOMAIN rs, NEW rerun \in BOOLEAN,
         NEW e \in Execs, stageVerify(rs, i, rerun, e), status' = status,
         DOMAIN rs = DOMAIN runs, SameVerdicts(runs, rs)
  PROVE  SafeInv' /\ LegalMove
<1>1. TypeOK
  BY DEF TypeInv
<1>2. /\ DOMAIN runs' = DOMAIN rs
      /\ \A j \in DOMAIN rs : runs'[j].ver \in {rs[j].ver, NoVer}
      /\ runs' = rs \/ status = "REVIEW"
      /\ \/ pc' = Idle
         \/ /\ pc' = "verify" /\ status = "REVIEW" /\ exec'.run = i
            /\ exec'.subj = Current /\ runs'[i].gate.subj = Current
  BY <1>1, VerifyKeeps
<1>3. PassedIsEvidence'
  BY <1>2, Archived DEF SameVerdicts, SafeInv
<1>4. LegalMove
  BY <1>2 DEF LegalMove
<1>5. status' = "DONE" => Passed(runs')
  BY <1>2, SamePassed DEF SafeInv
<1>6. Current.status = status
  BY DEF Current, Subject
<1> QED
  BY <1>2, <1>3, <1>4, <1>5, <1>6 DEF SafeInv, StageStatus, Idle

\* So does a retry, begun or refused.
LEMMA RetrySafe ==
  ASSUME TypeInv, SafeInv, NEW i \in DOMAIN runs, NEW withLesson \in BOOLEAN, NEW e \in Execs,
         startRetryAttempt(i, withLesson, e)
  PROVE  SafeInv' /\ LegalMove
<1>1. /\ SameVerdicts(runs, runs')
      /\ \/ pc' = Idle /\ status' = status
         \/ /\ pc' = "snapshot" /\ status' = "IN_PROGRESS"
            /\ status' = status \/ CheckTransition(status, status')
  BY RetryMoves DEF TypeInv
<1>2. PassedIsEvidence' /\ (status' = "DONE" => Passed(runs'))
  BY <1>1, Carried
<1> QED
  BY <1>1, <1>2 DEF SafeInv, StageStatus, LegalMove, Idle

\* So does the first attempt.
LEMMA BeginSafe ==
  ASSUME SafeInv, NEW i, NEW act, NEW e, BeginAttempt(i, act, e), runs' = runs
  PROVE  SafeInv' /\ LegalMove
<1>1. /\ pc' = "snapshot" /\ status' = "IN_PROGRESS"
      /\ status' = status \/ CheckTransition(status, status')
  BY BeginMoves
<1>2. SameVerdicts(runs, runs')
  BY DEF SameVerdicts
<1>3. PassedIsEvidence' /\ (status' = "DONE" => Passed(runs'))
  BY <1>1, <1>2, Carried
<1> QED
  BY <1>1, <1>2, <1>3 DEF SafeInv, StageStatus, LegalMove

\* A step that keeps the verdicts and leaves no stage running.
LEMMA QuietSafe ==
  ASSUME SafeInv, SameVerdicts(runs, runs'), pc' \in {Idle, "loop"},
         \/ status' = status
         \/ CheckTransition(status, status') /\ (status' # "DONE" \/ Passed(runs))
  PROVE  SafeInv' /\ LegalMove
<1>1. PassedIsEvidence' /\ (status' = "DONE" => Passed(runs'))
  BY Carried
<1> QED
  BY <1>1, Quiet DEF LegalMove

\* Every step of the loop keeps SafeInv; only RecoverDone sets DONE, on a PASS
\* report.
LEMMA LoopSafe == ASSUME TypeInv, SafeInv, LoopStep PROVE SafeInv' /\ LegalMove
<1>0. TypeOK /\ RunsOK(runs) /\ SameVerdicts(runs, runs) /\ SameVerdicts(runs, Diagnosed)
  BY DiagnosedKeeps DEF TypeInv, TypeOK, SameVerdicts
<1>00. status \in {"TODO", "IN_PROGRESS", "REVIEW", "DONE", "BLOCKED", "DROPPED"}
  BY DEF TypeInv, TypeOK, States
<1> DEFINE i == LatestCompleted(runs)
<1>1. CASE GuardStop \/ OperatorStop \/ StopStep
  <2>1. pc' = Idle /\ status' = status /\ (runs' = runs \/ runs' = Diagnosed)
    BY <1>1 DEF GuardStop, OperatorStop, StopStep, Stop, repo
  <2> QED
    BY <1>0, <2>1, QuietSafe
<1>2. CASE AskTriage
  <2>1. pc' = "triage" /\ status' = status /\ runs' = Diagnosed /\ NextAction \in TRIAGE_STOPS
    BY <1>2 DEF AskTriage, Goto, TriageUseful
  <2>2. status # "DONE"
    BY <1>00, <2>1, NextActionMeans DEF NextAction
  <2>3. PassedIsEvidence'
    BY <1>0, <2>1, Carried
  <2> QED
    BY <2>1, <2>2, <2>3 DEF SafeInv, StageStatus, LegalMove
<1>3. CASE ApplyResult
  <2>1. /\ status' = runs[i].env.req /\ CheckTransition(status, status') /\ runs' = runs
        /\ pc' = "loop" /\ NextAction = "APPLY_WORKER_RESULT"
    BY <1>3 DEF ApplyResult, Step, writeStatus, Goto
  <2>2. status' # "DONE"
    BY <1>00, <2>1, NextActionMeans DEF NextAction, RequestPending
  <2> QED
    BY <1>0, <2>1, <2>2, QuietSafe
<1>4. CASE RecoverDone
  <2>1. /\ status' = "DONE" /\ CheckTransition(status, status') /\ runs' = runs
        /\ pc' = "loop" /\ NextAction = "RECOVER_DONE"
    BY <1>4 DEF RecoverDone, Step, writeStatus, Goto
  <2>2. ReportPassed(runs[i]) /\ i \in DOMAIN runs
    BY <1>0, <1>00, <2>1, NextActionMeans, LoopRun DEF NextAction
  <2> QED
    BY <1>0, <2>1, <2>2, QuietSafe DEF Passed
<1>5. CASE RunWorker
  BY <1>5, BeginSafe DEF RunWorker
<1>6. CASE RetryWorker
  <2>1. NextAction = "RETRY_WORKER" /\ startRetryAttempt(i, FALSE, Tick(2))
    BY <1>6 DEF RetryWorker, Step
  <2> QED
    BY <1>0, <2>1, LoopRun, TickType, RetrySafe
<1>7. CASE RunGates
  <2>1. NextAction = "RUN_GATES" /\ status' = status /\ stageGate(runs, i, FALSE, Tick(1))
    BY <1>7 DEF RunGates, Step
  <2> QED
    BY <1>0, <2>1, LoopRun, TickType, GateSafe
<1>8. CASE RerunGates
  <2>1. NextAction = "RERUN_GATES" /\ status' = status
    BY <1>8 DEF RerunGates, Step
  <2>2. CASE exec.reruns >= 1
    <3>1. pc' = Idle /\ runs' = runs
      BY <1>8, <2>2 DEF RerunGates, Stop
    <3> QED
      BY <1>0, <2>1, <3>1, QuietSafe
  <2>3. CASE ~(exec.reruns >= 1)
    <3> DEFINE e == [Tick(1) EXCEPT !.reruns = @ + 1]
    <3>1. stageGate(runs, i, TRUE, e)
      BY <1>8, <2>3 DEF RerunGates
    <3>2. e \in Execs
      BY <1>0, TickType DEF Execs
    <3> HIDE DEF e
    <3> QED
      BY <1>0, <2>1, <3>1, <3>2, LoopRun, GateSafe
  <2> QED
    BY <2>2, <2>3
<1>9. CASE CompleteGates
  <2> DEFINE v == [res |-> "PASS", det |-> "none", stable |-> TRUE, method |-> "gate-only",
                   subj |-> Current, gateSubj |-> runs[i].gate.subj]
             r == [runs[i] EXCEPT !.ver = v]
             e == [Tick(1) EXCEPT !.run = i]
  <2>1. /\ NextAction = "COMPLETE_GATES" /\ status' = status
        /\ runs' = [runs EXCEPT ![i] = r] /\ pc' = "verdict" /\ exec' = e
    BY <1>9 DEF CompleteGates, Step, Goto
  <2>2. i \in DOMAIN runs /\ status = "REVIEW" /\ runs[i].gate.subj = Current
    BY <1>0, <1>00, <2>1, LoopRun, NextActionMeans DEF NextAction, GateStale
  <2>3. runs[i] \in Runs
    BY <1>0, <2>2, LenProperties, ElementOfSeq DEF RunsOK
  <2>4. r.ver = v
    <3> HIDE DEF v
    <3> QED
      BY <2>3 DEF Runs
  <2>5. ReportPassed(r) /\ Evidence(r)
    BY <2>2, <2>4 DEF ReportPassed, Evidence, Current, Subject
  <2>6. e.run = i
    BY <1>0, TickType DEF Execs
  <2> HIDE DEF r, e, v
  <2>7. /\ DOMAIN runs' = DOMAIN runs /\ runs'[i] = r
        /\ \A j \in DOMAIN runs : j # i => runs'[j] = runs[j]
    BY <2>1, <2>2
  <2>8. PassedIsEvidence'
    BY <2>5, <2>7 DEF SafeInv, PassedIsEvidence
  <2> QED
    BY <2>1, <2>2, <2>5, <2>6, <2>7, <2>8 DEF SafeInv, StageStatus, LegalMove
<1>10. CASE RunVerifier
  <2> DEFINE again == ReportFailed(runs[i])
  <2>1. /\ NextAction = "RUN_VERIFIER" /\ status' = status
        /\ stageVerify(Diagnosed, i, again, Tick(1))
    BY <1>10 DEF RunVerifier, Step
  <2>2. again \in BOOLEAN
    BY DEF ReportFailed
  <2>3. RunsOK(Diagnosed) /\ DOMAIN Diagnosed = DOMAIN runs /\ i \in DOMAIN Diagnosed
    BY <1>0, <2>1, LoopRun, ResolvedTypes, DiagnosedKeeps
  <2> HIDE DEF again, i
  <2> QED
    BY <1>0, <2>1, <2>2, <2>3, TickType, VerifySafe
<1> QED
  BY <1>1, <1>2, <1>3, <1>4, <1>5, <1>6, <1>7, <1>8, <1>9, <1>10 DEF LoopStep

\* Rewriting one run without its verification report keeps every verdict.
LEMMA Rewritten ==
  ASSUME RunsOK(runs), NEW i \in DOMAIN runs, NEW r, r.ver = runs[i].ver,
         runs' = [runs EXCEPT ![i] = r]
  PROVE  SameVerdicts(runs, runs')
BY DEF SameVerdicts

\* A new run has no verification report.
LEMMA Appended ==
  ASSUME RunsOK(runs), NEW n \in Nat \ {0}, NEW act \in RunActs, NEW parent \in 0..Len(runs),
         runs' = Append(runs, NewRun(n, act, parent))
  PROVE  SameVerdicts(runs, runs')
<1> DEFINE r == NewRun(n, act, parent)
<1>1. Len(runs) \in Nat /\ DOMAIN runs = 1..Len(runs)
  BY LenProperties DEF RunsOK
<1>2. r \in Runs /\ r.parent <= Len(runs) /\ r.ver = NoVer
  BY <1>1, NewRunType DEF NewRun
<1> HIDE DEF r
<1>3. /\ DOMAIN runs' = 1..(Len(runs) + 1)
      /\ \A j \in DOMAIN runs : runs'[j] = runs[j]
      /\ runs'[Len(runs) + 1] = r
  BY <1>2, AppendRun DEF r
<1> QED
  BY <1>1, <1>2, <1>3 DEF SameVerdicts

\* The stages: only a verifier call changes verdicts, and only before DONE.
LEMMA StageSafe == ASSUME TypeInv, SafeInv, StageStep PROVE SafeInv' /\ LegalMove
<1>0. TypeOK /\ RunsOK(runs) /\ SameVerdicts(runs, runs) /\ exec \in Execs
  BY DEF TypeInv, TypeOK, SameVerdicts
<1>1. CASE Snapshot
  <2>1. PICK n \in 1..(Len(runs) + 1) : runs' = Append(runs, NewRun(n, exec.act, exec.run))
    BY <1>1 DEF Snapshot
  <2>2. n \in Nat \ {0} /\ exec.run \in 0..Len(runs) /\ exec.act \in RunActs
    BY <1>0, <1>1, <2>1, LenProperties DEF Snapshot, TypeInv, AtHand, RunsOK
  <2>3. pc' = "worker" /\ status' = status /\ status = "IN_PROGRESS"
    BY <1>1 DEF Snapshot, Goto, SafeInv, StageStatus
  <2>4. SameVerdicts(runs, runs')
    BY <1>0, <2>1, <2>2, Appended
  <2>5. PassedIsEvidence' /\ (status' = "DONE" => Passed(runs'))
    BY <2>3, <2>4, Carried
  <2> QED
    BY <2>3, <2>4, <2>5 DEF SafeInv, StageStatus, LegalMove
<1>2. CASE SnapshotFails
  <2>1. pc' = Idle /\ status' = status /\ runs' = runs
    BY <1>2 DEF SnapshotFails, Stop, repo
  <2> QED
    BY <1>0, <2>1, QuietSafe
<1>3. CASE WorkerUnavailable
  <2>1. pc' \in {Idle, "loop"} /\ status' = status /\ runs' = runs
    BY <1>3, ReturnsQuietly DEF WorkerUnavailable, repo
  <2> QED
    BY <1>0, <2>1, QuietSafe
<1>4. CASE WorkerFinish
  <2>1. PICK o \in WorkerOutcomes, t \in Trees :
          /\ runs' = [runs EXCEPT ![exec.run] = [@ EXCEPT !.env =
                        [w |-> o.w, req |-> o.req, subj |-> Subject(t, status)]]]
          /\ IF o.w = "exit0" /\ o.req \in WORKER_REQUESTABLE
             THEN Goto("requested", exec) ELSE Return
    BY <1>4 DEF WorkerFinish
  <2> DEFINE v == [w |-> o.w, req |-> o.req, subj |-> Subject(t, status)]
             r == [runs[exec.run] EXCEPT !.env = v]
  <2>2. exec.run \in DOMAIN runs /\ status' = status /\ status = "IN_PROGRESS"
    BY <1>4 DEF WorkerFinish, TypeInv, AtHand, SafeInv, StageStatus
  <2>3. runs[exec.run] \in Runs
    BY <1>0, <2>2, LenProperties, ElementOfSeq DEF RunsOK
  <2>4. r.ver = runs[exec.run].ver /\ r.env.req = o.req
    BY <2>3 DEF Runs
  <2>5. runs' = [runs EXCEPT ![exec.run] = r]
    BY <2>1
  <2> HIDE DEF r
  <2>6. SameVerdicts(runs, runs')
    BY <1>0, <2>2, <2>4, <2>5, Rewritten
  <2>7. PassedIsEvidence' /\ (status' = "DONE" => Passed(runs'))
    BY <2>2, <2>6, Carried
  <2>8. CASE Return
    BY <2>2, <2>6, <2>8, ReturnsQuietly, QuietSafe
  <2>9. CASE o.req \in WORKER_REQUESTABLE /\ Goto("requested", exec)
    <3>1. pc' = "requested" /\ exec' = exec /\ runs'[exec.run].env.req \in WORKER_REQUESTABLE
      BY <2>2, <2>4, <2>5, <2>9 DEF Goto
    <3> QED
      BY <2>2, <2>6, <2>7, <3>1 DEF SafeInv, StageStatus, LegalMove
  <2> QED
    BY <2>1, <2>8, <2>9
<1>5. CASE ApplyRequested
  <2>1. /\ status' \in WORKER_REQUESTABLE /\ CheckTransition(status, status')
        /\ runs' = runs /\ pc' \in {Idle, "loop"}
    BY <1>5, ReturnsQuietly DEF ApplyRequested, writeStatus, SafeInv
  <2> QED
    BY <1>0, <2>1, QuietSafe DEF WORKER_REQUESTABLE
<1>6. CASE GateFinish
  <2>1. PICK o \in GateOutcomes :
          runs' = [runs EXCEPT ![exec.run] = [@ EXCEPT !.gateDebris = FALSE,
                     !.gate = [res |-> o.res, det |-> o.det, subj |-> exec.subj]]]
    BY <1>6 DEF GateFinish
  <2> DEFINE v == [res |-> o.res, det |-> o.det, subj |-> exec.subj]
             r == [runs[exec.run] EXCEPT !.gateDebris = FALSE, !.gate = v]
  <2>2. exec.run \in DOMAIN runs /\ status' = status /\ pc' \in {Idle, "loop"}
    BY <1>6, ReturnsQuietly DEF GateFinish, TypeInv, AtHand
  <2>3. runs[exec.run] \in Runs
    BY <1>0, <2>2, LenProperties, ElementOfSeq DEF RunsOK
  <2>4. r.ver = runs[exec.run].ver
    BY <2>3 DEF Runs
  <2>5. runs' = [runs EXCEPT ![exec.run] = r]
    BY <2>1
  <2> HIDE DEF r
  <2> QED
    BY <1>0, <2>2, <2>4, <2>5, Rewritten, QuietSafe
<1>7. CASE VerifyFinish
  <2> DEFINE stable == exec.subj = Current
  <2>1. PICK o \in VerifierOutcomes :
          /\ runs' = [runs EXCEPT ![exec.run] = [@ EXCEPT !.verDebris = FALSE,
                        !.ver = [res |-> o.res, det |-> o.det, stable |-> stable,
                                 method |-> "verifier", subj |-> exec.subj,
                                 gateSubj |-> runs[exec.run].gate.subj]]]
          /\ IF o.res = "PASS" /\ stable THEN Goto("verdict", exec) ELSE Return
    BY <1>7 DEF VerifyFinish
  <2> DEFINE v == [res |-> o.res, det |-> o.det, stable |-> stable, method |-> "verifier",
                   subj |-> exec.subj, gateSubj |-> runs[exec.run].gate.subj]
             r == [runs[exec.run] EXCEPT !.verDebris = FALSE, !.ver = v]
  <2>2. /\ exec.run \in DOMAIN runs /\ status' = status /\ status = "REVIEW"
        /\ exec.subj.status = "REVIEW" /\ runs[exec.run].gate.subj = exec.subj
    BY <1>7 DEF VerifyFinish, TypeInv, AtHand, SafeInv, StageStatus
  <2>3. runs[exec.run] \in Runs
    BY <1>0, <2>2, LenProperties, ElementOfSeq DEF RunsOK
  <2>4. r.ver = v
    <3> HIDE DEF v
    <3> QED
      BY <2>3 DEF Runs
  <2>5. (ReportPassed(r) => Evidence(r)) /\ (o.res = "PASS" /\ stable => ReportPassed(r))
    <3>1. /\ r.ver.res = o.res /\ r.ver.stable = stable /\ r.ver.subj = exec.subj
          /\ r.ver.gateSubj = runs[exec.run].gate.subj
      BY <2>4
    <3> HIDE DEF r, v, stable
    <3> QED
      BY ONLY <2>2, <3>1 DEF Evidence, ReportPassed
  <2>6. runs' = [runs EXCEPT ![exec.run] = r]
    BY <2>1
  <2> HIDE DEF r, v, stable
  <2>7. /\ DOMAIN runs' = DOMAIN runs /\ runs'[exec.run] = r
        /\ \A j \in DOMAIN runs : j # exec.run => runs'[j] = runs[j]
    BY <2>2, <2>6
  <2>8. PassedIsEvidence'
    BY <2>5, <2>7 DEF SafeInv, PassedIsEvidence
  <2>9. LegalMove /\ status' # "DONE"
    BY <2>2 DEF LegalMove
  <2>10. CASE Return
    BY <2>8, <2>9, <2>10, ReturnsQuietly, Quiet
  <2>11. CASE o.res = "PASS" /\ stable /\ Goto("verdict", exec)
    <3>1. pc' = "verdict" /\ exec' = exec
      BY <2>11 DEF Goto
    <3> QED
      BY <2>2, <2>5, <2>7, <2>8, <2>9, <2>11, <3>1 DEF SafeInv, StageStatus
  <2> QED
    BY <2>1, <2>10, <2>11
<1>8. CASE WriteDone
  <2>1. /\ CheckTransition(status, status') /\ runs' = runs /\ pc' \in {Idle, "loop"}
        /\ ReportPassed(runs[exec.run]) /\ exec.run \in DOMAIN runs
    BY <1>8, ReturnsQuietly DEF WriteDone, writeStatus, SafeInv, TypeInv, AtHand
  <2> QED
    BY <1>0, <2>1, QuietSafe DEF Passed
<1> QED
  BY <1>1, <1>2, <1>3, <1>4, <1>5, <1>6, <1>7, <1>8 DEF StageStep

\* The Triage: nothing it decides concerns a DONE Task.
LEMMA TriageSafe == ASSUME TypeInv, SafeInv, TriageStep PROVE SafeInv' /\ LegalMove
<1>0. /\ TypeOK /\ RunsOK(runs) /\ SameVerdicts(runs, runs) /\ status # "DONE"
      /\ exec \in Execs /\ exec.run \in DOMAIN runs
  BY DEF TypeInv, TypeOK, AtHand, SafeInv, SameVerdicts, TriageStep, TriageUnavailable, Escalate,
         Decide, TriageRerunGates, TriageRerunVerifier, TriageRetry, TriageUnblock, TriageReplan,
         Applying
<1>1. CASE TriageUnavailable \/ Escalate \/ TriageReplan
  <2>1. pc' = Idle /\ status' = status /\ runs' = runs
    BY <1>1 DEF TriageUnavailable, Escalate, TriageReplan, Stop, repo
  <2> QED
    BY <1>0, <2>1, QuietSafe
<1>2. ASSUME NEW d \in Decisions, Decide(d) PROVE SafeInv' /\ LegalMove
  <2>1. pc' = "apply" /\ status' = status /\ runs' = runs
    BY <1>2 DEF Decide, Goto
  <2>2. PassedIsEvidence'
    BY <1>0, <2>1, Carried
  <2> QED
    BY <1>0, <2>1, <2>2 DEF SafeInv, StageStatus, LegalMove
<1>3. CASE TriageRerunGates
  <2> DEFINE i  == exec.run
             rs == IF runs[i].ver.res # "none" THEN VerificationArchived(runs, i) ELSE runs
  <2>1. stageGate(rs, i, TRUE, Tick(1)) /\ status' = status
    BY <1>3 DEF TriageRerunGates
  <2>2. RunsOK(rs) /\ Len(rs) = Len(runs)
    BY <1>0, ArchivedTypes
  <2>3. \A j \in DOMAIN runs : runs[j] \in Runs
    BY <1>0, LenProperties, ElementOfSeq DEF RunsOK
  <2>4. \A j \in DOMAIN runs : rs[j].ver \in {runs[j].ver, NoVer}
    BY <2>3 DEF VerificationArchived, Runs
  <2>5. DOMAIN rs = DOMAIN runs
    BY DEF VerificationArchived
  <2> HIDE DEF rs
  <2>6. /\ DOMAIN runs' = DOMAIN rs /\ \A j \in DOMAIN rs : runs'[j].ver = rs[j].ver
        /\ pc' = Idle \/ (pc' = "gate" /\ status = "REVIEW")
    BY <1>0, <2>1, <2>2, <2>5, TickType, GateKeeps
  <2>7. PassedIsEvidence'
    BY <2>4, <2>5, <2>6, Archived DEF SafeInv
  <2> QED
    BY <1>0, <2>1, <2>6, <2>7 DEF SafeInv, StageStatus, LegalMove, Idle
<1>4. CASE TriageRerunVerifier
  <2>1. stageVerify(runs, exec.run, TRUE, Tick(1)) /\ status' = status
    BY <1>4 DEF TriageRerunVerifier
  <2> QED
    BY <1>0, <2>1, TickType, VerifySafe
<1>5. CASE TriageRetry
  <2>1. startRetryAttempt(exec.run, TRUE, Tick(1))
    BY <1>5 DEF TriageRetry
  <2> QED
    BY <1>0, <2>1, TickType, RetrySafe
<1>6. CASE TriageUnblock
  <2>1. status' = "TODO" /\ CheckTransition(status, status') /\ runs' = runs /\ pc' = "loop"
    BY <1>6 DEF TriageUnblock, writeStatus, Goto
  <2> QED
    BY <1>0, <2>1, QuietSafe
<1> QED
  BY <1>1, <1>2, <1>3, <1>4, <1>5, <1>6 DEF TriageStep

\* The commands, of a person who types any state but DONE.
LEMMA CommandSafe ==
  ASSUME DoneIsNotTyped, TypeInv, SafeInv, Commands
  PROVE  SafeInv' /\ LegalMove
<1>0. TypeOK /\ RunsOK(runs) /\ SameVerdicts(runs, runs) /\ Single \in Execs
  BY NoExecType DEF TypeInv, TypeOK, SameVerdicts
<1>1. ASSUME NEW ack \in BOOLEAN, Execute(ack) PROVE SafeInv' /\ LegalMove
  <2>1. pc' = "loop" /\ status' = status /\ runs' = runs
    BY <1>1 DEF Execute, repo
  <2> QED
    BY <1>0, <2>1, QuietSafe
<1>2. CASE CmdRun
  BY <1>2, BeginSafe DEF CmdRun
<1>3. CASE CmdSnapshot
  <2>1. runs' = Append(runs, NewRun(1, "FIRST", 0)) /\ status' = status /\ pc' = Idle
    BY <1>3 DEF CmdSnapshot, Command
  <2>2. SameVerdicts(runs, runs')
    BY <1>0, <2>1, Appended, LenProperties DEF RunActs, RunsOK
  <2> QED
    BY <2>1, <2>2, QuietSafe
<1>4. ASSUME NEW to \in States, CmdTransition(to) PROVE SafeInv' /\ LegalMove
  <2>1. /\ CheckTransition(status, status') /\ status' # "DONE"
        /\ runs' = runs /\ pc' = Idle
    BY <1>0, <1>4 DEF CmdTransition, Command, writeStatus, DoneIsNotTyped, TypeOK
  <2> QED
    BY <1>0, <2>1, QuietSafe
<1>5. ASSUME NEW i \in DOMAIN runs, CmdRetry(i) PROVE SafeInv' /\ LegalMove
  BY <1>0, <1>5, RetrySafe DEF CmdRetry
<1>6. ASSUME NEW i \in DOMAIN runs, CmdDiagnose(i) PROVE SafeInv' /\ LegalMove
  <2>1. runs' = Diagnose(runs, i, Current) /\ UNCHANGED <<status, pc, exec>>
    BY <1>6 DEF CmdDiagnose
  <2>2. /\ DOMAIN runs' = DOMAIN runs
        /\ \A j \in DOMAIN runs : /\ runs'[j].env = runs[j].env
                                  /\ runs'[j].gate = runs[j].gate
                                  /\ runs'[j].ver = runs[j].ver
    BY <1>0, <2>1, DiagnoseType
  <2>3. SameVerdicts(runs, runs')
    BY <2>2 DEF SameVerdicts
  <2>4. PassedIsEvidence' /\ (status' = "DONE" => Passed(runs'))
    BY <2>1, <2>3, Carried
  <2>5. pc \in {"requested", "verify", "verdict"} => exec.run \in DOMAIN runs
    BY DEF TypeInv, AtHand
  <2> QED
    BY <2>1, <2>2, <2>3, <2>4, <2>5 DEF SafeInv, StageStatus, LegalMove, ReportPassed
<1>7. ASSUME NEW i \in DOMAIN runs, NEW rerun \in BOOLEAN, CmdGate(i, rerun)
      PROVE  SafeInv' /\ LegalMove
  BY <1>0, <1>7, GateSafe DEF CmdGate
<1>8. ASSUME NEW i \in DOMAIN runs, NEW rerun \in BOOLEAN, CmdVerify(i, rerun)
      PROVE  SafeInv' /\ LegalMove
  BY <1>0, <1>8, VerifySafe DEF CmdVerify
<1> QED
  BY <1>1, <1>2, <1>3, <1>4, <1>5, <1>6, <1>7, <1>8 DEF Commands

\* The tree, PAUSE and crashes leave the status and every verdict alone.
LEMMA EnvironmentSafe ==
  ASSUME TypeInv, SafeInv, TogglePause \/ Edit \/ Crash
  PROVE  SafeInv' /\ LegalMove
<1>0. RunsOK(runs) /\ SameVerdicts(runs, runs)
  BY DEF TypeInv, TypeOK, SameVerdicts
<1>1. CASE TogglePause \/ Edit
  <2>1. UNCHANGED <<status, runs, pc, exec>>
    BY <1>1 DEF TogglePause, Edit, repo
  <2> QED
    BY <1>0, <2>1 DEF SafeInv, StageStatus, PassedIsEvidence, Passed, LegalMove
<1>2. CASE Crash
  <2>1. pc' = Idle /\ status' = status
    BY <1>2 DEF Crash, Stop
  <2>2. CASE runs' = runs
    BY <1>0, <2>1, <2>2, QuietSafe
  <2>3. CASE pc \in {"gate", "verify"} /\ runs' # runs
    <3> DEFINE g == [runs[exec.run] EXCEPT !.gateDebris = TRUE]
               v == [runs[exec.run] EXCEPT !.verDebris = TRUE]
    <3>1. exec.run \in DOMAIN runs
      BY <2>3 DEF TypeInv, AtHand
    <3>2. runs[exec.run] \in Runs
      BY <1>0, <3>1, LenProperties, ElementOfSeq DEF RunsOK
    <3>3. g.ver = runs[exec.run].ver /\ v.ver = runs[exec.run].ver
      BY <3>2 DEF Runs
    <3>4. runs' = [runs EXCEPT ![exec.run] = g] \/ runs' = [runs EXCEPT ![exec.run] = v]
      BY <1>2, <2>3 DEF Crash
    <3> HIDE DEF g, v
    <3>5. SameVerdicts(runs, runs')
      BY <1>0, <3>1, <3>3, <3>4, Rewritten
    <3> QED
      BY <2>1, <3>5, QuietSafe
  <2> QED
    BY <1>2, <2>2, <2>3 DEF Crash
<1> QED
  BY <1>1, <1>2

\* Every step keeps the invariant, and is a legal move of the Task.
LEMMA SafeStep ==
  ASSUME DoneIsNotTyped, TypeInv, SafeInv, [Next]_vars
  PROVE  SafeInv' /\ LegalMove
<1>1. CASE UNCHANGED vars
  <2>1. UNCHANGED <<status, runs, pc, exec>>
    BY <1>1 DEF vars, repo
  <2> QED
    BY <2>1 DEF SafeInv, StageStatus, PassedIsEvidence, Passed, LegalMove, SameVerdicts
<1>2. CASE Next
  BY <1>2, LoopSafe, StageSafe, TriageSafe, CommandSafe, EnvironmentSafe DEF Next, Runtime
<1> QED
  BY <1>1, <1>2

\* SafeInv holds at the start.
LEMMA SafeInit == Init => SafeInv
<1> SUFFICES ASSUME Init PROVE SafeInv
  OBVIOUS
<1>1. DOMAIN runs = {}
  BY DEF Init
<1> QED
  BY <1>1 DEF Init, SafeInv, StageStatus, PassedIsEvidence, Idle

\* While a stage runs, nobody moved the Task out of the state the stage needs:
\* the operation lock keeps every other status write away from it.
THEOREM StageStatusHolds ==
  ASSUME DoneIsNotTyped PROVE Spec => []StageStatus
<1>1. TypeInv /\ SafeInv /\ [Next]_vars => (TypeInv /\ SafeInv)'
  BY TypeStep, SafeStep
<1>2. SafeInv => StageStatus
  BY DEF SafeInv
<1> QED
  BY <1>1, <1>2, TypeInit, SafeInit, PTL DEF Spec

\* DONE rests on a PASS report whose gates passed on the same REVIEW tree,
\* after any crash, rerun, retry, Triage or command except a typed DONE.
THEOREM DoneIsEvidenced ==
  ASSUME DoneIsNotTyped PROVE Spec => []EvidencedDone
<1>1. TypeInv /\ SafeInv /\ [Next]_vars => (TypeInv /\ SafeInv)'
  BY TypeStep, SafeStep
<1>2. SafeInv => EvidencedDone
  BY DEF SafeInv, EvidencedDone, Passed, PassedIsEvidence
<1> QED
  BY <1>1, <1>2, TypeInit, SafeInit, PTL DEF Spec

\* A legal move is a step, or a stutter, of the Task as TaskPromise has it.
LEMMA MoveRefines ==
  ASSUME TypeInv, TypeInv', LegalMove
  PROVE  [Promise!Next]_<<status, Passed(runs)>>
<1>1. status \in States /\ status' \in States
  BY DEF TypeInv, TypeOK
<1>2. Passed(runs) \in BOOLEAN /\ Passed(runs') \in BOOLEAN
  BY DEF Passed
<1>3. CASE status' = status /\ status # "DONE"
  BY <1>2, <1>3 DEF Promise!Next, Promise!Judge
<1>4. CASE status' = status /\ SameVerdicts(runs, runs')
  <2>1. Passed(runs') = Passed(runs)
    BY <1>2, <1>4, SamePassed
  <2> QED
    BY <1>4, <2>1
<1>5. CASE /\ CheckTransition(status, status') /\ SameVerdicts(runs, runs')
           /\ status' = "DONE" => Passed(runs)
  <2>1. Promise!CheckTransition(status, status')
    BY <1>5 DEF CheckTransition, TRANSITIONS, Promise!CheckTransition, Promise!TRANSITIONS
  <2>2. Promise!Move(status')
    BY <1>2, <1>5, <2>1, SamePassed DEF Promise!Move
  <2> QED
    BY <1>1, <2>2 DEF Promise!Next, Promise!States, States
<1> QED
  BY <1>3, <1>4, <1>5 DEF LegalMove

\* The whole runtime, with its runs, gates, verifiers, Triage and crashes, does
\* to a Task what TaskPromise allows and nothing else.
THEOREM PromiseKept ==
  ASSUME DoneIsNotTyped PROVE Spec => KeepsPromise
<1>1. Init => Promise!Init
  <2> SUFFICES ASSUME Init PROVE Promise!Init
    OBVIOUS
  <2>1. DOMAIN runs = {}
    BY DEF Init
  <2> QED
    BY <2>1 DEF Init, Promise!Init, Passed
<1>2. TypeInv /\ SafeInv /\ [Next]_vars =>
        (TypeInv /\ SafeInv)' /\ [Promise!Next]_<<status, Passed(runs)>>
  BY TypeStep, SafeStep, MoveRefines
<1> QED
  BY <1>1, <1>2, TypeInit, SafeInit, PTL DEF Spec, KeepsPromise, Promise!Spec

-----------------------------------------------------------------------------
(* A Task driven by execute alone: the newest completed attempt is the one *)
(* that was gated and verified, and a PASS report ends the work on it.     *)

\* Gates, verifier and Triage work on the newest completed run.
ReadyInv == /\ pc \in {"gate", "verify", "verdict", "triage", "apply"}
                 => exec.run = LatestCompleted(runs)
            /\ pc = "verify" => GatePassed(runs[exec.run])

\* What a PASS report is worth: its gates still are the PASS it was built on, no
\* newer attempt completed, and nothing is left to do but the DONE write.
FinalInv ==
  Passed(runs) =>
    /\ status \in {"REVIEW", "DONE"}
    /\ pc \in {Idle, "loop", "verdict", "triage", "apply"}
    /\ pc = "triage" => exec.menu \subseteq {"REPLAN"}
    /\ pc = "apply" => exec.act = "REPLAN"
    /\ \A i \in DOMAIN runs : ReportPassed(runs[i]) =>
         i = LatestCompleted(runs) /\ GatePassed(runs[i]) /\ runs[i].gate.subj = runs[i].ver.subj

FinalKept == ReadyInv' /\ FinalInv'

\* The same runs, with the same envelopes; a verdict is kept or archived.
OnlyArchives(rs, rs2) ==
  /\ DOMAIN rs2 = DOMAIN rs
  /\ \A j \in DOMAIN rs : rs2[j].env = rs[j].env /\ rs2[j].ver \in {rs[j].ver, NoVer}

\* Archiving makes no run newer, and none pass.
LEMMA ArchivesKeep ==
  ASSUME NEW rs, RunsOK(rs), NEW rs2, RunsOK(rs2), OnlyArchives(rs, rs2)
  PROVE  /\ LatestCompleted(rs2) = LatestCompleted(rs)
         /\ ~Passed(rs) => ~Passed(rs2)
<1>1. LatestCompleted(rs2) = LatestCompleted(rs)
  <2>1. rs \in Seq(Runs) /\ rs2 \in Seq(Runs)
    BY DEF RunsOK
  <2> QED
    BY <2>1, SameLatest DEF OnlyArchives
<1>2. ASSUME Passed(rs2) PROVE Passed(rs)
  <2>1. PICK j \in DOMAIN rs2 : ReportPassed(rs2[j])
    BY <1>2 DEF Passed
  <2>2. j \in DOMAIN rs /\ rs2[j].ver = rs[j].ver
    BY <2>1, NoVerNotPassed DEF OnlyArchives
  <2> QED
    BY <2>1, <2>2 DEF Passed, ReportPassed
<1> QED
  BY <1>1, <1>2

\* Doing nothing archives nothing.
LEMMA ArchivesReflexive == OnlyArchives(runs, runs)
BY DEF OnlyArchives

\* Nor does a diagnosis.
LEMMA DiagnosedArchives == ASSUME TypeOK PROVE RunsOK(Diagnosed) /\ OnlyArchives(runs, Diagnosed)
<1> DEFINE i == LatestCompleted(runs)
<1>1. RunsOK(runs) /\ (i = 0 \/ i \in DOMAIN runs)
  BY LatestCompletedIsARun DEF TypeOK, RunsOK
<1>2. Diagnosed = runs \/ (i \in DOMAIN runs /\ Diagnosed = Diagnose(runs, i, Current))
  BY <1>1 DEF Diagnosed, Resolved
<1> HIDE DEF i
<1> QED
  BY <1>1, <1>2, DiagnoseType DEF OnlyArchives

\* Without a PASS report there is nothing final; what counts is the run at hand.
LEMMA QuietFinal ==
  ASSUME ~Passed(runs'), pc' \notin {"gate", "verify", "verdict", "triage", "apply"}
  PROVE  FinalKept
BY DEF FinalKept, ReadyInv, FinalInv

\* A stage at work is one of the newest completed run, on gates that passed.
LEMMA BusyFinal ==
  ASSUME ~Passed(runs'), exec'.run = LatestCompleted(runs'),
         pc' = "verify" => GatePassed(runs'[exec'.run])
  PROVE  FinalKept
BY DEF FinalKept, ReadyInv, FinalInv

\* A step that keeps the runs but for their archives, and leaves no such stage.
LEMMA ArchivesFinal ==
  ASSUME TypeInv, TypeInv', ~Passed(runs), OnlyArchives(runs, runs'),
         pc' \notin {"gate", "verify", "verdict", "triage", "apply"}
  PROVE  FinalKept
<1>1. RunsOK(runs) /\ RunsOK(runs')
  BY DEF TypeInv, TypeOK
<1>2. ~Passed(runs')
  BY <1>1, ArchivesKeep
<1> QED
  BY <1>2, QuietFinal

\* Starting the gates, or the verifier, of the newest completed run.
LEMMA GateFinal ==
  ASSUME TypeInv, TypeInv', ~Passed(runs), NEW rs, RunsOK(rs), OnlyArchives(runs, rs),
         NEW i, i = LatestCompleted(runs), i \in DOMAIN rs,
         NEW rerun \in BOOLEAN, NEW e \in Execs, stageGate(rs, i, rerun, e)
  PROVE  FinalKept
<1>0. RunsOK(runs) /\ RunsOK(runs') /\ \A j \in DOMAIN rs : rs[j] \in Runs
  BY LenProperties, ElementOfSeq DEF TypeInv, TypeOK, RunsOK
<1>1. runs' = rs \/ runs' = GatesArchived(rs, i)
  BY DEF stageGate
<1>2. /\ DOMAIN GatesArchived(rs, i) = DOMAIN rs
      /\ \A j \in DOMAIN rs : /\ GatesArchived(rs, i)[j].env = rs[j].env
                              /\ GatesArchived(rs, i)[j].ver = rs[j].ver
  BY <1>0 DEF GatesArchived, Runs
<1>3. OnlyArchives(runs, runs')
  BY <1>1, <1>2 DEF OnlyArchives
<1>4. ~Passed(runs') /\ LatestCompleted(runs') = i
  BY <1>0, <1>3, ArchivesKeep
<1> DEFINE f == [e EXCEPT !.run = i, !.subj = Current]
<1>5. f.run = i
  BY DEF Execs
<1>6. pc' = Idle \/ (pc' = "gate" /\ exec' = f)
  BY DEF stageGate, Stop, Goto
<1> HIDE DEF f
<1> QED
  BY <1>4, <1>5, <1>6, QuietFinal, BusyFinal DEF Idle

\* The verifier starts on the newest completed run, whose gates passed.
LEMMA VerifyFinal ==
  ASSUME TypeInv, TypeInv', ~Passed(runs), NEW rs, RunsOK(rs), OnlyArchives(runs, rs),
         NEW i, i = LatestCompleted(runs), i \in DOMAIN rs,
         NEW rerun \in BOOLEAN, NEW e \in Execs, stageVerify(rs, i, rerun, e)
  PROVE  FinalKept
<1>0. RunsOK(runs) /\ RunsOK(runs') /\ \A j \in DOMAIN rs : rs[j] \in Runs
  BY LenProperties, ElementOfSeq DEF TypeInv, TypeOK, RunsOK
<1>1. runs' = rs \/ runs' = VerificationArchived(rs, i)
  BY DEF stageVerify
<1>2. /\ DOMAIN VerificationArchived(rs, i) = DOMAIN rs
      /\ \A j \in DOMAIN rs : /\ VerificationArchived(rs, i)[j].env = rs[j].env
                              /\ VerificationArchived(rs, i)[j].gate = rs[j].gate
                              /\ VerificationArchived(rs, i)[j].ver \in {rs[j].ver, NoVer}
  BY <1>0 DEF VerificationArchived, Runs
<1>3. OnlyArchives(runs, runs') /\ runs'[i].gate = rs[i].gate
  BY <1>1, <1>2 DEF OnlyArchives
<1>4. ~Passed(runs') /\ LatestCompleted(runs') = i
  BY <1>0, <1>3, ArchivesKeep
<1> DEFINE f == [e EXCEPT !.run = i, !.subj = Current]
<1>5. f.run = i
  BY DEF Execs
<1>6. pc' = Idle \/ (pc' = "verify" /\ exec' = f /\ GatePassed(rs[i]))
  BY DEF stageVerify, Stop, Goto, checkVerifierEligibility
<1> HIDE DEF f
<1> QED
  BY <1>3, <1>4, <1>5, <1>6, QuietFinal, BusyFinal DEF Idle, GatePassed

\* A retry changes no verdict.
LEMMA RetryFinal ==
  ASSUME TypeInv, TypeInv', ~Passed(runs), NEW i \in DOMAIN runs,
         NEW withLesson \in BOOLEAN, NEW e \in Execs, startRetryAttempt(i, withLesson, e)
  PROVE  FinalKept
<1>1. SameVerdicts(runs, runs') /\ pc' \in {Idle, "snapshot"}
  BY RetryMoves DEF TypeInv
<1> QED
  BY <1>1, SamePassed, QuietFinal DEF Idle

\* The report that a run has just been given is the only PASS report there is.
LEMMA JudgedFinal ==
  ASSUME RunsOK(runs), RunsOK(runs'), ~Passed(runs), NEW i \in DOMAIN runs, NEW r,
         i = LatestCompleted(runs), r.env = runs[i].env, r.gate = runs[i].gate,
         runs' = [runs EXCEPT ![i] = r],
         ReportPassed(r) =>
           /\ status' = "REVIEW" /\ pc' = "verdict"
           /\ GatePassed(runs[i]) /\ runs[i].gate.subj = r.ver.subj,
         pc' \in {Idle, "loop", "verdict"}, pc' = "verdict" => exec'.run = i
  PROVE  FinalKept
<1>1. /\ DOMAIN runs' = DOMAIN runs /\ runs'[i] = r
      /\ \A j \in DOMAIN runs : j # i => runs'[j] = runs[j]
  OBVIOUS
<1>2. LatestCompleted(runs') = i
  <2>1. \A j \in DOMAIN runs : runs'[j].env = runs[j].env
    BY <1>1
  <2>2. runs \in Seq(Runs) /\ runs' \in Seq(Runs)
    BY DEF RunsOK
  <2>3. DOMAIN runs' = DOMAIN runs
    BY <1>1
  <2>4. LatestCompleted(runs') = LatestCompleted(runs)
    BY ONLY <2>1, <2>2, <2>3, SameLatest
  <2> QED
    BY <2>4
<1>3. ReadyInv'
  BY <1>2 DEF ReadyInv, Idle
<1>4. \A j \in DOMAIN runs' : ReportPassed(runs'[j]) => j = i
  BY <1>1 DEF Passed
<1>5. FinalInv'
  <2> SUFFICES ASSUME Passed(runs') PROVE FinalInv'
    BY DEF FinalInv
  <2>1. ReportPassed(r)
    BY <1>1, <1>4, Passed(runs') DEF Passed
  <2>2. GatePassed(runs'[i]) /\ runs'[i].gate.subj = runs'[i].ver.subj
    BY <1>1, <2>1 DEF GatePassed
  <2> QED
    BY <1>2, <1>4, <2>1, <2>2 DEF FinalInv
<1> QED
  BY <1>3, <1>5 DEF FinalKept

\* Before anything passed, the loop keeps to the newest completed run.
LEMMA LoopFinal == ASSUME TypeInv, TypeInv', ~Passed(runs), LoopStep PROVE FinalKept
<1> DEFINE i == LatestCompleted(runs)
<1>0. /\ TypeOK /\ RunsOK(runs) /\ RunsOK(runs') /\ Tick(1) \in Execs /\ Tick(2) \in Execs
      /\ OnlyArchives(runs, runs) /\ RunsOK(Diagnosed) /\ OnlyArchives(runs, Diagnosed)
  BY TickType, ArchivesReflexive, DiagnosedArchives DEF TypeInv, TypeOK
<1>00. status \in {"TODO", "IN_PROGRESS", "REVIEW", "DONE", "BLOCKED", "DROPPED"}
  BY DEF TypeInv, TypeOK, States
<1>1. CASE GuardStop \/ OperatorStop \/ StopStep
  <2>1. pc' = Idle /\ (runs' = runs \/ runs' = Diagnosed)
    BY <1>1 DEF GuardStop, OperatorStop, StopStep, Stop, repo
  <2> QED
    BY <1>0, <2>1, ArchivesFinal DEF Idle
<1>2. CASE AskTriage
  <2> DEFINE e == [exec EXCEPT !.run = i, !.subj = Current, !.menu = Menu]
  <2>1. pc' = "triage" /\ exec' = e /\ runs' = Diagnosed
    BY <1>2 DEF AskTriage, Goto
  <2>2. e.run = i
    BY DEF TypeInv, TypeOK, Execs
  <2> HIDE DEF e
  <2>3. ~Passed(runs') /\ LatestCompleted(runs') = i
    BY <1>0, <2>1, ArchivesKeep
  <2> QED
    BY <2>1, <2>2, <2>3, BusyFinal
<1>3. CASE ApplyResult \/ RecoverDone
  <2>1. pc' = "loop" /\ runs' = runs
    BY <1>3 DEF ApplyResult, RecoverDone, Goto
  <2> QED
    BY <1>0, <2>1, ArchivesFinal
<1>4. CASE RunWorker
  <2>1. pc' = "snapshot" /\ runs' = runs
    BY <1>4, BeginMoves DEF RunWorker
  <2> QED
    BY <1>0, <2>1, ArchivesFinal
<1>5. CASE RetryWorker
  <2>1. NextAction = "RETRY_WORKER" /\ startRetryAttempt(i, FALSE, Tick(2))
    BY <1>5 DEF RetryWorker, Step
  <2>2. i \in DOMAIN runs
    BY <1>0, <2>1, LoopRun
  <2> HIDE DEF i
  <2> QED
    BY <1>0, <2>1, <2>2, RetryFinal
<1>6. CASE RunGates
  <2>1. NextAction = "RUN_GATES" /\ stageGate(runs, i, FALSE, Tick(1))
    BY <1>6 DEF RunGates, Step
  <2>2. i \in DOMAIN runs /\ i = LatestCompleted(runs)
    BY <1>0, <2>1, LoopRun
  <2> HIDE DEF i
  <2> QED
    BY <1>0, <2>1, <2>2, GateFinal
<1>7. CASE RerunGates
  <2>1. NextAction = "RERUN_GATES"
    BY <1>7 DEF RerunGates, Step
  <2>2. CASE exec.reruns >= 1
    <3>1. pc' = Idle /\ runs' = runs
      BY <1>7, <2>2 DEF RerunGates, Stop
    <3> QED
      BY <1>0, <3>1, ArchivesFinal DEF Idle
  <2>3. CASE ~(exec.reruns >= 1)
    <3> DEFINE e == [Tick(1) EXCEPT !.reruns = @ + 1]
    <3>1. stageGate(runs, i, TRUE, e)
      BY <1>7, <2>3 DEF RerunGates
    <3>2. e \in Execs
      BY <1>0 DEF Execs
    <3>3. i \in DOMAIN runs /\ i = LatestCompleted(runs)
      BY <1>0, <2>1, LoopRun
    <3> HIDE DEF e, i
    <3> QED
      BY <1>0, <3>1, <3>2, <3>3, GateFinal
  <2> QED
    BY <2>2, <2>3
<1>8. CASE CompleteGates
  <2> DEFINE v == [res |-> "PASS", det |-> "none", stable |-> TRUE, method |-> "gate-only",
                   subj |-> Current, gateSubj |-> runs[i].gate.subj]
             r == [runs[i] EXCEPT !.ver = v]
             e == [Tick(1) EXCEPT !.run = i]
  <2>1. /\ NextAction = "COMPLETE_GATES" /\ status' = status
        /\ runs' = [runs EXCEPT ![i] = r] /\ pc' = "verdict" /\ exec' = e
    BY <1>8 DEF CompleteGates, Step, Goto
  <2>2. i \in DOMAIN runs /\ status = "REVIEW" /\ runs[i].gate.subj = Current
    BY <1>0, <1>00, <2>1, LoopRun, NextActionMeans DEF NextAction, GateStale
  <2>3. GatePassed(runs[i])
    BY <1>00, <2>1, CompletesOnPassedGates DEF NextAction
  <2>4. runs[i] \in Runs
    BY <1>0, <2>2, LenProperties, ElementOfSeq DEF RunsOK
  <2>5. r.env = runs[i].env /\ r.gate = runs[i].gate /\ r.ver.subj = Current
    BY <2>4 DEF Runs
  <2>6. e.run = i
    BY <1>0 DEF Execs
  <2>7. i = LatestCompleted(runs)
    OBVIOUS
  <2> HIDE DEF r, e, v, i
  <2> QED
    BY <1>0, <2>1, <2>2, <2>3, <2>5, <2>6, <2>7, JudgedFinal
<1>9. CASE RunVerifier
  <2> DEFINE again == ReportFailed(runs[i])
  <2>1. NextAction = "RUN_VERIFIER" /\ stageVerify(Diagnosed, i, again, Tick(1))
    BY <1>9 DEF RunVerifier, Step
  <2>2. again \in BOOLEAN
    BY DEF ReportFailed
  <2>3. i \in DOMAIN Diagnosed /\ i = LatestCompleted(runs)
    BY <1>0, <2>1, LoopRun DEF OnlyArchives
  <2> HIDE DEF again, i
  <2> QED
    BY <1>0, <2>1, <2>2, <2>3, VerifyFinal
<1> QED
  BY <1>1, <1>2, <1>3, <1>4, <1>5, <1>6, <1>7, <1>8, <1>9 DEF LoopStep

\* A verdict becomes final with the stable PASS of the verifier at hand.
LEMMA StageFinal ==
  ASSUME TypeInv, TypeInv', SafeInv, ReadyInv, ~Passed(runs), StageStep PROVE FinalKept
<1>0. /\ TypeOK /\ RunsOK(runs) /\ RunsOK(runs') /\ OnlyArchives(runs, runs)
      /\ SameVerdicts(runs, runs)
  BY ArchivesReflexive DEF TypeInv, TypeOK, SameVerdicts
<1>00. ASSUME Return PROVE pc' \in {"idle", "loop"}
  BY <1>00, ReturnsQuietly DEF Idle
<1>1. CASE Snapshot
  <2>1. PICK n \in 1..(Len(runs) + 1) : runs' = Append(runs, NewRun(n, exec.act, exec.run))
    BY <1>1 DEF Snapshot
  <2>2. n \in Nat \ {0} /\ exec.run \in 0..Len(runs) /\ exec.act \in RunActs
    BY <1>0, <1>1, <2>1, LenProperties DEF Snapshot, TypeInv, AtHand, RunsOK
  <2>3. SameVerdicts(runs, runs') /\ pc' = "worker"
    BY <1>0, <1>1, <2>1, <2>2, Appended DEF Snapshot, Goto
  <2> QED
    BY <2>3, SamePassed, QuietFinal
<1>2. CASE SnapshotFails \/ WorkerUnavailable \/ ApplyRequested \/ WriteDone
  <2>1. pc' \in {"idle", "loop"} /\ runs' = runs
    BY <1>00, <1>2 DEF SnapshotFails, WorkerUnavailable, ApplyRequested, WriteDone, Stop, Idle, repo
  <2> QED
    BY <1>0, <2>1, ArchivesFinal
<1>3. CASE WorkerFinish
  <2>1. PICK o \in WorkerOutcomes, t \in Trees :
          /\ runs' = [runs EXCEPT ![exec.run] = [@ EXCEPT !.env =
                        [w |-> o.w, req |-> o.req, subj |-> Subject(t, status)]]]
          /\ Goto("requested", exec) \/ Return
    BY <1>3 DEF WorkerFinish
  <2> DEFINE v == [w |-> o.w, req |-> o.req, subj |-> Subject(t, status)]
             r == [runs[exec.run] EXCEPT !.env = v]
  <2>2. exec.run \in DOMAIN runs
    BY <1>3 DEF WorkerFinish, TypeInv, AtHand
  <2>3. runs[exec.run] \in Runs
    BY <1>0, <2>2, LenProperties, ElementOfSeq DEF RunsOK
  <2>4. r.ver = runs[exec.run].ver
    BY <2>3 DEF Runs
  <2>5. runs' = [runs EXCEPT ![exec.run] = r]
    BY <2>1
  <2> HIDE DEF r
  <2>6. SameVerdicts(runs, runs')
    BY <1>0, <2>2, <2>4, <2>5, Rewritten
  <2>7. pc' \in {"requested", "idle", "loop"}
    BY <1>00, <2>1 DEF Goto
  <2> QED
    BY <2>6, <2>7, SamePassed, QuietFinal
<1>4. CASE GateFinish
  <2>1. PICK o \in GateOutcomes :
          runs' = [runs EXCEPT ![exec.run] = [@ EXCEPT !.gateDebris = FALSE,
                     !.gate = [res |-> o.res, det |-> o.det, subj |-> exec.subj]]]
    BY <1>4 DEF GateFinish
  <2> DEFINE v == [res |-> o.res, det |-> o.det, subj |-> exec.subj]
             r == [runs[exec.run] EXCEPT !.gateDebris = FALSE, !.gate = v]
  <2>2. exec.run \in DOMAIN runs /\ pc' \in {"idle", "loop"}
    BY <1>00, <1>4 DEF GateFinish, TypeInv, AtHand
  <2>3. runs[exec.run] \in Runs
    BY <1>0, <2>2, LenProperties, ElementOfSeq DEF RunsOK
  <2>4. r.ver = runs[exec.run].ver
    BY <2>3 DEF Runs
  <2>5. runs' = [runs EXCEPT ![exec.run] = r]
    BY <2>1
  <2> HIDE DEF r
  <2>6. SameVerdicts(runs, runs')
    BY <1>0, <2>2, <2>4, <2>5, Rewritten
  <2> QED
    BY <2>2, <2>6, SamePassed, QuietFinal
<1>5. CASE VerifyFinish
  <2> DEFINE stable == exec.subj = Current
  <2>1. PICK o \in VerifierOutcomes :
          /\ runs' = [runs EXCEPT ![exec.run] = [@ EXCEPT !.verDebris = FALSE,
                        !.ver = [res |-> o.res, det |-> o.det, stable |-> stable,
                                 method |-> "verifier", subj |-> exec.subj,
                                 gateSubj |-> runs[exec.run].gate.subj]]]
          /\ IF o.res = "PASS" /\ stable THEN Goto("verdict", exec) ELSE Return
    BY <1>5 DEF VerifyFinish
  <2> DEFINE v == [res |-> o.res, det |-> o.det, stable |-> stable, method |-> "verifier",
                   subj |-> exec.subj, gateSubj |-> runs[exec.run].gate.subj]
             r == [runs[exec.run] EXCEPT !.verDebris = FALSE, !.ver = v]
  <2>2. /\ exec.run \in DOMAIN runs /\ status' = "REVIEW"
        /\ exec.run = LatestCompleted(runs) /\ GatePassed(runs[exec.run])
        /\ runs[exec.run].gate.subj = exec.subj
    BY <1>5 DEF VerifyFinish, TypeInv, AtHand, SafeInv, StageStatus, ReadyInv
  <2>3. runs[exec.run] \in Runs
    BY <1>0, <2>2, LenProperties, ElementOfSeq DEF RunsOK
  <2>4. r.ver = v /\ r.env = runs[exec.run].env /\ r.gate = runs[exec.run].gate
    <3> HIDE DEF v
    <3> QED
      BY <2>3 DEF Runs
  <2>5. r.ver.subj = exec.subj /\ r.ver.res = o.res /\ r.ver.stable = stable
    BY <2>4
  <2>6. runs' = [runs EXCEPT ![exec.run] = r]
    BY <2>1
  <2> HIDE DEF r, v, stable
  <2>7. pc' \in {Idle, "loop", "verdict"} /\ (pc' = "verdict" => exec' = exec)
    BY <1>00, <2>1 DEF Goto, Idle
  <2>8. ReportPassed(r) => pc' = "verdict"
    BY <2>1, <2>5 DEF ReportPassed, Goto
  <2> QED
    BY <1>0, <2>2, <2>4, <2>5, <2>6, <2>7, <2>8, JudgedFinal
<1> QED
  BY <1>1, <1>2, <1>3, <1>4, <1>5 DEF StageStep

\* The decisions of the Triage are carried out on the run it was asked about.
LEMMA TriageFinal ==
  ASSUME TypeInv, TypeInv', ReadyInv, ~Passed(runs), TriageStep PROVE FinalKept
<1>0. /\ TypeOK /\ RunsOK(runs) /\ RunsOK(runs') /\ OnlyArchives(runs, runs)
      /\ exec \in Execs /\ Tick(1) \in Execs
      /\ exec.run \in DOMAIN runs /\ exec.run = LatestCompleted(runs)
  BY ArchivesReflexive, TickType
  DEF TypeInv, TypeOK, AtHand, ReadyInv, TriageStep, TriageUnavailable, Escalate,
      Decide, TriageRerunGates, TriageRerunVerifier, TriageRetry, TriageUnblock, TriageReplan,
      Applying
<1>1. CASE TriageUnavailable \/ Escalate \/ TriageReplan \/ TriageUnblock
  <2>1. pc' \in {"idle", "loop"} /\ runs' = runs
    BY <1>1 DEF TriageUnavailable, Escalate, TriageReplan, TriageUnblock, Stop, Goto, Idle, repo
  <2> QED
    BY <1>0, <2>1, ArchivesFinal
<1>2. ASSUME NEW d \in Decisions, Decide(d) PROVE FinalKept
  <2> DEFINE e == [exec EXCEPT !.act = d, !.menu = {}, !.subj = NoSubject]
  <2>1. pc' = "apply" /\ exec' = e /\ runs' = runs
    BY <1>2 DEF Decide, Goto
  <2>2. e.run = exec.run
    BY <1>0 DEF Execs
  <2> HIDE DEF e
  <2> QED
    BY <1>0, <2>1, <2>2, BusyFinal
<1>3. CASE TriageRerunGates
  <2> DEFINE i  == exec.run
             rs == IF runs[i].ver.res # "none" THEN VerificationArchived(runs, i) ELSE runs
  <2>1. stageGate(rs, i, TRUE, Tick(1))
    BY <1>3 DEF TriageRerunGates
  <2>2. RunsOK(rs)
    BY <1>0, ArchivedTypes
  <2>3. \A j \in DOMAIN runs : runs[j] \in Runs
    BY <1>0, LenProperties, ElementOfSeq DEF RunsOK
  <2>4. OnlyArchives(runs, rs)
    BY <2>3 DEF OnlyArchives, VerificationArchived, Runs
  <2>5. i \in DOMAIN rs /\ i = LatestCompleted(runs)
    BY <1>0, <2>4 DEF OnlyArchives
  <2> HIDE DEF rs, i
  <2> QED
    BY <1>0, <2>1, <2>2, <2>4, <2>5, GateFinal
<1>4. CASE TriageRerunVerifier
  <2>1. stageVerify(runs, exec.run, TRUE, Tick(1))
    BY <1>4 DEF TriageRerunVerifier
  <2> QED
    BY <1>0, <2>1, VerifyFinal
<1>5. CASE TriageRetry
  <2>1. startRetryAttempt(exec.run, TRUE, Tick(1))
    BY <1>5 DEF TriageRetry
  <2> QED
    BY <1>0, <2>1, RetryFinal
<1> QED
  BY <1>1, <1>2, <1>3, <1>4, <1>5 DEF TriageStep

\* After a PASS report every step leaves the runs alone, and no worker, gate or
\* verifier is started.
LEMMA PassedStep ==
  ASSUME MaxOps = 0, TypeInv, ReadyInv, FinalInv, Passed(runs), [Next]_vars
  PROVE  /\ ReadyInv' /\ FinalInv'
         /\ runs' = runs /\ pc' \notin {"worker", "gate", "verify"}
<1> DEFINE i == LatestCompleted(runs)
<1>0. /\ TypeOK /\ exec \in Execs /\ ~(ops < MaxOps)
      /\ status \in {"REVIEW", "DONE"}
      /\ pc \in {"idle", "loop", "verdict", "triage", "apply"}
      /\ pc = "triage" => exec.menu \subseteq {"REPLAN"}
      /\ pc = "apply" => exec.act = "REPLAN"
      /\ pc \in {"triage", "apply"} => exec.run = i
  BY DEF TypeInv, TypeOK, FinalInv, ReadyInv, Idle
<1>1. i # 0 /\ ReportPassed(runs[i])
  <2>1. PICK j \in DOMAIN runs : ReportPassed(runs[j])
    BY DEF Passed
  <2>2. j = i
    BY <2>1 DEF FinalInv
  <2>3. j # 0
    BY <1>0, LenProperties DEF TypeOK, RunsOK
  <2> QED
    BY <2>1, <2>2, <2>3
<1>2. /\ NextAction \in {"DONE", "RECOVER_DONE", "STOP_AMBIGUOUS"}
      /\ Menu \subseteq {"REPLAN"} /\ Diagnosed = runs
  BY <1>0, <1>1, PassedChoices DEF NextAction, Menu, Diagnosed
<1> HIDE DEF i
\* It is enough that the files stay and that a waiting Triage can only replan.
<1>3. ASSUME runs' = runs, status' \in {"REVIEW", "DONE"},
             \/ pc' \in {"idle", "loop"}
             \/ UNCHANGED <<pc, exec>>
             \/ pc' = "triage" /\ exec'.menu \subseteq {"REPLAN"} /\ exec'.run = i
             \/ pc' = "apply" /\ exec'.act = "REPLAN" /\ exec'.run = i
      PROVE  /\ ReadyInv' /\ FinalInv'
             /\ runs' = runs /\ pc' \notin {"worker", "gate", "verify"}
  BY <1>0, <1>3 DEF ReadyInv, FinalInv, Idle, i
<1>4. CASE LoopStep
  <2>1. CASE GuardStop \/ OperatorStop \/ StopStep
    <3>1. pc' = "idle" /\ status' = status /\ runs' = runs
      BY <1>2, <2>1 DEF GuardStop, OperatorStop, StopStep, Stop, Idle, repo
    <3> QED
      BY <1>0, <1>3, <3>1
  <2>2. CASE AskTriage
    <3> DEFINE e == [exec EXCEPT !.run = LatestCompleted(runs), !.subj = Current, !.menu = Menu]
    <3>1. pc' = "triage" /\ exec' = e /\ runs' = runs /\ status' = status
      BY <1>2, <2>2 DEF AskTriage, Goto
    <3>2. e.run = i /\ e.menu = Menu
      BY <1>0 DEF Execs, i
    <3> HIDE DEF e
    <3> QED
      BY <1>0, <1>2, <1>3, <3>1, <3>2
  <2>3. CASE RecoverDone
    <3>1. pc' = "loop" /\ status' = "DONE" /\ runs' = runs
      BY <2>3 DEF RecoverDone, Goto, writeStatus
    <3> QED
      BY <1>3, <3>1
  <2>4. ~(\/ ApplyResult \/ RunWorker \/ RetryWorker \/ RunGates \/ RerunGates
          \/ CompleteGates \/ RunVerifier)
    BY <1>2 DEF ApplyResult, RunWorker, RetryWorker, RunGates, RerunGates, CompleteGates,
       RunVerifier, Step
  <2> QED
    BY <1>4, <2>1, <2>2, <2>3, <2>4 DEF LoopStep
<1>5. CASE StageStep
  <2>1. WriteDone
    BY <1>0, <1>5 DEF StageStep, Snapshot, SnapshotFails, WorkerUnavailable, WorkerFinish,
       ApplyRequested, GateFinish, VerifyFinish
  <2>2. pc' \in {"idle", "loop"} /\ status' = "DONE" /\ runs' = runs
    BY <2>1, ReturnsQuietly DEF WriteDone, writeStatus, Idle
  <2> QED
    BY <1>3, <2>2
<1>6. CASE TriageStep
  <2>1. CASE TriageUnavailable \/ Escalate \/ TriageReplan
    <3>1. pc' = "idle" /\ status' = status /\ runs' = runs
      BY <2>1 DEF TriageUnavailable, Escalate, TriageReplan, Stop, Idle, repo
    <3> QED
      BY <1>0, <1>3, <3>1
  <2>2. ASSUME NEW d \in Decisions, Decide(d)
        PROVE  /\ pc' = "apply" /\ exec'.act = "REPLAN" /\ exec'.run = i
               /\ runs' = runs /\ status' = status
    <3> DEFINE e == [exec EXCEPT !.act = d, !.menu = {}, !.subj = NoSubject]
    <3>1. /\ pc = "triage" /\ d \in exec.menu
          /\ pc' = "apply" /\ exec' = e /\ runs' = runs /\ status' = status
      BY <2>2 DEF Decide, Goto
    <3>2. e.run = exec.run /\ e.act = d
      BY <1>0 DEF Execs
    <3> HIDE DEF e
    <3>3. d = "REPLAN"
      BY <1>0, <3>1
    <3> QED
      BY <1>0, <3>1, <3>2, <3>3
  <2>3. ~(TriageRerunGates \/ TriageRerunVerifier \/ TriageRetry \/ TriageUnblock)
    BY <1>0 DEF TriageRerunGates, TriageRerunVerifier, TriageRetry, TriageUnblock, Applying
  <2>4. CASE \E d \in Decisions : Decide(d)
    BY <1>0, <1>3, <2>2, <2>4
  <2> QED
    BY <1>6, <2>1, <2>3, <2>4 DEF TriageStep
<1>7. CASE Commands
  <2>1. PICK ack \in BOOLEAN : Execute(ack)
    BY <1>0, <1>7 DEF Commands, Command, CmdRun, CmdSnapshot, CmdTransition, CmdRetry,
       CmdDiagnose, CmdGate, CmdVerify
  <2>2. pc' = "loop" /\ status' = status /\ runs' = runs
    BY <2>1 DEF Execute, repo
  <2> QED
    BY <1>0, <1>3, <2>2
<1>8. CASE TogglePause \/ Edit \/ UNCHANGED vars
  <2>1. UNCHANGED <<status, runs, pc, exec>>
    BY <1>8 DEF TogglePause, Edit, vars, repo
  <2> QED
    BY <1>0, <1>3, <2>1
<1>9. CASE Crash
  <2>1. pc' = "idle" /\ status' = status /\ runs' = runs
    BY <1>0, <1>9 DEF Crash, Stop, Idle
  <2> QED
    BY <1>0, <1>3, <2>1
<1> QED
  BY <1>4, <1>5, <1>6, <1>7, <1>8, <1>9 DEF Next, Runtime

\* The user, the tree and a crash let nothing pass.
LEMMA OutsideFinal ==
  ASSUME MaxOps = 0, TypeInv, TypeInv', ReadyInv, ~Passed(runs),
         Commands \/ TogglePause \/ Edit \/ Crash \/ UNCHANGED vars
  PROVE  FinalKept
<1>0. /\ TypeOK /\ RunsOK(runs) /\ OnlyArchives(runs, runs) /\ ~(ops < MaxOps)
  BY ArchivesReflexive DEF TypeInv, TypeOK
<1>1. CASE Commands
  <2>1. PICK ack \in BOOLEAN : Execute(ack)
    BY <1>0, <1>1 DEF Commands, Command, CmdRun, CmdSnapshot, CmdTransition, CmdRetry,
       CmdDiagnose, CmdGate, CmdVerify
  <2>2. pc' = "loop" /\ runs' = runs
    BY <2>1 DEF Execute, repo
  <2> QED
    BY <1>0, <2>2, ArchivesFinal
<1>2. CASE TogglePause \/ Edit \/ UNCHANGED vars
  <2>1. UNCHANGED <<runs, pc, exec>>
    BY <1>2 DEF TogglePause, Edit, vars, repo
  <2> QED
    BY <2>1 DEF FinalKept, ReadyInv, FinalInv
<1>3. CASE Crash
  <2>1. OnlyArchives(runs, runs')
    <3>1. CASE runs' = runs
      BY <1>0, <3>1
    <3>2. ASSUME exec.run \in DOMAIN runs,
                 \/ runs' = [runs EXCEPT ![exec.run] = [@ EXCEPT !.gateDebris = TRUE]]
                 \/ runs' = [runs EXCEPT ![exec.run] = [@ EXCEPT !.verDebris = TRUE]]
          PROVE  OnlyArchives(runs, runs')
      <4>1. runs[exec.run] \in Runs
        BY <1>0, <3>2, LenProperties, ElementOfSeq DEF RunsOK
      <4> DEFINE g == [runs[exec.run] EXCEPT !.gateDebris = TRUE]
                 v == [runs[exec.run] EXCEPT !.verDebris = TRUE]
      <4>2. /\ g.env = runs[exec.run].env /\ g.ver = runs[exec.run].ver
            /\ v.env = runs[exec.run].env /\ v.ver = runs[exec.run].ver
        BY <4>1 DEF Runs
      <4>3. runs' = [runs EXCEPT ![exec.run] = g] \/ runs' = [runs EXCEPT ![exec.run] = v]
        BY <3>2
      <4> HIDE DEF g, v
      <4> QED
        BY <3>2, <4>2, <4>3 DEF OnlyArchives
    <3>3. pc \in {"gate", "verify"} => exec.run \in DOMAIN runs
      BY DEF TypeInv, AtHand
    <3> QED
      BY <1>3, <3>1, <3>2, <3>3 DEF Crash
  <2>2. pc' = "idle"
    BY <1>3 DEF Crash, Stop, Idle
  <2> QED
    BY <1>0, <2>1, <2>2, ArchivesFinal
<1> QED
  BY <1>1, <1>2, <1>3

\* Together with SafeInv, the invariant is inductive.
LEMMA FinalStep ==
  ASSUME MaxOps = 0, TypeInv, SafeInv, ReadyInv, FinalInv, [Next]_vars
  PROVE  ReadyInv' /\ FinalInv'
<1>1. TypeInv'
  BY TypeStep
<1>2. CASE Passed(runs)
  BY <1>2, PassedStep
<1>3. CASE ~Passed(runs)
  <2>1. FinalKept
    BY <1>1, <1>3, LoopFinal, StageFinal, TriageFinal, OutsideFinal DEF Next, Runtime
  <2> QED
    BY <2>1 DEF FinalKept
<1> QED
  BY <1>2, <1>3

\* It holds before anything was done.
LEMMA FinalInit == Init => ReadyInv /\ FinalInv
<1> SUFFICES ASSUME Init PROVE ReadyInv /\ FinalInv
  OBVIOUS
<1>1. pc = "idle" /\ DOMAIN runs = {}
  BY DEF Init, Idle
<1> QED
  BY <1>1 DEF ReadyInv, FinalInv, Passed

\* A Task driven by execute alone is DONE on the evidence of its newest completed
\* attempt, whose gate report still is the PASS that the verdict was built on:
\* no rerun, retry, crash or Triage puts an older attempt's verdict in its place.
THEOREM DoneIsByLatest ==
  ASSUME MaxOps = 0 PROVE Spec => []DoneByLatest
<1> DEFINE Inv == TypeInv /\ SafeInv /\ ReadyInv /\ FinalInv
<1>1. Init => Inv
  BY TypeInit, SafeInit, FinalInit
<1>2. Inv /\ [Next]_vars => Inv'
  BY TypeStep, SafeStep, FinalStep DEF DoneIsNotTyped
<1>3. Inv => DoneByLatest
  <2> SUFFICES ASSUME Inv, status = "DONE" PROVE DoneByLatest
    BY DEF DoneByLatest
  <2>1. PICK i \in DOMAIN runs : ReportPassed(runs[i])
    BY DEF SafeInv, Passed
  <2>2. /\ i = LatestCompleted(runs) /\ GatePassed(runs[i])
        /\ runs[i].gate.subj = runs[i].ver.subj /\ Evidence(runs[i])
    BY <2>1 DEF FinalInv, Passed, SafeInv, PassedIsEvidence
  <2> QED
    BY <2>2 DEF DoneByLatest
<1> QED
  BY <1>1, <1>2, <1>3, PTL DEF Spec

\* A PASS report ends the paid work on a Task driven by execute alone: no later
\* step starts a worker, a gate suite or a verifier, adds a run or drops the report.
THEOREM PassStaysFinal ==
  ASSUME MaxOps = 0 PROVE Spec => PassIsFinal
<1> DEFINE Inv == TypeInv /\ SafeInv /\ ReadyInv /\ FinalInv
           Final == Passed(runs) => /\ Passed(runs')
                                    /\ Len(runs') = Len(runs)
                                    /\ pc' \notin {"worker", "gate", "verify"}
<1>1. Init => Inv
  BY TypeInit, SafeInit, FinalInit
<1>2. Inv /\ [Next]_vars => Inv'
  BY TypeStep, SafeStep, FinalStep DEF DoneIsNotTyped
<1>3. Inv /\ [Next]_vars => [Final]_vars
  <2> SUFFICES ASSUME Inv, [Next]_vars, Passed(runs) PROVE Final
    OBVIOUS
  <2>1. runs' = runs /\ pc' \notin {"worker", "gate", "verify"}
    BY PassedStep
  <2> QED
    BY <2>1
<1> QED
  BY <1>1, <1>2, <1>3, PTL DEF Spec, PassIsFinal
=============================================================================
