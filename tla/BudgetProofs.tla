---------------------------- MODULE BudgetProofs ----------------------------
(***************************************************************************)
(* The limits of a Task hold, whoever starts its attempts.  Every step has *)
(* one of four shapes (StepShape): it keeps the act and the attempt number *)
(* of every run; it decides to start an attempt, after checkRetryBudget if *)
(* that is a retry; it creates the run of the attempt decided on; or it is *)
(* the snapshot command.  Between the check and the new run other commands *)
(* may write, which is why BudgetInv must remember what the check found.   *)
(* First attempts and those with a lesson are not in that budget: DueInv   *)
(* counts them against the decisions of the Triage.  TallyInv, the last    *)
(* part, bounds the transitions that an execution still has ahead of it.   *)
(***************************************************************************)
EXTENDS TaskLifecycleProofs, FiniteSetTheorems

\* The loop asks a Triage only below its guard, so its decision is counted within it.
TickInv == /\ TicksBounded
           /\ pc \in {"triage", "apply"} => exec.ticks < loopGuardLimit

\* No run is lost or added, and none changes its act or its attempt number.
RecordsKept(rs, rs2) ==
  /\ DOMAIN rs2 = DOMAIN rs
  /\ \A j \in DOMAIN rs : rs2[j].act = rs[j].act /\ rs2[j].attempt = rs[j].attempt

\* What is left of the budget of act, on the files rs, allows one more attempt.
Affordable(rs, act) ==
  /\ act = "RETRY" => Launched(rs, act) < RetryMax
  /\ act = "RETRY_WITH_HINT" => Launched(rs, act) < HintMax
  /\ act = "RETRY_WITH_TRIAGE" => Launched(rs, act) < TriageRetryMax
  /\ act \in {"RETRY", "RETRY_WITH_HINT"} => \A i \in DOMAIN rs : rs[i].attempt < MaxAttempts

BudgetInv == /\ RetryBudget
             /\ pc = "snapshot" => Affordable(runs, exec.act)

KeepsRecords == /\ RecordsKept(runs, runs')
                /\ pc' = "snapshot" => pc = "snapshot" /\ exec' = exec
DecidesAttempt == RecordsKept(runs, runs') /\ Affordable(runs', exec'.act)
CreatesRun == /\ pc = "snapshot" /\ pc' # "snapshot"
              /\ \E n \in Nat \ {0} : /\ AttemptNumber(n)
                                      /\ runs' = Append(runs, NewRun(n, exec.act, exec.run))
CreatesUnused == /\ pc' # "snapshot"
                 /\ runs' = Append(runs, NewRun(1, "FIRST", 0))

BudgetShape == KeepsRecords \/ DecidesAttempt \/ CreatesRun
StepShape == BudgetShape \/ CreatesUnused

\* Counting: the same records are launched as often.
LEMMA SameLaunched ==
  ASSUME NEW rs, NEW rs2, RecordsKept(rs, rs2), NEW act
  PROVE  Launched(rs2, act) = Launched(rs, act)
<1>1. {i \in DOMAIN rs2 : rs2[i].act = act} = {i \in DOMAIN rs : rs[i].act = act}
  BY DEF RecordsKept
<1> QED
  BY <1>1 DEF Launched

\* Counting: a new run counts once, for its own act.
LEMMA OneMoreLaunched ==
  ASSUME NEW rs, RunsOK(rs), NEW r \in Runs, r.parent <= Len(rs), NEW act
  PROVE  /\ Launched(rs, act) \in Nat
         /\ Launched(Append(rs, r), act) = Launched(rs, act) + (IF r.act = act THEN 1 ELSE 0)
<1> DEFINE S  == {i \in DOMAIN rs : rs[i].act = act}
           S2 == {i \in DOMAIN Append(rs, r) : Append(rs, r)[i].act = act}
           n  == Len(rs)
<1>1. n \in Nat /\ DOMAIN rs = 1..n
  BY LenProperties DEF RunsOK
<1>2. /\ DOMAIN Append(rs, r) = 1..(n + 1)
      /\ \A j \in DOMAIN rs : Append(rs, r)[j] = rs[j]
      /\ Append(rs, r)[n + 1] = r
  BY AppendRun
<1>3. IsFiniteSet(S) /\ Cardinality(S) \in Nat
  <2>1. IsFiniteSet(1..n)
    BY <1>1, FS_Interval
  <2>2. S \subseteq 1..n
    BY <1>1
  <2> QED
    BY <2>1, <2>2, FS_Subset, FS_CardinalityType
<1>4. S2 = IF r.act = act THEN S \cup {n + 1} ELSE S
  BY <1>1, <1>2
<1>5. n + 1 \notin S
  BY <1>1
<1> HIDE DEF S, S2, n
<1>6. Cardinality(S2) = Cardinality(S) + (IF r.act = act THEN 1 ELSE 0)
  <2>1. CASE r.act = act
    BY <1>3, <1>4, <1>5, <2>1, FS_AddElement
  <2>2. CASE r.act # act
    BY <1>3, <1>4, <2>2
  <2> QED
    BY <2>1, <2>2
<1> QED
  BY <1>3, <1>6 DEF Launched, S, S2

\* The four shapes keep the budget.
LEMMA ShapeKeepsBudget ==
  ASSUME TypeInv, TypeInv', BudgetInv, StepShape
  PROVE  BudgetInv'
<1>0. RunsOK(runs) /\ RunsOK(runs')
  BY DEF TypeInv, TypeOK
<1>1. ASSUME RecordsKept(runs, runs') PROVE RetryBudget'
  <2>1. \A act : Launched(runs', act) = Launched(runs, act)
    BY <1>1, SameLaunched
  <2> QED
    BY <1>1, <2>1 DEF BudgetInv, RetryBudget, RecordsKept
<1>2. CASE KeepsRecords
  <2>1. RecordsKept(runs, runs') /\ (pc' = "snapshot" => pc = "snapshot" /\ exec' = exec)
    BY <1>2 DEF KeepsRecords
  <2>2. \A act : Launched(runs', act) = Launched(runs, act)
    BY <2>1, SameLaunched
  <2>3. \A act : Affordable(runs, act) => Affordable(runs', act)
    BY <2>1, <2>2 DEF Affordable, RecordsKept
  <2> QED
    BY <1>1, <2>1, <2>3 DEF BudgetInv
<1>3. CASE DecidesAttempt
  BY <1>1, <1>3 DEF DecidesAttempt, BudgetInv
<1>4. ASSUME NEW n \in Nat \ {0}, NEW act \in RunActs, NEW parent \in 0..Len(runs),
             runs' = Append(runs, NewRun(n, act, parent)), pc' # "snapshot",
             Affordable(runs, act),
             act \in {"RETRY", "RETRY_WITH_HINT"} => n <= MaxAttempts
      PROVE  BudgetInv'
  <2> DEFINE r == NewRun(n, act, parent)
  <2>1. Len(runs) \in Nat /\ DOMAIN runs = 1..Len(runs)
    BY <1>0, LenProperties DEF RunsOK
  <2>2. r \in Runs /\ r.parent <= Len(runs) /\ r.act = act /\ r.attempt = n
    BY <2>1, NewRunType DEF NewRun
  <2> HIDE DEF r
  <2>3. runs' = Append(runs, r)
    BY <1>4 DEF r
  <2>4. /\ DOMAIN runs' = 1..(Len(runs) + 1) /\ runs'[Len(runs) + 1] = r
        /\ \A j \in DOMAIN runs : runs'[j] = runs[j]
    BY <1>0, <2>2, <2>3, AppendRun
  <2>5. \A a : /\ Launched(runs, a) \in Nat
               /\ Launched(runs', a) = Launched(runs, a) + (IF act = a THEN 1 ELSE 0)
    BY <1>0, <2>2, <2>3, OneMoreLaunched
  <2>6. {RetryMax, HintMax, TriageRetryMax, MaxAttempts} \subseteq Nat
    BY LimitsAssumption
  <2>7. /\ Launched(runs', "RETRY") <= RetryMax
        /\ Launched(runs', "RETRY_WITH_HINT") <= HintMax
        /\ Launched(runs', "RETRY_WITH_TRIAGE") <= TriageRetryMax
    BY <1>4, <2>5, <2>6 DEF Affordable, BudgetInv, RetryBudget
  <2>8. \A i \in DOMAIN runs' : runs'[i].act \in {"RETRY", "RETRY_WITH_HINT"} =>
                                  runs'[i].attempt <= MaxAttempts
    BY <1>4, <2>1, <2>2, <2>4 DEF BudgetInv, RetryBudget
  <2> QED
    BY <1>4, <2>7, <2>8 DEF BudgetInv, RetryBudget
<1>5. CASE CreatesRun
  <2>1. PICK n \in Nat \ {0} : /\ AttemptNumber(n)
                               /\ runs' = Append(runs, NewRun(n, exec.act, exec.run))
    BY <1>5 DEF CreatesRun
  <2>2. /\ exec.run \in 0..Len(runs) /\ exec.act \in RunActs /\ pc' # "snapshot"
        /\ Affordable(runs, exec.act)
    BY <1>5 DEF CreatesRun, TypeInv, AtHand, BudgetInv
  <2>3. exec.act \in {"RETRY", "RETRY_WITH_HINT"} => n <= MaxAttempts
    <3> SUFFICES ASSUME exec.act \in {"RETRY", "RETRY_WITH_HINT"} PROVE n <= MaxAttempts
      OBVIOUS
    <3>1. PICK k \in DOMAIN runs : n = runs[k].attempt + 1
      BY <2>1 DEF AttemptNumber
    <3>2. runs[k].attempt \in Nat /\ runs[k].attempt < MaxAttempts
      <4>1. runs[k] \in Runs
        BY <1>0, LenProperties, ElementOfSeq DEF RunsOK
      <4> QED
        BY <2>2, <4>1 DEF Affordable, Runs
    <3>3. MaxAttempts \in Nat
      BY LimitsAssumption
    <3> QED
      BY <3>1, <3>2, <3>3
  <2> QED
    BY <1>4, <2>1, <2>2, <2>3
<1>6. CASE CreatesUnused
  <2>1. Affordable(runs, "FIRST") /\ 0 \in 0..Len(runs) /\ "FIRST" \in RunActs
    BY <1>0, LenProperties DEF Affordable, RunsOK, RunActs
  <2> QED
    BY <1>4, <1>6, <2>1 DEF CreatesUnused
<1> QED
  BY <1>2, <1>3, <1>5, <1>6 DEF BudgetShape, StepShape

\* What a step may do to the count, when it goes on with n transitions at most.
Counted(n) == exec'.ticks <= n /\ pc' \notin {"triage", "apply"}

\* The guard is a number, whatever the limit of attempts.
LEMMA LimitType == loopGuardLimit \in Nat /\ loopGuardLimit >= 10
BY LimitsAssumption DEF loopGuardLimit

\* A step that counts within the guard plus one keeps TickInv.
LEMMA CountedWithin ==
  ASSUME NEW n \in Nat, n <= loopGuardLimit + 1, TypeInv', Counted(n)
  PROVE  TickInv'
<1>1. exec'.ticks \in Nat
  BY DEF TypeInv, TypeOK, Execs
<1>2. loopGuardLimit' = loopGuardLimit
  BY DEF loopGuardLimit
<1> QED
  BY <1>1, <1>2, LimitType DEF Counted, TickInv, TicksBounded

\* A process that stops counts nothing.
LEMMA StopCounted == ASSUME NEW n \in Nat, NEW why, Stop(why) PROVE Counted(n)
BY DEF Stop, NoExec, Counted, Idle

\* A finished stage keeps the count and decides on no attempt.
LEMMA ReturnCounted ==
  ASSUME TypeOK, NEW n \in Nat, exec.ticks <= n, Return PROVE Counted(n) /\ pc' # "snapshot"
<1>1. CASE exec.single
  BY <1>1, StopCounted DEF Return, Stop, Idle
<1>2. CASE ~exec.single
  <2> DEFINE e == [exec EXCEPT !.run = 0, !.act = "FIRST", !.subj = NoSubject]
  <2>1. pc' = "loop" /\ exec' = e
    BY <1>2 DEF Return, Goto
  <2>2. e.ticks = exec.ticks
    BY DEF TypeOK, Execs
  <2> QED
    BY <2>1, <2>2 DEF Counted
<1> QED
  BY <1>1, <1>2

\* What Tick counts.
LEMMA TickCount == ASSUME TypeOK, NEW n \in Nat PROVE Tick(n).ticks = exec.ticks + n
BY DEF TypeOK, Tick, Execs

\* Doing nothing keeps the records.
LEMMA RecordsReflexive == RecordsKept(runs, runs)
BY DEF RecordsKept

\* So does writing a diagnosis.
LEMMA DiagnosedRecords == ASSUME TypeOK PROVE RecordsKept(runs, Diagnosed)
<1> DEFINE i == LatestCompleted(runs)
<1>1. RunsOK(runs) /\ (i = 0 \/ i \in DOMAIN runs)
  BY LatestCompletedIsARun DEF TypeOK, RunsOK
<1>2. Diagnosed = runs \/ (i \in DOMAIN runs /\ Diagnosed = Diagnose(runs, i, Current))
  BY <1>1 DEF Diagnosed, Resolved
<1> HIDE DEF i
<1> QED
  BY <1>1, <1>2, DiagnoseType DEF RecordsKept

\* A new report, or an archived one, is no new record.
LEMMA RewrittenRecords ==
  ASSUME NEW rs, NEW i \in DOMAIN rs, NEW r, r.act = rs[i].act, r.attempt = rs[i].attempt
  PROVE  RecordsKept(rs, [rs EXCEPT ![i] = r])
BY DEF RecordsKept

\* So does archiving a report.
LEMMA ArchivedRecords ==
  ASSUME NEW rs, RunsOK(rs), NEW i \in DOMAIN rs
  PROVE  RecordsKept(rs, GatesArchived(rs, i)) /\ RecordsKept(rs, VerificationArchived(rs, i))
<1> DEFINE g == [rs[i] EXCEPT !.gate = NoGate, !.gateDebris = FALSE]
           v == [rs[i] EXCEPT !.ver = NoVer, !.verDebris = FALSE, !.verHistory = TRUE]
<1>1. rs[i] \in Runs
  BY LenProperties, ElementOfSeq DEF RunsOK
<1>2. /\ g.act = rs[i].act /\ g.attempt = rs[i].attempt
      /\ v.act = rs[i].act /\ v.attempt = rs[i].attempt
  BY <1>1 DEF Runs
<1>3. /\ GatesArchived(rs, i) = [rs EXCEPT ![i] = g]
      /\ VerificationArchived(rs, i) = [rs EXCEPT ![i] = v]
  BY DEF GatesArchived, VerificationArchived
<1> HIDE DEF g, v
<1>4. RecordsKept(rs, [rs EXCEPT ![i] = g]) /\ RecordsKept(rs, [rs EXCEPT ![i] = v])
  BY <1>2, RewrittenRecords
<1> QED
  BY <1>3, <1>4

\* So does starting the gates, which counts what its caller counted.
LEMMA GateShape ==
  ASSUME NEW rs, RunsOK(rs), NEW i \in DOMAIN rs, NEW rerun \in BOOLEAN, NEW e \in Execs,
         NEW n \in Nat, e.ticks <= n, stageGate(rs, i, rerun, e)
  PROVE  RecordsKept(rs, runs') /\ pc' # "snapshot" /\ Counted(n)
<1> DEFINE f == [e EXCEPT !.run = i, !.subj = Current]
<1>1. RecordsKept(rs, runs')
  BY ArchivedRecords DEF stageGate, RecordsKept
<1>2. f.ticks = e.ticks
  BY DEF Execs
<1> HIDE DEF f
<1>3. Stop("GATE_NOT_ELIGIBLE") \/ Stop("GATE_SUITE_THREW") \/ Goto("gate", f)
  BY DEF stageGate, f
<1> QED
  BY <1>1, <1>2, <1>3, StopCounted DEF Stop, Goto, Counted, Idle

\* And starting the verifier.
LEMMA VerifyShape ==
  ASSUME NEW rs, RunsOK(rs), NEW i \in DOMAIN rs, NEW rerun \in BOOLEAN, NEW e \in Execs,
         NEW n \in Nat, e.ticks <= n, stageVerify(rs, i, rerun, e)
  PROVE  RecordsKept(rs, runs') /\ pc' # "snapshot" /\ Counted(n)
<1> DEFINE f == [e EXCEPT !.run = i, !.subj = Current]
<1>1. RecordsKept(rs, runs')
  BY ArchivedRecords DEF stageVerify, RecordsKept
<1>2. f.ticks = e.ticks
  BY DEF Execs
<1> HIDE DEF f
<1>3. Stop("VERIFIER_NOT_ELIGIBLE") \/ Stop("VERIFIER_LAUNCH_FAILED") \/ Goto("verify", f)
  BY DEF stageVerify, f
<1> QED
  BY <1>1, <1>2, <1>3, StopCounted DEF Stop, Goto, Counted, Idle

\* An attempt begins with the act it was decided for.
LEMMA BeginShape ==
  ASSUME NEW i \in Nat, NEW act \in RunActs, NEW e \in Execs, NEW n \in Nat, e.ticks <= n,
         BeginAttempt(i, act, e), RecordsKept(runs, runs'), Affordable(runs', act)
  PROVE  DecidesAttempt /\ Counted(n)
<1> DEFINE f == [e EXCEPT !.run = i, !.act = act]
<1>1. f.ticks = e.ticks /\ f.act = act
  BY DEF Execs
<1> HIDE DEF f
<1>2. pc' = "snapshot" /\ exec' = f
  BY DEF BeginAttempt, Goto, f
<1> QED
  BY <1>1, <1>2 DEF DecidesAttempt, Counted

\* A retry begins only after the budget was checked on the files it leaves.
LEMMA RetryShape ==
  ASSUME TypeOK, NEW i \in DOMAIN runs, NEW withLesson \in BOOLEAN, NEW e \in Execs,
         NEW n \in Nat, e.ticks <= n, startRetryAttempt(i, withLesson, e)
  PROVE  BudgetShape /\ Counted(n)
<1> DEFINE d   == computeDiagnosis(runs[i], Current)
           act == IF withLesson THEN "RETRY_WITH_TRIAGE" ELSE d.action
<1>1. RunsOK(runs) /\ i \in Nat
  BY LenProperties DEF TypeOK, RunsOK
<1>2. RecordsKept(runs, runs')
  BY <1>1, DiagnoseType DEF startRetryAttempt, RecordsKept
<1>3. CASE Stop("RETRY_REFUSED")
  BY <1>2, <1>3, StopCounted DEF Stop, Idle, BudgetShape, KeepsRecords
<1>4. CASE /\ checkRetryEligibility(runs', i, status, d, withLesson)
           /\ BeginAttempt(i, act, e)
  <2>1. act \in RunActs /\ checkRetryBudget(runs', act)
    BY <1>4 DEF checkRetryEligibility, RETRYABLE_ACTIONS, RunActs
  <2> HIDE DEF act
  <2>2. Affordable(runs', act)
    BY <2>1 DEF checkRetryBudget, Affordable
  <2> QED
    BY <1>1, <1>2, <1>4, <2>1, <2>2, BeginShape DEF BudgetShape
<1> QED
  BY <1>3, <1>4 DEF startRetryAttempt

\* A step that starts nothing keeps the records and the bound.
LEMMA QuietShape ==
  ASSUME RecordsKept(runs, runs'), pc' # "snapshot", Counted(loopGuardLimit + 1)
  PROVE  BudgetShape /\ Counted(loopGuardLimit + 1)
BY DEF BudgetShape, KeepsRecords

\* Every step of the loop has one of the four shapes; below the guard it adds
\* two at most.
LEMMA LoopShape ==
  ASSUME TypeInv, TickInv, TypeInv', LoopStep PROVE BudgetShape /\ TickInv'
<1> DEFINE i == LatestCompleted(runs)
           N == loopGuardLimit + 1
<1>0. /\ TypeOK /\ RunsOK(runs) /\ exec \in Execs /\ exec.ticks \in Nat
      /\ RecordsKept(runs, runs) /\ RecordsKept(runs, Diagnosed)
  BY RecordsReflexive, DiagnosedRecords DEF TypeInv, TypeOK, Execs
<1>00. N \in Nat /\ N <= loopGuardLimit + 1
  BY LimitType
<1>000. Counted(N) => TickInv'
  <2> HIDE DEF N
  <2> QED
    BY <1>00, CountedWithin
<1>1. CASE GuardStop \/ OperatorStop \/ StopStep
  <2>1. PICK why : Stop(why)
    BY <1>1 DEF GuardStop, OperatorStop, StopStep
  <2>2. pc' = Idle /\ (runs' = runs \/ runs' = Diagnosed)
    BY <1>1 DEF GuardStop, OperatorStop, StopStep, Stop, repo
  <2>3. Counted(N)
    BY <1>00, <2>1, StopCounted
  <2> QED
    BY <1>0, <1>000, <2>2, <2>3, QuietShape DEF Idle
<1>2. CASE AskTriage
  <2> DEFINE e == [exec EXCEPT !.run = LatestCompleted(runs), !.subj = Current, !.menu = Menu]
  <2>1. /\ pc' = "triage" /\ exec' = e /\ runs' = Diagnosed /\ exec.ticks < loopGuardLimit
    BY <1>2 DEF AskTriage, Goto, Iteration
  <2>2. e.ticks = exec.ticks
    BY <1>0 DEF Execs
  <2> HIDE DEF e
  <2>3. TickInv'
    BY <1>0, <2>1, <2>2, LimitType DEF TickInv, TicksBounded, loopGuardLimit
  <2> QED
    BY <1>0, <2>1, <2>3 DEF BudgetShape, KeepsRecords
<1>3. ASSUME Iteration
      PROVE  /\ Tick(1) \in Execs /\ Tick(1).ticks <= N
             /\ Tick(2) \in Execs /\ Tick(2).ticks <= N
  BY <1>0, <1>3, TickType, TickCount, LimitType DEF Iteration
<1>4. CASE ApplyResult \/ RecoverDone
  <2>1. pc' = "loop" /\ exec' = Tick(1) /\ runs' = runs /\ Iteration
    BY <1>4 DEF ApplyResult, RecoverDone, Goto, Step
  <2>2. Counted(N)
    BY <1>3, <2>1 DEF Counted
  <2> QED
    BY <1>0, <1>000, <2>1, <2>2, QuietShape
<1>5. CASE RunWorker
  <2>1. BeginAttempt(0, "FIRST", Tick(1)) /\ runs' = runs /\ Iteration
    BY <1>5 DEF RunWorker, Step
  <2>2. Affordable(runs', "FIRST") /\ "FIRST" \in RunActs
    BY DEF Affordable, RunActs
  <2>3. DecidesAttempt /\ Counted(N)
    <3> HIDE DEF N
    <3> QED
      BY <1>0, <1>00, <1>3, <2>1, <2>2, BeginShape
  <2> QED
    BY <1>000, <2>3 DEF BudgetShape
<1>6. CASE RetryWorker
  <2>1. NextAction = "RETRY_WORKER" /\ startRetryAttempt(i, FALSE, Tick(2)) /\ Iteration
    BY <1>6 DEF RetryWorker, Step
  <2>2. i \in DOMAIN runs
    BY <1>0, <2>1, LoopRun
  <2> HIDE DEF i
  <2>3. BudgetShape /\ Counted(N)
    <3> HIDE DEF N
    <3> QED
      BY <1>0, <1>00, <1>3, <2>1, <2>2, RetryShape
  <2> QED
    BY <1>000, <2>3
<1>7. ASSUME NEW rs, RunsOK(rs), RecordsKept(runs, rs), NEW k \in DOMAIN rs,
             NEW rerun \in BOOLEAN, NEW e \in Execs, e.ticks <= N,
             stageGate(rs, k, rerun, e) \/ stageVerify(rs, k, rerun, e)
      PROVE  BudgetShape /\ TickInv'
  <2>1. RecordsKept(rs, runs') /\ pc' # "snapshot" /\ Counted(N)
    <3> HIDE DEF N
    <3> QED
      BY <1>00, <1>7, GateShape, VerifyShape
  <2>2. RecordsKept(runs, runs')
    BY <1>7, <2>1 DEF RecordsKept
  <2> QED
    BY <1>000, <2>1, <2>2 DEF BudgetShape, KeepsRecords
<1>8. CASE RunGates
  <2>1. NextAction = "RUN_GATES" /\ stageGate(runs, i, FALSE, Tick(1)) /\ Iteration
    BY <1>8 DEF RunGates, Step
  <2>2. i \in DOMAIN runs
    BY <1>0, <2>1, LoopRun
  <2> HIDE DEF i, N
  <2> QED
    BY <1>0, <1>3, <1>7, <2>1, <2>2
<1>9. CASE RerunGates
  <2>1. NextAction = "RERUN_GATES" /\ Iteration
    BY <1>9 DEF RerunGates, Step
  <2>2. i \in DOMAIN runs
    BY <1>0, <2>1, LoopRun
  <2>3. CASE exec.reruns >= 1
    <3>1. Stop("UNSTABLE_SUBJECT") /\ runs' = runs /\ pc' = Idle
      BY <1>9, <2>3 DEF RerunGates, Stop
    <3>2. Counted(N)
      BY <1>00, <3>1, StopCounted
    <3> QED
      BY <1>0, <1>000, <3>1, <3>2, QuietShape DEF Idle
  <2>4. CASE ~(exec.reruns >= 1)
    <3> DEFINE e == [Tick(1) EXCEPT !.reruns = @ + 1]
    <3>1. stageGate(runs, i, TRUE, e)
      BY <1>9, <2>4 DEF RerunGates
    <3>2. e \in Execs /\ e.ticks = Tick(1).ticks
      BY <1>3, <2>1 DEF Execs
    <3> HIDE DEF e, i, N
    <3> QED
      BY <1>0, <1>3, <1>7, <2>1, <2>2, <3>1, <3>2
  <2> QED
    BY <2>3, <2>4
<1>10. CASE CompleteGates
  <2> DEFINE v == [res |-> "PASS", det |-> "none", stable |-> TRUE, method |-> "gate-only",
                   subj |-> Current, gateSubj |-> runs[i].gate.subj]
             r == [runs[i] EXCEPT !.ver = v]
             e == [Tick(1) EXCEPT !.run = i]
  <2>1. /\ NextAction = "COMPLETE_GATES" /\ Iteration
        /\ runs' = [runs EXCEPT ![i] = r] /\ pc' = "verdict" /\ exec' = e
    BY <1>10 DEF CompleteGates, Step, Goto
  <2>2. i \in DOMAIN runs
    BY <1>0, <2>1, LoopRun
  <2>3. r.act = runs[i].act /\ r.attempt = runs[i].attempt
    <3>1. runs[i] \in Runs
      BY <1>0, <2>2, LenProperties, ElementOfSeq DEF RunsOK
    <3> HIDE DEF v
    <3> QED
      BY <3>1 DEF Runs
  <2>4. e.ticks <= N
    BY <1>3, <2>1 DEF Execs
  <2> HIDE DEF r, e, i, N
  <2>5. RecordsKept(runs, runs')
    BY <2>1, <2>2, <2>3, RewrittenRecords
  <2> QED
    BY <1>000, <2>1, <2>4, <2>5 DEF BudgetShape, KeepsRecords, Counted
<1>11. CASE RunVerifier
  <2> DEFINE again == ReportFailed(runs[i])
  <2>1. NextAction = "RUN_VERIFIER" /\ Iteration /\ stageVerify(Diagnosed, i, again, Tick(1))
    BY <1>11 DEF RunVerifier, Step
  <2>2. again \in BOOLEAN
    BY DEF ReportFailed
  <2>3. RunsOK(Diagnosed) /\ i \in DOMAIN Diagnosed
    BY <1>0, <2>1, LoopRun, ResolvedTypes DEF RecordsKept
  <2> HIDE DEF again, i, N
  <2> QED
    BY <1>0, <1>3, <1>7, <2>1, <2>2, <2>3
<1> QED
  BY <1>1, <1>2, <1>4, <1>5, <1>6, <1>8, <1>9, <1>10, <1>11 DEF LoopStep

\* So has every stage, and none counts; Snapshot alone creates the run of an
\* attempt.
LEMMA StageShape ==
  ASSUME TypeInv, TickInv, TypeInv', StageStep PROVE BudgetShape /\ TickInv'
<1> DEFINE N == loopGuardLimit + 1
<1>0. /\ TypeOK /\ RunsOK(runs) /\ exec \in Execs /\ exec.ticks \in Nat /\ exec.ticks <= N
      /\ RecordsKept(runs, runs)
  BY RecordsReflexive DEF TypeInv, TypeOK, Execs, TickInv, TicksBounded
<1>00. N \in Nat /\ N <= loopGuardLimit + 1
  BY LimitType
<1>000. Counted(N) => TickInv'
  <2> HIDE DEF N
  <2> QED
    BY <1>00, CountedWithin
<1>1. CASE Snapshot
  <2> DEFINE e == [exec EXCEPT !.run = Len(runs) + 1]
  <2>1. PICK n \in 1..(Len(runs) + 1) :
          AttemptNumber(n) /\ runs' = Append(runs, NewRun(n, exec.act, exec.run))
    BY <1>1 DEF Snapshot
  <2>2. pc = "snapshot" /\ pc' = "worker" /\ exec' = e
    BY <1>1 DEF Snapshot, Goto
  <2>3. n \in Nat \ {0} /\ e.ticks = exec.ticks
    BY <1>0, <2>1, LenProperties DEF RunsOK, Execs
  <2> HIDE DEF e, N
  <2>4. CreatesRun
    BY <2>1, <2>2, <2>3 DEF CreatesRun
  <2>5. Counted(N)
    BY <1>0, <2>2, <2>3 DEF Counted
  <2> QED
    BY <1>000, <2>4, <2>5 DEF BudgetShape
<1>2. CASE SnapshotFails
  <2>1. PICK why : Stop(why)
    BY <1>2 DEF SnapshotFails
  <2>2. pc' = Idle /\ runs' = runs
    BY <1>2, <2>1 DEF SnapshotFails, Stop, repo
  <2>3. Counted(N)
    BY <1>00, <2>1, StopCounted
  <2> QED
    BY <1>0, <1>000, <2>2, <2>3, QuietShape DEF Idle
<1>3. ASSUME Return, RecordsKept(runs, runs') PROVE BudgetShape /\ TickInv'
  <2>1. Counted(N) /\ pc' # "snapshot"
    <3> HIDE DEF N
    <3> QED
      BY <1>0, <1>00, <1>3, ReturnCounted
  <2> QED
    BY <1>000, <1>3, <2>1, QuietShape
<1>4. ASSUME NEW next \in {"requested", "verdict"}, Goto(next, exec), RecordsKept(runs, runs')
      PROVE  BudgetShape /\ TickInv'
  <2>1. pc' = next /\ exec' = exec
    BY <1>4 DEF Goto
  <2>2. Counted(N) /\ pc' # "snapshot"
    BY <1>0, <2>1 DEF Counted
  <2> QED
    BY <1>000, <1>4, <2>2, QuietShape
<1>5. CASE WorkerUnavailable \/ ApplyRequested \/ WriteDone
  <2>1. Return /\ runs' = runs
    BY <1>5 DEF WorkerUnavailable, ApplyRequested, WriteDone, repo
  <2> QED
    BY <1>0, <1>3, <2>1
<1>6. ASSUME exec.run \in DOMAIN runs, NEW r, r.act = runs[exec.run].act,
             r.attempt = runs[exec.run].attempt, runs' = [runs EXCEPT ![exec.run] = r]
      PROVE  RecordsKept(runs, runs')
  BY <1>6, RewrittenRecords
<1>7. CASE WorkerFinish
  <2>1. PICK o \in WorkerOutcomes, t \in Trees :
          /\ runs' = [runs EXCEPT ![exec.run] = [@ EXCEPT !.env =
                        [w |-> o.w, req |-> o.req, subj |-> Subject(t, status)]]]
          /\ Goto("requested", exec) \/ Return
    BY <1>7 DEF WorkerFinish
  <2> DEFINE v == [w |-> o.w, req |-> o.req, subj |-> Subject(t, status)]
             r == [runs[exec.run] EXCEPT !.env = v]
  <2>2. exec.run \in DOMAIN runs
    BY <1>7 DEF WorkerFinish, TypeInv, AtHand
  <2>3. r.act = runs[exec.run].act /\ r.attempt = runs[exec.run].attempt
    <3>1. runs[exec.run] \in Runs
      BY <1>0, <2>2, LenProperties, ElementOfSeq DEF RunsOK
    <3> HIDE DEF v
    <3> QED
      BY <3>1 DEF Runs
  <2>4. runs' = [runs EXCEPT ![exec.run] = r]
    BY <2>1
  <2> HIDE DEF r
  <2> QED
    BY <1>3, <1>4, <1>6, <2>1, <2>2, <2>3, <2>4
<1>8. CASE GateFinish
  <2>1. PICK o \in GateOutcomes :
          runs' = [runs EXCEPT ![exec.run] = [@ EXCEPT !.gateDebris = FALSE,
                     !.gate = [res |-> o.res, det |-> o.det, subj |-> exec.subj]]]
    BY <1>8 DEF GateFinish
  <2> DEFINE v == [res |-> o.res, det |-> o.det, subj |-> exec.subj]
             r == [runs[exec.run] EXCEPT !.gateDebris = FALSE, !.gate = v]
  <2>2. exec.run \in DOMAIN runs /\ Return
    BY <1>8 DEF GateFinish, TypeInv, AtHand
  <2>3. r.act = runs[exec.run].act /\ r.attempt = runs[exec.run].attempt
    <3>1. runs[exec.run] \in Runs
      BY <1>0, <2>2, LenProperties, ElementOfSeq DEF RunsOK
    <3> HIDE DEF v
    <3> QED
      BY <3>1 DEF Runs
  <2>4. runs' = [runs EXCEPT ![exec.run] = r]
    BY <2>1
  <2> HIDE DEF r
  <2> QED
    BY <1>3, <1>6, <2>2, <2>3, <2>4
<1>9. CASE VerifyFinish
  <2> DEFINE stable == exec.subj = Current
  <2>1. PICK o \in VerifierOutcomes :
          /\ runs' = [runs EXCEPT ![exec.run] = [@ EXCEPT !.verDebris = FALSE,
                        !.ver = [res |-> o.res, det |-> o.det, stable |-> stable,
                                 method |-> "verifier", subj |-> exec.subj,
                                 gateSubj |-> runs[exec.run].gate.subj]]]
          /\ Goto("verdict", exec) \/ Return
    BY <1>9 DEF VerifyFinish
  <2> DEFINE v == [res |-> o.res, det |-> o.det, stable |-> stable, method |-> "verifier",
                   subj |-> exec.subj, gateSubj |-> runs[exec.run].gate.subj]
             r == [runs[exec.run] EXCEPT !.verDebris = FALSE, !.ver = v]
  <2>2. exec.run \in DOMAIN runs
    BY <1>9 DEF VerifyFinish, TypeInv, AtHand
  <2>3. r.act = runs[exec.run].act /\ r.attempt = runs[exec.run].attempt
    <3>1. runs[exec.run] \in Runs
      BY <1>0, <2>2, LenProperties, ElementOfSeq DEF RunsOK
    <3> HIDE DEF v
    <3> QED
      BY <3>1 DEF Runs
  <2>4. runs' = [runs EXCEPT ![exec.run] = r]
    BY <2>1
  <2> HIDE DEF r
  <2> QED
    BY <1>3, <1>4, <1>6, <2>1, <2>2, <2>3, <2>4
<1> QED
  BY <1>1, <1>2, <1>5, <1>7, <1>8, <1>9 DEF StageStep

\* So have the Triage and its decisions, which were asked for below the guard.
LEMMA TriageShape ==
  ASSUME TypeInv, TickInv, TypeInv', TriageStep PROVE BudgetShape /\ TickInv'
<1> DEFINE N == loopGuardLimit + 1
<1>0. /\ TypeOK /\ RunsOK(runs) /\ exec \in Execs /\ exec.ticks \in Nat
      /\ RecordsKept(runs, runs) /\ exec.run \in DOMAIN runs /\ exec.ticks < loopGuardLimit
  BY RecordsReflexive
  DEF TypeInv, TypeOK, Execs, TickInv, AtHand, TriageStep, TriageUnavailable, Escalate, Decide,
      TriageRerunGates, TriageRerunVerifier, TriageRetry, TriageUnblock, TriageReplan, Applying
<1>00. N \in Nat /\ N <= loopGuardLimit + 1 /\ Tick(1) \in Execs /\ Tick(1).ticks <= N
  BY <1>0, LimitType, TickType, TickCount
<1>000. Counted(N) => TickInv'
  <2> HIDE DEF N
  <2> QED
    BY <1>00, CountedWithin
<1>1. CASE TriageUnavailable \/ Escalate \/ TriageReplan
  <2>1. PICK why : Stop(why)
    BY <1>1 DEF TriageUnavailable, Escalate, TriageReplan
  <2>2. pc' = Idle /\ runs' = runs
    BY <1>1, <2>1 DEF TriageUnavailable, Escalate, TriageReplan, Stop, repo
  <2>3. Counted(N)
    BY <1>00, <2>1, StopCounted
  <2> QED
    BY <1>0, <1>000, <2>2, <2>3, QuietShape DEF Idle
<1>2. ASSUME NEW d \in Decisions, Decide(d) PROVE BudgetShape /\ TickInv'
  <2> DEFINE e == [exec EXCEPT !.act = d, !.menu = {}, !.subj = NoSubject]
  <2>1. pc' = "apply" /\ exec' = e /\ runs' = runs
    BY <1>2 DEF Decide, Goto
  <2>2. e.ticks = exec.ticks
    BY <1>0 DEF Execs
  <2> HIDE DEF e
  <2>3. TickInv'
    BY <1>0, <2>1, <2>2, LimitType DEF TickInv, TicksBounded, loopGuardLimit
  <2> QED
    BY <1>0, <2>1, <2>3 DEF BudgetShape, KeepsRecords
<1>3. CASE TriageRerunGates
  <2> DEFINE i  == exec.run
             rs == IF runs[i].ver.res # "none" THEN VerificationArchived(runs, i) ELSE runs
  <2>1. stageGate(rs, i, TRUE, Tick(1))
    BY <1>3 DEF TriageRerunGates
  <2>2. RunsOK(rs) /\ RecordsKept(runs, rs)
    BY <1>0, ArchivedTypes, ArchivedRecords
  <2>3. i \in DOMAIN rs
    BY <1>0, <2>2 DEF RecordsKept
  <2> HIDE DEF rs, N
  <2>4. RecordsKept(rs, runs') /\ pc' # "snapshot" /\ Counted(N)
    BY <1>00, <2>1, <2>2, <2>3, GateShape
  <2>5. RecordsKept(runs, runs')
    BY <2>2, <2>4 DEF RecordsKept
  <2> QED
    BY <1>000, <2>4, <2>5 DEF BudgetShape, KeepsRecords
<1>4. CASE TriageRerunVerifier
  <2>1. stageVerify(runs, exec.run, TRUE, Tick(1))
    BY <1>4 DEF TriageRerunVerifier
  <2> HIDE DEF N
  <2>2. RecordsKept(runs, runs') /\ pc' # "snapshot" /\ Counted(N)
    BY <1>0, <1>00, <2>1, VerifyShape
  <2> QED
    BY <1>000, <2>2 DEF BudgetShape, KeepsRecords
<1>5. CASE TriageRetry
  <2>1. startRetryAttempt(exec.run, TRUE, Tick(1))
    BY <1>5 DEF TriageRetry
  <2> HIDE DEF N
  <2> QED
    BY <1>0, <1>00, <1>000, <2>1, RetryShape
<1>6. CASE TriageUnblock
  <2> DEFINE e == [Tick(1) EXCEPT !.run = 0, !.act = "FIRST"]
  <2>1. pc' = "loop" /\ exec' = e /\ runs' = runs
    BY <1>6 DEF TriageUnblock, Goto
  <2>2. e.ticks = Tick(1).ticks
    BY <1>00 DEF Execs
  <2> HIDE DEF e
  <2>3. Counted(N) /\ pc' # "snapshot"
    BY <1>00, <2>1, <2>2 DEF Counted
  <2> QED
    BY <1>0, <1>000, <2>1, <2>3, QuietShape
<1> QED
  BY <1>1, <1>2, <1>3, <1>4, <1>5, <1>6 DEF TriageStep

\* So have the commands, which start to count from 0.
LEMMA CommandShape ==
  ASSUME TypeInv, TickInv, TypeInv', Commands PROVE StepShape /\ TickInv'
<1> DEFINE N == loopGuardLimit + 1
<1>0. /\ TypeOK /\ RunsOK(runs) /\ exec \in Execs /\ exec.ticks \in Nat
      /\ RecordsKept(runs, runs) /\ Single \in Execs
  BY RecordsReflexive, NoExecType DEF TypeInv, TypeOK, Execs
<1>00. N \in Nat /\ N <= loopGuardLimit + 1 /\ Single.ticks = 0 /\ Single.ticks <= N
  BY LimitType DEF Single, NoExec
<1>000. Counted(N) => TickInv'
  <2> HIDE DEF N
  <2> QED
    BY <1>00, CountedWithin
<1>1. ASSUME NEW ack \in BOOLEAN, Execute(ack) PROVE StepShape /\ TickInv'
  <2> DEFINE e == [NoExec EXCEPT !.ack = ack]
  <2>1. pc' = "loop" /\ exec' = e /\ runs' = runs
    BY <1>1 DEF Execute, repo
  <2>2. e.ticks = 0
    BY DEF NoExec
  <2> HIDE DEF e
  <2>3. Counted(N) /\ pc' # "snapshot"
    BY <1>00, <2>1, <2>2 DEF Counted
  <2> QED
    BY <1>0, <1>000, <2>1, <2>3, QuietShape DEF StepShape
<1>2. CASE CmdRun
  <2>1. BeginAttempt(0, "FIRST", Single) /\ runs' = runs
    BY <1>2 DEF CmdRun
  <2>2. Affordable(runs', "FIRST") /\ "FIRST" \in RunActs
    BY DEF Affordable, RunActs
  <2> HIDE DEF N
  <2>3. DecidesAttempt /\ Counted(N)
    BY <1>0, <1>00, <2>1, <2>2, BeginShape
  <2> QED
    BY <1>000, <2>3 DEF BudgetShape, StepShape
<1>3. ASSUME UNCHANGED <<pc, exec>> PROVE TickInv'
  BY <1>3 DEF TickInv, TicksBounded, loopGuardLimit
<1>4. CASE CmdSnapshot
  <2>1. /\ runs' = Append(runs, NewRun(1, "FIRST", 0)) /\ UNCHANGED <<pc, exec>> /\ pc = Idle
    BY <1>4 DEF CmdSnapshot, Command
  <2> QED
    BY <1>3, <2>1 DEF StepShape, CreatesUnused, Idle
<1>5. ASSUME NEW to \in States, CmdTransition(to) PROVE StepShape /\ TickInv'
  BY <1>0, <1>3, <1>5 DEF CmdTransition, BudgetShape, StepShape, KeepsRecords
<1>6. ASSUME NEW i \in DOMAIN runs, CmdRetry(i) PROVE StepShape /\ TickInv'
  <2>1. startRetryAttempt(i, FALSE, Single)
    BY <1>6 DEF CmdRetry
  <2> HIDE DEF N
  <2> QED
    BY <1>0, <1>00, <1>000, <2>1, RetryShape DEF StepShape
<1>7. ASSUME NEW i \in DOMAIN runs, CmdDiagnose(i) PROVE StepShape /\ TickInv'
  <2>1. runs' = Diagnose(runs, i, Current) /\ UNCHANGED <<pc, exec>>
    BY <1>7 DEF CmdDiagnose
  <2>2. RecordsKept(runs, runs')
    BY <1>0, <2>1, DiagnoseType DEF RecordsKept
  <2> QED
    BY <1>3, <2>1, <2>2 DEF BudgetShape, StepShape, KeepsRecords
<1>8. ASSUME NEW i \in DOMAIN runs, NEW rerun \in BOOLEAN,
             CmdGate(i, rerun) \/ CmdVerify(i, rerun)
      PROVE  StepShape /\ TickInv'
  <2>1. stageGate(runs, i, rerun, Single) \/ stageVerify(runs, i, rerun, Single)
    BY <1>8 DEF CmdGate, CmdVerify
  <2> HIDE DEF N
  <2>2. RecordsKept(runs, runs') /\ pc' # "snapshot" /\ Counted(N)
    BY <1>0, <1>00, <2>1, GateShape, VerifyShape
  <2> QED
    BY <1>000, <2>2 DEF BudgetShape, StepShape, KeepsRecords
<1> QED
  BY <1>1, <1>2, <1>4, <1>5, <1>6, <1>7, <1>8 DEF Commands

\* So have PAUSE, an edit, a crash and a stutter.
LEMMA EnvironmentShape ==
  ASSUME TypeInv, TickInv, TypeInv', TogglePause \/ Edit \/ Crash \/ UNCHANGED vars
  PROVE  BudgetShape /\ TickInv'
<1> DEFINE N == loopGuardLimit + 1
<1>0. RunsOK(runs) /\ RecordsKept(runs, runs)
  BY RecordsReflexive DEF TypeInv, TypeOK
<1>1. CASE TogglePause \/ Edit \/ UNCHANGED vars
  <2>1. UNCHANGED <<runs, pc, exec>>
    BY <1>1 DEF TogglePause, Edit, vars, repo
  <2> QED
    BY <1>0, <2>1 DEF TickInv, TicksBounded, loopGuardLimit, BudgetShape, KeepsRecords
<1>2. CASE Crash
  <2>1. Stop("CRASHED") /\ pc' = Idle
    BY <1>2 DEF Crash, Stop
  <2>2. Counted(N) /\ TickInv'
    <3>1. N \in Nat /\ N <= loopGuardLimit + 1
      BY LimitType
    <3> HIDE DEF N
    <3> QED
      BY <2>1, <3>1, StopCounted, CountedWithin
  <2>3. RecordsKept(runs, runs')
    <3>1. CASE runs' = runs
      BY <1>0, <3>1
    <3>2. CASE pc \in {"gate", "verify"} /\ runs' # runs
      <4> DEFINE g == [runs[exec.run] EXCEPT !.gateDebris = TRUE]
                 v == [runs[exec.run] EXCEPT !.verDebris = TRUE]
      <4>1. exec.run \in DOMAIN runs
        BY <3>2 DEF TypeInv, AtHand
      <4>2. runs[exec.run] \in Runs
        BY <1>0, <4>1, LenProperties, ElementOfSeq DEF RunsOK
      <4>3. /\ g.act = runs[exec.run].act /\ g.attempt = runs[exec.run].attempt
            /\ v.act = runs[exec.run].act /\ v.attempt = runs[exec.run].attempt
        BY <4>2 DEF Runs
      <4>4. runs' = [runs EXCEPT ![exec.run] = g] \/ runs' = [runs EXCEPT ![exec.run] = v]
        BY <1>2, <3>2 DEF Crash
      <4> HIDE DEF g, v
      <4> QED
        BY <4>1, <4>3, <4>4, RewrittenRecords
    <3> QED
      BY <1>2, <3>1, <3>2 DEF Crash
  <2> QED
    BY <2>1, <2>2, <2>3, QuietShape DEF Idle
<1> QED
  BY <1>1, <1>2

\* The budget and the bound are inductive.
LEMMA BudgetStep == TypeInv /\ BudgetInv /\ TickInv /\ [Next]_vars => (BudgetInv /\ TickInv)'
<1> SUFFICES ASSUME TypeInv, BudgetInv, TickInv, [Next]_vars PROVE (BudgetInv /\ TickInv)'
  OBVIOUS
<1>1. TypeInv'
  BY TypeStep
<1>2. StepShape /\ TickInv'
  BY <1>1, LoopShape, StageShape, TriageShape, CommandShape, EnvironmentShape
  DEF Next, Runtime, StepShape
<1> QED
  BY <1>1, <1>2, ShapeKeepsBudget

\* Both hold at the start.
LEMMA BudgetInit == Init => BudgetInv /\ TickInv
<1> SUFFICES ASSUME Init PROVE BudgetInv /\ TickInv
  OBVIOUS
<1>1. DOMAIN runs = {} /\ pc = Idle /\ exec.ticks = 0
  BY DEF Init, NoExec
<1>2. \A act : Launched(runs, act) = 0
  <2> SUFFICES ASSUME NEW act PROVE Launched(runs, act) = 0
    OBVIOUS
  <2>1. {i \in DOMAIN runs : runs[i].act = act} = {}
    BY <1>1
  <2> QED
    BY <2>1, FS_EmptySet DEF Launched
<1>3. {RetryMax, HintMax, TriageRetryMax} \subseteq Nat
  BY LimitsAssumption
<1> QED
  BY <1>1, <1>2, <1>3, LimitType DEF BudgetInv, RetryBudget, TickInv, TicksBounded, Idle

\* The retries of a Task never exceed the ladder of limits.yaml, for any limits,
\* whichever command, loop or Triage started them and however often the process
\* died between the check and the run.
THEOREM RetriesWithinBudget == Spec => []RetryBudget
<1>1. TypeInv /\ BudgetInv /\ TickInv /\ [Next]_vars => (TypeInv /\ BudgetInv /\ TickInv)'
  BY TypeStep, BudgetStep
<1>2. BudgetInv => RetryBudget
  BY DEF BudgetInv
<1> QED
  BY <1>1, <1>2, TypeInit, BudgetInit, PTL DEF Spec

\* No execution counts more than one transition above the guard of executeTask,
\* although a retry counts two and a Triage decision is applied unguarded.
THEOREM TransitionsBounded == Spec => []TicksBounded
<1>1. TypeInv /\ BudgetInv /\ TickInv /\ [Next]_vars => (TypeInv /\ BudgetInv /\ TickInv)'
  BY TypeStep, BudgetStep
<1>2. TickInv => TicksBounded
  BY DEF TickInv
<1> QED
  BY <1>1, <1>2, TypeInit, BudgetInit, PTL DEF Spec

-----------------------------------------------------------------------------
(* Worker calls.                                                           *)

\* Every run was created for one of the acts.
CountInv ==
  Len(runs) = Launched(runs, "FIRST") + Launched(runs, "RETRY")
                + Launched(runs, "RETRY_WITH_HINT") + Launched(runs, "RETRY_WITH_TRIAGE")

\* A first attempt, or one with a lesson, is still to come: the Task waits in TODO,
\* the attempt was begun, or a decision of the Triage may lead to it.
Due == \/ status = "TODO" \/ pc = "apply"
       \/ pc = "snapshot" /\ exec.act \in {"FIRST", "RETRY_WITH_TRIAGE"}

\* Beside the first of all, each of them was paid for with a decision of the Triage.
DueInv ==
  /\ Launched(runs, "FIRST") + Launched(runs, "RETRY_WITH_TRIAGE")
       <= IF Due THEN triage.n ELSE triage.n + 1
  /\ triage.n <= TriageMax
  /\ pc = "triage" => triage.n < TriageMax
  /\ pc \in {"snapshot", "triage", "apply"} => status # "TODO"

\* The four shapes keep the count: every new run is one of the four acts.
LEMMA ShapeKeepsCount ==
  ASSUME TypeInv, TypeInv', CountInv, StepShape
  PROVE  CountInv'
<1>0. RunsOK(runs) /\ RunsOK(runs') /\ Len(runs) \in Nat
  BY LenProperties DEF TypeInv, TypeOK, RunsOK
<1>1. ASSUME RecordsKept(runs, runs') PROVE CountInv'
  <2>1. \A act : Launched(runs', act) = Launched(runs, act)
    BY <1>1, SameLaunched
  <2>2. Len(runs') = Len(runs)
    <3>1. 1..Len(runs') = 1..Len(runs) /\ Len(runs') \in Nat
      BY <1>0, <1>1, LenProperties DEF RecordsKept, RunsOK
    <3> QED
      BY <1>0, <3>1
  <2> QED
    BY <2>1, <2>2 DEF CountInv
<1>2. ASSUME NEW n \in Nat \ {0}, NEW act \in RunActs, NEW parent \in 0..Len(runs),
             runs' = Append(runs, NewRun(n, act, parent))
      PROVE  CountInv'
  <2> DEFINE r == NewRun(n, act, parent)
  <2>1. r \in Runs /\ r.parent <= Len(runs) /\ r.act = act
    BY <1>0, NewRunType DEF NewRun
  <2> HIDE DEF r
  <2>2. runs' = Append(runs, r)
    BY <1>2 DEF r
  <2>3. Len(runs') = Len(runs) + 1
    BY <1>0, <2>1, <2>2, AppendRun
  <2>4. \A a : /\ Launched(runs, a) \in Nat
               /\ Launched(runs', a) = Launched(runs, a) + (IF act = a THEN 1 ELSE 0)
    BY <1>0, <2>1, <2>2, OneMoreLaunched
  <2>5. /\ Launched(runs, "FIRST") \in Nat
        /\ Launched(runs', "FIRST") = Launched(runs, "FIRST") + (IF act = "FIRST" THEN 1 ELSE 0)
    BY <2>4
  <2>6. /\ Launched(runs, "RETRY") \in Nat
        /\ Launched(runs', "RETRY") = Launched(runs, "RETRY") + (IF act = "RETRY" THEN 1 ELSE 0)
    BY <2>4
  <2>7. /\ Launched(runs, "RETRY_WITH_HINT") \in Nat
        /\ Launched(runs', "RETRY_WITH_HINT")
             = Launched(runs, "RETRY_WITH_HINT") + (IF act = "RETRY_WITH_HINT" THEN 1 ELSE 0)
    BY <2>4
  <2>8. /\ Launched(runs, "RETRY_WITH_TRIAGE") \in Nat
        /\ Launched(runs', "RETRY_WITH_TRIAGE")
             = Launched(runs, "RETRY_WITH_TRIAGE") + (IF act = "RETRY_WITH_TRIAGE" THEN 1 ELSE 0)
    BY <2>4
  <2>9. act \in {"FIRST", "RETRY", "RETRY_WITH_HINT", "RETRY_WITH_TRIAGE"}
    BY DEF RunActs
  <2> QED
    BY <1>0, <2>3, <2>5, <2>6, <2>7, <2>8, <2>9 DEF CountInv
<1>3. CASE CreatesRun
  BY <1>2, <1>3 DEF CreatesRun, TypeInv, AtHand
<1>4. CASE CreatesUnused
  BY <1>0, <1>2, <1>4 DEF CreatesUnused, RunActs
<1> QED
  BY <1>1, <1>3, <1>4 DEF StepShape, BudgetShape, KeepsRecords, DecidesAttempt

\* What a step may do: an attempt becomes due with a decision of the Triage only.
DueStep ==
  /\ triage'.n \in {triage.n, triage.n + 1} /\ triage'.n <= TriageMax
  /\ Due' => Due \/ triage'.n = triage.n + 1
  /\ pc' = "triage" => triage'.n < TriageMax
  /\ pc' \in {"snapshot", "triage", "apply"} => status' # "TODO"
  /\ pc = "snapshot" /\ pc' # "snapshot" => ~Due'

\* A step that decides on no attempt, and does not put the Task back.
LEMMA NothingDue ==
  ASSUME DueInv, triage' = triage, pc' \notin {"snapshot", "triage", "apply"},
         status' = status \/ status' # "TODO"
  PROVE  DueStep
BY DEF DueInv, DueStep, Due

\* A finished stage decides on no attempt.
LEMMA ReturnDue ==
  ASSUME DueInv, triage' = triage, Return, status' = status \/ status' # "TODO"
  PROVE  DueStep
<1>1. pc' \in {Idle, "loop"}
  BY DEF Return, Stop, Goto
<1> QED
  BY <1>1, NothingDue DEF Idle

\* Nor does one that starts the gates or the verifier.
LEMMA GateDue ==
  ASSUME DueInv, triage' = triage, status' = status, NEW rs, NEW i, NEW rerun, NEW e,
         stageGate(rs, i, rerun, e) \/ stageVerify(rs, i, rerun, e)
  PROVE  DueStep
<1>1. pc' \in {Idle, "gate", "verify"}
  BY DEF stageGate, stageVerify, Stop, Goto
<1> QED
  BY <1>1, NothingDue DEF Idle

\* An attempt is begun by a step for which one was due.
LEMMA BeginDue ==
  ASSUME DueInv, triage' = triage, NEW i \in Nat, NEW act \in RunActs, NEW e \in Execs,
         BeginAttempt(i, act, e), act \in {"FIRST", "RETRY_WITH_TRIAGE"} => Due
  PROVE  DueStep
<1> DEFINE f == [e EXCEPT !.run = i, !.act = act]
<1>1. f.act = act
  BY DEF Execs
<1>2. pc' = "snapshot" /\ exec' = f /\ status' = "IN_PROGRESS"
  BY DEF BeginAttempt, Goto, writeStatus
<1> HIDE DEF f
<1> QED
  BY <1>1, <1>2 DEF DueInv, DueStep, Due

\* A retry with a lesson was due; the others are in the budget.
LEMMA RetryDue ==
  ASSUME TypeOK, DueInv, triage' = triage, NEW i \in DOMAIN runs,
         NEW withLesson \in BOOLEAN, NEW e \in Execs,
         startRetryAttempt(i, withLesson, e), withLesson => Due
  PROVE  DueStep
<1> DEFINE d   == computeDiagnosis(runs[i], Current)
           act == IF withLesson THEN "RETRY_WITH_TRIAGE" ELSE d.action
<1>1. i \in Nat
  BY LenProperties DEF TypeOK, RunsOK
<1>2. CASE Stop("RETRY_REFUSED") /\ status' = status
  BY <1>2, NothingDue DEF Stop, Idle
<1>3. CASE /\ checkRetryEligibility(runs', i, status, d, withLesson)
           /\ BeginAttempt(i, act, e)
  <2>1. act \in RunActs /\ (act \in {"FIRST", "RETRY_WITH_TRIAGE"} => withLesson)
    BY <1>3 DEF checkRetryEligibility, RETRYABLE_ACTIONS, RunActs
  <2> HIDE DEF act
  <2> QED
    BY <1>1, <1>3, <2>1, BeginDue
<1> QED
  BY <1>2, <1>3 DEF startRetryAttempt

\* The loop begins a first attempt only for a Task that is TODO.
LEMMA LoopDue == ASSUME TypeInv, DueInv, LoopStep PROVE DueStep
<1> DEFINE i == LatestCompleted(runs)
<1>0. /\ TypeOK /\ triage' = triage /\ Tick(1) \in Execs /\ Tick(2) \in Execs
      /\ status \in {"TODO", "IN_PROGRESS", "REVIEW", "DONE", "BLOCKED", "DROPPED"}
  BY TickType
  DEF TypeInv, TypeOK, States, LoopStep, GuardStop, OperatorStop, StopStep, AskTriage, ApplyResult,
      RecoverDone, RunWorker, RetryWorker, RunGates, RerunGates, CompleteGates, RunVerifier, repo
<1>1. CASE GuardStop \/ OperatorStop \/ StopStep
  <2>1. pc' = Idle /\ status' = status
    BY <1>1 DEF GuardStop, OperatorStop, StopStep, Stop, repo
  <2> QED
    BY <1>0, <2>1, NothingDue DEF Idle
<1>2. CASE AskTriage
  <2>1. /\ pc = "loop" /\ pc' = "triage" /\ status' = status /\ triage.n < TriageMax
        /\ NextAction \in TRIAGE_STOPS
    BY <1>2 DEF AskTriage, Goto, TriageUseful, Iteration
  <2>2. NextAction = "RUN_WORKER" <=> status = "TODO"
    BY <1>0, NextActionMeans DEF NextAction
  <2> QED
    BY <1>0, <2>1, <2>2 DEF DueInv, DueStep, Due, TRIAGE_STOPS
<1>3. CASE ApplyResult
  <2>1. /\ status' = runs[i].env.req /\ pc' = "loop" /\ NextAction = "APPLY_WORKER_RESULT"
    BY <1>3 DEF ApplyResult, Step, writeStatus, Goto
  <2>2. status' # "TODO"
    BY <1>0, <2>1, NextActionMeans DEF NextAction, RequestPending
  <2> QED
    BY <1>0, <2>1, <2>2, NothingDue
<1>4. CASE RecoverDone \/ CompleteGates
  <2>1. pc' \in {"loop", "verdict"} /\ (status' = status \/ status' # "TODO")
    BY <1>4 DEF RecoverDone, CompleteGates, writeStatus, Goto
  <2> QED
    BY <1>0, <2>1, NothingDue
<1>5. CASE RunWorker
  <2>1. BeginAttempt(0, "FIRST", Tick(1)) /\ NextAction = "RUN_WORKER"
    BY <1>5 DEF RunWorker, Step
  <2>2. Due
    BY <1>0, <2>1, NextActionMeans DEF NextAction, Due
  <2> QED
    BY <1>0, <2>1, <2>2, BeginDue DEF RunActs
<1>6. CASE RetryWorker
  <2>1. NextAction = "RETRY_WORKER" /\ startRetryAttempt(i, FALSE, Tick(2))
    BY <1>6 DEF RetryWorker, Step
  <2>2. i \in DOMAIN runs
    BY <1>0, <2>1, LoopRun
  <2> HIDE DEF i
  <2> QED
    BY <1>0, <2>1, <2>2, RetryDue
<1>7. CASE RunGates \/ RunVerifier
  <2>1. status' = status /\ \E rs, rerun : \/ stageGate(rs, i, rerun, Tick(1))
                                           \/ stageVerify(rs, i, rerun, Tick(1))
    BY <1>7 DEF RunGates, RunVerifier
  <2> QED
    BY <1>0, <2>1, GateDue
<1>8. CASE RerunGates
  <2>1. CASE Stop("UNSTABLE_SUBJECT")
    BY <1>0, <1>8, <2>1, NothingDue DEF RerunGates, Stop, Idle
  <2>2. ASSUME NEW e, stageGate(runs, i, TRUE, e) PROVE DueStep
    BY <1>0, <1>8, <2>2, GateDue DEF RerunGates
  <2> QED
    BY <1>8, <2>1, <2>2 DEF RerunGates
<1> QED
  BY <1>1, <1>2, <1>3, <1>4, <1>5, <1>6, <1>7, <1>8 DEF LoopStep

\* A stage uses up the attempt it creates, and puts no Task back to TODO.
LEMMA StageDue == ASSUME TypeInv, DueInv, StageStep PROVE DueStep
<1>0. triage' = triage
  BY DEF StageStep, Snapshot, SnapshotFails, WorkerUnavailable, WorkerFinish, ApplyRequested,
     GateFinish, VerifyFinish, WriteDone, repo
<1>1. CASE Snapshot \/ SnapshotFails
  <2>1. pc' \in {Idle, "worker"} /\ status' = status
    BY <1>1 DEF Snapshot, SnapshotFails, Stop, Goto, repo
  <2> QED
    BY <1>0, <2>1, NothingDue DEF Idle
<1>2. CASE WorkerFinish \/ VerifyFinish
  <2>1. status' = status /\ (Return \/ pc' \in {"requested", "verdict"})
    BY <1>2 DEF WorkerFinish, VerifyFinish, Goto
  <2> QED
    BY <1>0, <2>1, NothingDue, ReturnDue
<1>3. CASE WorkerUnavailable \/ GateFinish
  BY <1>0, <1>3, ReturnDue DEF WorkerUnavailable, GateFinish, repo
<1>4. CASE ApplyRequested
  <2>1. exec.run \in DOMAIN runs /\ RunsOK(runs)
    BY <1>4 DEF ApplyRequested, TypeInv, TypeOK, AtHand
  <2>2. runs[exec.run] \in Runs
    BY <2>1, LenProperties, ElementOfSeq DEF RunsOK
  <2>3. Return /\ status' = runs[exec.run].env.req
    BY <1>4 DEF ApplyRequested, writeStatus
  <2>4. status' # "TODO"
    BY <2>2, <2>3 DEF Runs, Envs
  <2> QED
    BY <1>0, <2>3, <2>4, ReturnDue
<1>5. CASE WriteDone
  BY <1>0, <1>5, ReturnDue DEF WriteDone, writeStatus
<1> QED
  BY <1>1, <1>2, <1>3, <1>4, <1>5 DEF StageStep

\* The Triage counts a decision before it makes an attempt due.
LEMMA TriageDue == ASSUME TypeInv, DueInv, TriageStep PROVE DueStep
<1>0. TypeOK /\ triage.n \in Nat /\ exec \in Execs /\ Tick(1) \in Execs /\ TriageMax \in Nat
  BY TickType, LimitsAssumption DEF TypeInv, TypeOK
<1>1. CASE TriageUnavailable \/ TriageReplan
  <2>1. pc' = Idle /\ status' = status /\ triage' = triage
    BY <1>1 DEF TriageUnavailable, TriageReplan, Stop, repo
  <2> QED
    BY <2>1, NothingDue DEF Idle
<1>2. ASSUME NEW d \in Decisions, Decide(d) \/ Escalate PROVE DueStep
  <2>1. /\ pc = "triage" /\ pc' \in {Idle, "apply"} /\ status' = status
        /\ triage'.n = triage.n + 1
    BY <1>0, <1>2 DEF Decide, Escalate, Stop, Goto, TypeOK
  <2>2. triage.n < TriageMax /\ status # "TODO"
    BY <2>1 DEF DueInv
  <2> QED
    BY <1>0, <2>1, <2>2 DEF DueStep, Idle
<1>3. CASE TriageRerunGates
  BY <1>3, GateDue DEF TriageRerunGates
<1>4. CASE TriageRerunVerifier
  BY <1>4, GateDue DEF TriageRerunVerifier
<1>5. CASE TriageRetry
  <2>1. pc = "apply" /\ startRetryAttempt(exec.run, TRUE, Tick(1)) /\ triage' = triage
    BY <1>5 DEF TriageRetry, Applying
  <2>2. exec.run \in DOMAIN runs /\ Due
    BY <2>1 DEF TypeInv, AtHand, Due
  <2> QED
    BY <1>0, <2>1, <2>2, RetryDue
<1>6. CASE TriageUnblock
  <2>1. pc = "apply" /\ pc' = "loop" /\ status' = "TODO" /\ triage' = triage
    BY <1>6 DEF TriageUnblock, Applying, Goto, writeStatus
  <2> QED
    BY <2>1 DEF DueInv, DueStep, Due
<1> QED
  BY <1>1, <1>2, <1>3, <1>4, <1>5, <1>6 DEF TriageStep, Decisions

\* When nobody types a command but execute, there is no other way to an attempt.
LEMMA OutsideDue ==
  ASSUME MaxOps = 0, TypeInv, DueInv,
         Commands \/ TogglePause \/ Edit \/ Crash \/ UNCHANGED vars
  PROVE  DueStep
<1>0. ~(ops < MaxOps)
  BY DEF TypeInv, TypeOK
<1>1. CASE Commands
  <2>1. PICK ack \in BOOLEAN : Execute(ack)
    BY <1>0, <1>1 DEF Commands, Command, CmdRun, CmdSnapshot, CmdTransition, CmdRetry, CmdDiagnose,
       CmdGate, CmdVerify
  <2> QED
    BY <2>1, NothingDue DEF Execute, repo
<1>2. CASE TogglePause \/ Edit \/ UNCHANGED vars
  <2>1. UNCHANGED <<status, triage, pc, exec>>
    BY <1>2 DEF TogglePause, Edit, vars, repo
  <2> QED
    BY <2>1 DEF DueInv, DueStep, Due
<1>3. CASE Crash
  BY <1>3, NothingDue DEF Crash, Stop, Idle
<1> QED
  BY <1>1, <1>2, <1>3

\* An attempt that is created was due, if it is a first one or has a lesson.
LEMMA DueKeeps ==
  ASSUME TypeInv, TypeInv', DueInv, BudgetShape, DueStep
  PROVE  DueInv'
<1> DEFINE Paid(rs) == Launched(rs, "FIRST") + Launched(rs, "RETRY_WITH_TRIAGE")
<1>0. /\ RunsOK(runs) /\ Len(runs) \in Nat /\ triage.n \in Nat /\ triage'.n \in Nat
      /\ triage'.n \in {triage.n, triage.n + 1}
  BY LenProperties DEF TypeInv, TypeOK, RunsOK, DueStep
<1>1. CASE RecordsKept(runs, runs')
  <2>1. Paid(runs') = Paid(runs)
    BY <1>1, SameLaunched
  <2>2. Launched(runs, "FIRST") \in Nat /\ Launched(runs, "RETRY_WITH_TRIAGE") \in Nat
    <3>1. PICK r \in Runs : r.parent <= Len(runs)
      <4>1. NewRun(1, "FIRST", 0) \in Runs /\ NewRun(1, "FIRST", 0).parent = 0
        BY NewRunType DEF RunActs
      <4> QED
        BY <1>0, <4>1
    <3> QED
      BY <1>0, <3>1, OneMoreLaunched
  <2> QED
    BY <1>0, <2>1, <2>2 DEF DueInv, DueStep
<1>2. CASE CreatesRun
  <2>1. PICK n \in Nat \ {0} : runs' = Append(runs, NewRun(n, exec.act, exec.run))
    BY <1>2 DEF CreatesRun
  <2>2. /\ pc = "snapshot" /\ pc' # "snapshot" /\ exec.act \in RunActs
        /\ exec.run \in 0..Len(runs)
    BY <1>2 DEF CreatesRun, TypeInv, AtHand
  <2> DEFINE r == NewRun(n, exec.act, exec.run)
  <2>3. r \in Runs /\ r.parent <= Len(runs) /\ r.act = exec.act
    BY <1>0, <2>2, NewRunType DEF NewRun
  <2> HIDE DEF r
  <2>4. runs' = Append(runs, r)
    BY <2>1 DEF r
  <2>5. \A a : /\ Launched(runs, a) \in Nat
               /\ Launched(runs', a) = Launched(runs, a) + (IF exec.act = a THEN 1 ELSE 0)
    BY <1>0, <2>3, <2>4, OneMoreLaunched
  <2>6. ~Due' /\ (exec.act \in {"FIRST", "RETRY_WITH_TRIAGE"} => Due)
    BY <2>2 DEF DueStep, Due
  <2> QED
    BY <1>0, <2>2, <2>5, <2>6 DEF DueInv, DueStep
<1> QED
  BY <1>1, <1>2 DEF BudgetShape, KeepsRecords, DecidesAttempt

\* The shape of a step, where the snapshot command is one that nobody types.
LEMMA OutsideShape ==
  ASSUME MaxOps = 0, TypeInv, Commands
  PROVE  BudgetShape
<1>1. ~(ops < MaxOps)
  BY DEF TypeInv, TypeOK
<1>2. PICK ack \in BOOLEAN : Execute(ack)
  BY <1>1 DEF Commands, Command, CmdRun, CmdSnapshot, CmdTransition, CmdRetry, CmdDiagnose,
     CmdGate, CmdVerify
<1>3. runs' = runs /\ pc' = "loop"
  BY <1>2 DEF Execute, repo
<1> QED
  BY <1>3, RecordsReflexive DEF BudgetShape, KeepsRecords

\* Every step keeps both counts.
LEMMA WorkersStep ==
  ASSUME MaxOps = 0, TypeInv, BudgetInv, TickInv, CountInv, DueInv, [Next]_vars
  PROVE  CountInv' /\ DueInv'
<1>1. TypeInv'
  BY TypeStep
<1>2. BudgetShape
  BY <1>1, LoopShape, StageShape, TriageShape, OutsideShape, EnvironmentShape DEF Next, Runtime
<1>3. DueStep
  BY LoopDue, StageDue, TriageDue, OutsideDue DEF Next, Runtime
<1> QED
  BY <1>1, <1>2, <1>3, ShapeKeepsCount, DueKeeps DEF StepShape

\* A Task driven by execute alone never starts more workers than the limits pay for:
\* the first attempt, the retries of either kind, and one for each Triage decision.
THEOREM WorkersAreBounded ==
  ASSUME MaxOps = 0
  PROVE  Spec => []WorkersBounded
<1> DEFINE Inv == TypeInv /\ BudgetInv /\ TickInv /\ CountInv /\ DueInv
<1>1. Init => Inv
  <2> SUFFICES ASSUME Init PROVE CountInv /\ DueInv
    BY TypeInit, BudgetInit
  <2>1. runs = << >> /\ pc = Idle /\ status = "TODO" /\ triage.n = 0
    BY DEF Init
  <2>2. \A act : Launched(runs, act) = 0
    <3> SUFFICES ASSUME NEW act PROVE Launched(runs, act) = 0
      OBVIOUS
    <3>1. {j \in DOMAIN runs : runs[j].act = act} = {}
      BY <2>1
    <3> QED
      BY <3>1, FS_EmptySet DEF Launched
  <2>3. Len(runs) = 0 /\ TriageMax \in Nat
    BY <2>1, LimitsAssumption
  <2>4. CountInv
    BY <2>2, <2>3 DEF CountInv
  <2> QED
    BY <2>1, <2>2, <2>3, <2>4 DEF DueInv, Due, Idle
<1>2. Inv /\ [Next]_vars => Inv'
  <2> SUFFICES ASSUME Inv, [Next]_vars PROVE Inv'
    OBVIOUS
  <2> QED
    BY TypeStep, BudgetStep, WorkersStep
<1>3. Inv => WorkersBounded
  <2> SUFFICES ASSUME Inv PROVE WorkersBounded
    OBVIOUS
  <2>1. /\ Len(runs) \in Nat /\ triage.n \in Nat
        /\ RetryMax \in Nat /\ HintMax \in Nat /\ TriageMax \in Nat
    BY LenProperties, LimitsAssumption DEF TypeInv, TypeOK, RunsOK
  <2>2. Launched(runs, "RETRY") <= RetryMax /\ Launched(runs, "RETRY_WITH_HINT") <= HintMax
    BY DEF BudgetInv, RetryBudget
  <2>3. \A a : Launched(runs, a) \in Nat
    <3>1. NewRun(1, "FIRST", 0) \in Runs /\ NewRun(1, "FIRST", 0).parent = 0
      BY NewRunType DEF RunActs
    <3> QED
      BY <2>1, <3>1, OneMoreLaunched DEF TypeInv, TypeOK
  <2>4. Launched(runs, "FIRST") + Launched(runs, "RETRY_WITH_TRIAGE") <= TriageMax + 1
    BY <2>1, <2>3 DEF DueInv
  <2>5. /\ Launched(runs, "FIRST") \in Nat /\ Launched(runs, "RETRY") \in Nat
        /\ Launched(runs, "RETRY_WITH_HINT") \in Nat
        /\ Launched(runs, "RETRY_WITH_TRIAGE") \in Nat
    BY <2>3
  <2> QED
    BY <2>1, <2>2, <2>4, <2>5 DEF WorkersBounded, CountInv
<1> QED
  BY <1>1, <1>2, <1>3, PTL DEF Spec

-----------------------------------------------------------------------------
(* The guard of the loop is never needed.  What is still ahead of an       *)
(* execution, in transitions, is bounded by what its limits have paid for: *)
(* five for an attempt and one for a rerun of the gates, and as an attempt *)
(* is repeated only within its budget there is an end to that.             *)

\* Transitions until the verdict on run r: one verifier call, and a second one
\* if the first broke and was not repeated yet, or the write of DONE.
VerdictAhead(r) == IF r.ver.res = "none" THEN IF r.verHistory THEN 1 ELSE 2
                   ELSE IF ReportPassed(r) THEN 1
                   ELSE IF r.verHistory THEN 0 ELSE 1
VerifierAhead(r) == IF r.verHistory THEN 0 ELSE 1
GatesAhead(r)    == IF r.gate.res = "none" THEN 1 ELSE 0

ReviewAhead(rs) ==
  LET i == LatestCompleted(rs)
  IN  IF i = 0 THEN 0 ELSE GatesAhead(rs[i]) + VerdictAhead(rs[i])
ProgressAhead(rs) ==
  LET i == LatestCompleted(rs)
  IN  IF i # 0 /\ RequestPending(rs[i]) THEN 1 + ReviewAhead(rs) ELSE 0
\* A worker leaves a new run for review, or the one before as it was.
WorkerAhead(rs) == IF ProgressAhead(rs) >= 3 THEN ProgressAhead(rs) ELSE 3
LoopAhead(s, rs) == CASE s = "TODO"        -> 5
                      [] s = "IN_PROGRESS" -> ProgressAhead(rs)
                      [] s = "REVIEW"      -> ReviewAhead(rs)
                      [] OTHER             -> 0

\* What the files, the reruns of this execution and the decisions so far pay for.
PaidOf(rs, reruns, n) ==
  5 + reruns + 5 * (Launched(rs, "RETRY") + Launched(rs, "RETRY_WITH_HINT")) + 6 * n

\* The tally in a state: stage p, status s, files rs, memory e, n decisions used.
Counts(p, s, rs, e, n) ==
  LET paid == PaidOf(rs, e.reruns, n)
  IN  /\ p \in {"gate", "verify", "triage", "apply"} => e.run = LatestCompleted(rs)
      /\ p = "loop"      => e.ticks + LoopAhead(s, rs) <= paid
      /\ p = "snapshot"  => e.ticks + WorkerAhead(rs)
                              <= paid + (IF e.act \in RETRYABLE_ACTIONS THEN 5 ELSE 0)
      /\ p = "worker"    => e.ticks + WorkerAhead(rs) <= paid
      /\ p = "requested" => e.ticks + 3 <= paid
      /\ p = "gate"      => e.ticks + VerdictAhead(rs[e.run]) <= paid
      /\ p = "verify"    => e.ticks + VerifierAhead(rs[e.run]) <= paid
      /\ p \in {"verdict", "triage"} => e.ticks <= paid
      /\ p = "apply"     => e.ticks + 6 <= paid

TallyAt(p, s, rs, e, n) ==
  /\ n <= TriageMax /\ e.reruns <= 1
  /\ p = "triage" => n < TriageMax
  /\ p \in {"snapshot", "worker", "requested"} => s = "IN_PROGRESS"
  /\ p \in {"gate", "verify", "verdict"} => s = "REVIEW"
  /\ p \in {"loop", "triage", "apply"} => ~e.single
  /\ p = "verify" => rs[e.run].gate.res # "none"
  /\ ~e.single => Counts(p, s, rs, e, n)

TallyInv == TallyAt(pc, status, runs, exec, triage.n) /\ GuardNeverNeeded

\* What is ahead is never more than one whole attempt.
LEMMA AheadTypes ==
  ASSUME NEW rs, NEW r, NEW s
  PROVE  /\ VerdictAhead(r) \in 0..2 /\ VerifierAhead(r) \in 0..1 /\ GatesAhead(r) \in 0..1
         /\ ReviewAhead(rs) \in 0..3 /\ ProgressAhead(rs) \in 0..4
         /\ WorkerAhead(rs) \in 3..4 /\ ProgressAhead(rs) <= WorkerAhead(rs)
         /\ LoopAhead(s, rs) \in 0..5
<1>1. \A q : VerdictAhead(q) \in 0..2 /\ VerifierAhead(q) \in 0..1 /\ GatesAhead(q) \in 0..1
  BY DEF VerdictAhead, VerifierAhead, GatesAhead
<1>2. ReviewAhead(rs) \in 0..3
  BY <1>1 DEF ReviewAhead
<1>3. ProgressAhead(rs) \in 0..4
  BY <1>2 DEF ProgressAhead
<1> QED
  BY <1>1, <1>2, <1>3 DEF WorkerAhead, LoopAhead

\* The same files but for diagnoses and leftovers.
FilesKept(rs, rs2) ==
  /\ DOMAIN rs2 = DOMAIN rs
  /\ \A j \in DOMAIN rs : /\ rs2[j].act = rs[j].act /\ rs2[j].attempt = rs[j].attempt
                          /\ rs2[j].env = rs[j].env /\ rs2[j].gate = rs[j].gate
                          /\ rs2[j].ver = rs[j].ver /\ rs2[j].verHistory = rs[j].verHistory

\* How often an act was launched is a number.
LEMMA LaunchedNat == ASSUME NEW rs, RunsOK(rs), NEW act PROVE Launched(rs, act) \in Nat
<1>1. Len(rs) \in Nat
  BY LenProperties DEF RunsOK
<1>2. NewRun(1, "FIRST", 0) \in Runs /\ NewRun(1, "FIRST", 0).parent = 0
  BY NewRunType DEF RunActs
<1> QED
  BY <1>1, <1>2, OneMoreLaunched

\* What is paid for is a number,
LEMMA PaidType ==
  ASSUME NEW rs, RunsOK(rs), NEW k \in Nat, NEW n \in Nat
  PROVE  PaidOf(rs, k, n) \in Nat
<1>1. Launched(rs, "RETRY") \in Nat /\ Launched(rs, "RETRY_WITH_HINT") \in Nat
  BY LaunchedNat
<1> QED
  BY <1>1 DEF PaidOf

\* and the same for the same records.
LEMMA SamePaid ==
  ASSUME NEW rs, NEW rs2, RecordsKept(rs, rs2), NEW k, NEW n
  PROVE  PaidOf(rs2, k, n) = PaidOf(rs, k, n)
BY SameLaunched DEF PaidOf

\* Such files have the same ahead of them.
LEMMA SameAhead ==
  ASSUME NEW rs, RunsOK(rs), NEW rs2, RunsOK(rs2), FilesKept(rs, rs2)
  PROVE  /\ LatestCompleted(rs2) = LatestCompleted(rs)
         /\ ReviewAhead(rs2) = ReviewAhead(rs) /\ ProgressAhead(rs2) = ProgressAhead(rs)
         /\ WorkerAhead(rs2) = WorkerAhead(rs)
         /\ \A s : LoopAhead(s, rs2) = LoopAhead(s, rs)
         /\ \A j \in DOMAIN rs : /\ VerdictAhead(rs2[j]) = VerdictAhead(rs[j])
                                 /\ VerifierAhead(rs2[j]) = VerifierAhead(rs[j])
         /\ \A k, n : PaidOf(rs2, k, n) = PaidOf(rs, k, n)
<1> DEFINE i == LatestCompleted(rs)
<1>1. LatestCompleted(rs2) = i /\ (i = 0 \/ i \in DOMAIN rs)
  BY SameLatest, LatestCompletedIsARun DEF RunsOK, FilesKept
<1>2. \A j \in DOMAIN rs : /\ VerdictAhead(rs2[j]) = VerdictAhead(rs[j])
                           /\ VerifierAhead(rs2[j]) = VerifierAhead(rs[j])
                           /\ GatesAhead(rs2[j]) = GatesAhead(rs[j])
                           /\ RequestPending(rs2[j]) <=> RequestPending(rs[j])
  BY DEF FilesKept, VerdictAhead, VerifierAhead, GatesAhead, RequestPending, ReportPassed,
     WorkerFailed, ResultValid
<1>3. ReviewAhead(rs2) = ReviewAhead(rs)
  BY <1>1, <1>2 DEF ReviewAhead
<1>4. ProgressAhead(rs2) = ProgressAhead(rs)
  BY <1>1, <1>2, <1>3 DEF ProgressAhead
<1>5. \A k, n : PaidOf(rs2, k, n) = PaidOf(rs, k, n)
  BY SamePaid DEF FilesKept, RecordsKept
<1> QED
  BY <1>1, <1>2, <1>3, <1>4, <1>5 DEF WorkerAhead, LoopAhead

\* A diagnosis keeps them.
LEMMA DiagnoseFiles ==
  ASSUME NEW rs, RunsOK(rs), NEW i \in DOMAIN rs, NEW c
  PROVE  FilesKept(rs, Diagnose(rs, i, c))
<1> DEFINE f == Fingerprint(computeDiagnosis(rs[i], c))
           r == [rs[i] EXCEPT !.diag = f]
<1>1. rs[i] \in Runs
  BY LenProperties, ElementOfSeq DEF RunsOK
<1>2. /\ r.act = rs[i].act /\ r.attempt = rs[i].attempt /\ r.env = rs[i].env
      /\ r.gate = rs[i].gate /\ r.ver = rs[i].ver /\ r.verHistory = rs[i].verHistory
  <2> HIDE DEF f
  <2> QED
    BY <1>1 DEF Runs
<1>3. Diagnose(rs, i, c) = [rs EXCEPT ![i] = r]
  BY DEF Diagnose
<1> HIDE DEF r
<1> QED
  BY <1>2, <1>3 DEF FilesKept

\* So does resolving the next action.
LEMMA DiagnosedFiles == ASSUME TypeOK PROVE FilesKept(runs, Diagnosed) /\ RunsOK(Diagnosed)
<1> DEFINE i == LatestCompleted(runs)
<1>1. RunsOK(runs) /\ (i = 0 \/ i \in DOMAIN runs)
  BY LatestCompletedIsARun DEF TypeOK, RunsOK
<1>2. Diagnosed = runs \/ (i \in DOMAIN runs /\ Diagnosed = Diagnose(runs, i, Current))
  BY <1>1 DEF Diagnosed, Resolved
<1> HIDE DEF i
<1>3. FilesKept(runs, runs)
  BY DEF FilesKept
<1> QED
  BY <1>1, <1>2, <1>3, DiagnoseFiles, DiagnoseType

\* A run without an envelope is not looked at.
LEMMA UnfinishedAhead ==
  ASSUME NEW rs, RunsOK(rs), NEW rs2, RunsOK(rs2), NEW r \in Runs, r.parent <= Len(rs),
         ~Completed(r), rs2 = Append(rs, r)
  PROVE  /\ LatestCompleted(rs2) = LatestCompleted(rs)
         /\ WorkerAhead(rs2) = WorkerAhead(rs)
         /\ \A s : LoopAhead(s, rs2) = LoopAhead(s, rs)
<1> DEFINE n == LatestCompleted(rs)
           m == LatestCompleted(rs2)
<1>1. /\ Len(rs) \in Nat /\ DOMAIN rs = 1..Len(rs) /\ DOMAIN rs2 = 1..(Len(rs) + 1)
      /\ \A j \in DOMAIN rs : rs2[j] = rs[j]
      /\ rs2[Len(rs) + 1] = r
  BY AppendRun, LenProperties DEF RunsOK
<1>2. \/ n = 0 /\ \A j \in DOMAIN rs : ~Completed(rs[j])
      \/ n \in DOMAIN rs /\ Completed(rs[n]) /\ \A j \in DOMAIN rs : Completed(rs[j]) => j <= n
  BY LatestCompletedIsNewest DEF RunsOK
<1>3. \/ m = 0 /\ \A j \in DOMAIN rs2 : ~Completed(rs2[j])
      \/ m \in DOMAIN rs2 /\ Completed(rs2[m]) /\ \A j \in DOMAIN rs2 : Completed(rs2[j]) => j <= m
  BY LatestCompletedIsNewest DEF RunsOK
<1> HIDE DEF n, m
<1>4. m = n
  BY <1>1, <1>2, <1>3
<1>5. n = 0 \/ rs2[n] = rs[n]
  BY <1>1, <1>2
<1>6. ReviewAhead(rs2) = ReviewAhead(rs)
  BY <1>4, <1>5 DEF ReviewAhead, n, m
<1>7. ProgressAhead(rs2) = ProgressAhead(rs)
  BY <1>4, <1>5, <1>6 DEF ProgressAhead, n, m
<1> QED
  BY <1>4, <1>6, <1>7 DEF WorkerAhead, LoopAhead, n, m

\* With a new envelope its run is the newest one, or the newest is another as before.
LEMMA CompletedAhead ==
  ASSUME NEW rs, RunsOK(rs), NEW rs2, RunsOK(rs2), NEW i \in DOMAIN rs, NEW r,
         rs2 = [rs EXCEPT ![i] = r], Completed(r)
  PROVE  LatestCompleted(rs2) \in {i, LatestCompleted(rs)}
<1> DEFINE n == LatestCompleted(rs)
           m == LatestCompleted(rs2)
<1>1. /\ DOMAIN rs2 = DOMAIN rs /\ \A j \in DOMAIN rs : j \in Nat
      /\ rs2[i] = r /\ \A j \in DOMAIN rs : j # i => rs2[j] = rs[j]
  BY LenProperties DEF RunsOK
<1>2. \/ n = 0 /\ \A j \in DOMAIN rs : ~Completed(rs[j])
      \/ n \in DOMAIN rs /\ Completed(rs[n]) /\ \A j \in DOMAIN rs : Completed(rs[j]) => j <= n
  BY LatestCompletedIsNewest DEF RunsOK
<1>3. \/ m = 0 /\ \A j \in DOMAIN rs2 : ~Completed(rs2[j])
      \/ m \in DOMAIN rs2 /\ Completed(rs2[m]) /\ \A j \in DOMAIN rs2 : Completed(rs2[j]) => j <= m
  BY LatestCompletedIsNewest DEF RunsOK
<1> HIDE DEF n, m
<1>4. m \in {i, n}
  BY <1>1, <1>2, <1>3
<1> QED
  BY <1>4 DEF n, m

\* What only diagnoses were added to has the same tally.
LEMMA TallySameFiles ==
  ASSUME TypeInv, TypeInv', TallyInv, UNCHANGED <<status, triage, pc, exec, stop>>,
         FilesKept(runs, runs')
  PROVE  TallyInv'
<1>1. /\ LatestCompleted(runs') = LatestCompleted(runs)
      /\ WorkerAhead(runs') = WorkerAhead(runs)
      /\ \A s : LoopAhead(s, runs') = LoopAhead(s, runs)
      /\ \A j \in DOMAIN runs : /\ VerdictAhead(runs'[j]) = VerdictAhead(runs[j])
                                /\ VerifierAhead(runs'[j]) = VerifierAhead(runs[j])
      /\ \A k, n : PaidOf(runs', k, n) = PaidOf(runs, k, n)
  BY SameAhead DEF TypeInv, TypeOK
<1>2. \A j \in DOMAIN runs : runs'[j].gate = runs[j].gate
  BY DEF FilesKept
<1>3. pc \in {"gate", "verify"} => exec.run \in DOMAIN runs
  BY DEF TypeInv, AtHand
<1> QED
  BY <1>1, <1>2, <1>3 DEF TallyInv, TallyAt, Counts, GuardNeverNeeded

\* A process that stops has nothing ahead.
LEMMA StopTally ==
  ASSUME TallyInv, TypeInv', NEW why, Stop(why), triage'.n <= TriageMax,
         why # "RUNTIME_LOOP_GUARD_EXCEEDED"
  PROVE  TallyInv'
BY DEF Stop, NoExec, TallyInv, TallyAt, Counts, GuardNeverNeeded, Idle

\* The loop goes on with what is ahead of the Task as it is.
LEMMA LoopTally ==
  ASSUME TallyInv, pc' = "loop", stop' # "RUNTIME_LOOP_GUARD_EXCEEDED",
         triage'.n <= TriageMax, exec'.reruns <= 1, ~exec'.single,
         exec'.ticks + LoopAhead(status', runs') <= PaidOf(runs', exec'.reruns, triage'.n)
  PROVE  TallyInv'
BY DEF TallyInv, TallyAt, Counts, GuardNeverNeeded

\* So does a finished stage.
LEMMA ReturnTally ==
  ASSUME TypeInv, TypeInv', TallyInv, Return, triage' = triage,
         exec.single \/ exec.ticks + LoopAhead(status', runs') <= PaidOf(runs', exec.reruns, triage.n)
  PROVE  TallyInv'
<1>0. triage.n <= TriageMax /\ exec.reruns <= 1 /\ stop # "RUNTIME_LOOP_GUARD_EXCEEDED"
  BY DEF TallyInv, TallyAt, GuardNeverNeeded
<1>1. CASE exec.single
  BY <1>0, <1>1, StopTally DEF Return
<1>2. CASE ~exec.single
  <2> DEFINE e == [exec EXCEPT !.run = 0, !.act = "FIRST", !.subj = NoSubject]
  <2>1. e.ticks = exec.ticks /\ e.reruns = exec.reruns /\ e.single = exec.single
    BY DEF TypeInv, TypeOK, Execs
  <2>2. pc' = "loop" /\ exec' = e /\ stop' = stop
    BY <1>2 DEF Return, Goto
  <2> HIDE DEF e
  <2> QED
    BY <1>0, <1>2, <2>1, <2>2, LoopTally
<1> QED
  BY <1>1, <1>2

\* Gates of the newest run that start, and with which the report of a run goes.
LEMMA GateTally ==
  ASSUME TypeInv, TypeInv', TallyInv, NEW rs, RunsOK(rs), NEW i \in DOMAIN rs,
         NEW rerun \in BOOLEAN, NEW e \in Execs, stageGate(rs, i, rerun, e),
         status' = status, triage' = triage, e.reruns <= 1,
         e.single \/ /\ i = LatestCompleted(rs)
                     /\ e.ticks + VerdictAhead(rs[i]) <= PaidOf(rs, e.reruns, triage.n)
  PROVE  TallyInv'
<1> DEFINE f == [e EXCEPT !.run = i, !.subj = Current]
<1>0. triage.n <= TriageMax /\ stop # "RUNTIME_LOOP_GUARD_EXCEEDED"
  BY DEF TallyInv, TallyAt, GuardNeverNeeded
<1>1. f.ticks = e.ticks /\ f.reruns = e.reruns /\ f.single = e.single /\ f.run = i
  BY DEF Execs
<1> HIDE DEF f
<1>2. CASE Stop("GATE_NOT_ELIGIBLE") \/ Stop("GATE_SUITE_THREW")
  BY <1>0, <1>2, StopTally
<1>3. CASE Goto("gate", f) /\ GateEligible(rs[i], status)
  <2>1. /\ pc' = "gate" /\ exec' = f /\ stop' = stop /\ status' = "REVIEW"
    BY <1>3 DEF Goto, GateEligible
  <2>2. runs' = rs \/ runs' = GatesArchived(rs, i)
    BY DEF stageGate
  <2>3. /\ PaidOf(runs', e.reruns, triage.n) = PaidOf(rs, e.reruns, triage.n)
        /\ VerdictAhead(runs'[i]) = VerdictAhead(rs[i])
        /\ LatestCompleted(runs') = LatestCompleted(rs)
    <3>1. CASE runs' = rs
      BY <3>1
    <3>2. CASE runs' = GatesArchived(rs, i)
      <4> DEFINE g == [rs[i] EXCEPT !.gate = NoGate, !.gateDebris = FALSE]
      <4>1. g.env = rs[i].env /\ g.ver = rs[i].ver /\ g.verHistory = rs[i].verHistory
        <5>1. rs[i] \in Runs
          BY LenProperties, ElementOfSeq DEF RunsOK
        <5> QED
          BY <5>1 DEF Runs
      <4>2. runs' = [rs EXCEPT ![i] = g]
        BY <3>2 DEF GatesArchived
      <4> HIDE DEF g
      <4>3. VerdictAhead(runs'[i]) = VerdictAhead(rs[i])
        BY <4>1, <4>2 DEF VerdictAhead, ReportPassed
      <4>4. DOMAIN runs' = DOMAIN rs /\ \A j \in DOMAIN rs : runs'[j].env = rs[j].env
        BY <4>1, <4>2
      <4>5. RunsOK(runs')
        BY DEF TypeInv, TypeOK
      <4>6. LatestCompleted(runs') = LatestCompleted(rs)
        BY <4>4, <4>5, SameLatest DEF RunsOK
      <4>7. PaidOf(runs', e.reruns, triage.n) = PaidOf(rs, e.reruns, triage.n)
        BY <3>2, ArchivedRecords, SamePaid
      <4> QED
        BY <4>3, <4>6, <4>7
    <3> QED
      BY <2>2, <3>1, <3>2
  <2> QED
    BY <1>0, <1>1, <2>1, <2>3 DEF TallyInv, TallyAt, Counts, GuardNeverNeeded
<1> QED
  BY <1>2, <1>3 DEF stageGate, f

\* A verifier call of the newest run that starts; with an earlier report goes the
\* right to a second one.
LEMMA VerifyTally ==
  ASSUME TypeInv, TypeInv', TallyInv, NEW rs, RunsOK(rs), NEW i \in DOMAIN rs,
         NEW rerun \in BOOLEAN, NEW e \in Execs, stageVerify(rs, i, rerun, e),
         status' = status, triage' = triage, e.reruns <= 1,
         \/ e.single
         \/ /\ i = LatestCompleted(rs)
            /\ e.ticks + (IF rerun /\ rs[i].ver.res # "none" THEN 0 ELSE VerifierAhead(rs[i]))
                 <= PaidOf(rs, e.reruns, triage.n)
  PROVE  TallyInv'
<1> DEFINE f == [e EXCEPT !.run = i, !.subj = Current]
<1>0. triage.n <= TriageMax /\ stop # "RUNTIME_LOOP_GUARD_EXCEEDED" /\ e.ticks \in Nat
  BY DEF TallyInv, TallyAt, GuardNeverNeeded, Execs
<1>1. f.ticks = e.ticks /\ f.reruns = e.reruns /\ f.single = e.single /\ f.run = i
  BY DEF Execs
<1> HIDE DEF f
<1>2. CASE Stop("VERIFIER_NOT_ELIGIBLE") \/ Stop("VERIFIER_LAUNCH_FAILED")
  BY <1>0, <1>2, StopTally
<1>3. CASE Goto("verify", f) /\ checkVerifierEligibility(rs[i], status, Current)
  <2>1. /\ pc' = "verify" /\ exec' = f /\ stop' = stop /\ status' = "REVIEW"
        /\ rs[i].gate.res # "none"
    BY <1>3 DEF Goto, checkVerifierEligibility, GateEligible, GatePassed
  <2>2. IF rerun /\ rs[i].ver.res # "none" THEN runs' = VerificationArchived(rs, i) ELSE runs' = rs
    BY <1>3 DEF stageVerify
  <2>3. /\ PaidOf(runs', e.reruns, triage.n) = PaidOf(rs, e.reruns, triage.n)
        /\ VerifierAhead(runs'[i]) = IF rerun /\ rs[i].ver.res # "none" THEN 0
                                     ELSE VerifierAhead(rs[i])
        /\ LatestCompleted(runs') = LatestCompleted(rs)
        /\ runs'[i].gate = rs[i].gate
    <3>1. CASE ~(rerun /\ rs[i].ver.res # "none")
      BY <2>2, <3>1
    <3>2. CASE rerun /\ rs[i].ver.res # "none"
      <4> DEFINE g == [rs[i] EXCEPT !.ver = NoVer, !.verDebris = FALSE, !.verHistory = TRUE]
      <4>1. g.env = rs[i].env /\ g.gate = rs[i].gate /\ g.verHistory = TRUE
        <5>1. rs[i] \in Runs
          BY LenProperties, ElementOfSeq DEF RunsOK
        <5> QED
          BY <5>1 DEF Runs
      <4>2. runs' = [rs EXCEPT ![i] = g]
        BY <2>2, <3>2 DEF VerificationArchived
      <4> HIDE DEF g
      <4>3. VerifierAhead(runs'[i]) = 0 /\ runs'[i].gate = rs[i].gate
        BY <4>1, <4>2 DEF VerifierAhead
      <4>4. DOMAIN runs' = DOMAIN rs /\ \A j \in DOMAIN rs : runs'[j].env = rs[j].env
        BY <4>1, <4>2
      <4>5. RunsOK(runs')
        BY DEF TypeInv, TypeOK
      <4>6. LatestCompleted(runs') = LatestCompleted(rs)
        BY <4>4, <4>5, SameLatest DEF RunsOK
      <4>7. PaidOf(runs', e.reruns, triage.n) = PaidOf(rs, e.reruns, triage.n)
        BY <2>2, <3>2, ArchivedRecords, SamePaid
      <4> QED
        BY <3>2, <4>3, <4>6, <4>7
    <3> QED
      BY <3>1, <3>2
  <2>4. f.single \/ f.ticks + VerifierAhead(runs'[i]) <= PaidOf(runs', f.reruns, triage.n)
    <3>1. VerifierAhead(rs[i]) \in 0..1
      BY AheadTypes
    <3>2. PaidOf(rs, e.reruns, triage.n) \in Nat
      BY PaidType DEF TypeInv, TypeOK, Execs
    <3> QED
      BY <1>0, <1>1, <2>3, <3>1, <3>2
  <2> QED
    BY <1>0, <1>1, <2>1, <2>3, <2>4 DEF TallyInv, TallyAt, Counts, GuardNeverNeeded
<1> QED
  BY <1>2, <1>3 DEF stageVerify, f

\* An attempt that begins has a worker, and then a run, ahead of it.
LEMMA BeginTally ==
  ASSUME TypeInv, TallyInv, NEW i \in Nat, NEW act \in RunActs, NEW e \in Execs,
         BeginAttempt(i, act, e), triage' = triage, e.reruns <= 1,
         e.single \/ e.ticks + WorkerAhead(runs')
                       <= PaidOf(runs', e.reruns, triage.n)
                          + (IF act \in RETRYABLE_ACTIONS THEN 5 ELSE 0)
  PROVE  TallyInv'
<1> DEFINE f == [e EXCEPT !.run = i, !.act = act]
<1>0. triage.n <= TriageMax /\ stop # "RUNTIME_LOOP_GUARD_EXCEEDED"
  BY DEF TallyInv, TallyAt, GuardNeverNeeded
<1>1. f.ticks = e.ticks /\ f.reruns = e.reruns /\ f.single = e.single /\ f.act = act
  BY DEF Execs
<1> HIDE DEF f
<1>2. pc' = "snapshot" /\ exec' = f /\ stop' = stop /\ status' = "IN_PROGRESS"
  BY DEF BeginAttempt, Goto, writeStatus, f
<1> QED
  BY <1>0, <1>1, <1>2 DEF TallyInv, TallyAt, Counts, GuardNeverNeeded

\* A retry is refused, or begins on the files it found.
LEMMA RetryTally ==
  ASSUME TypeInv, TypeInv', TallyInv, NEW i \in DOMAIN runs, NEW withLesson \in BOOLEAN,
         NEW e \in Execs, startRetryAttempt(i, withLesson, e), triage' = triage, e.reruns <= 1,
         e.single \/ e.ticks + WorkerAhead(runs)
                       <= PaidOf(runs, e.reruns, triage.n) + (IF withLesson THEN 0 ELSE 5)
  PROVE  TallyInv'
<1> DEFINE d   == computeDiagnosis(runs[i], Current)
           act == IF withLesson THEN "RETRY_WITH_TRIAGE" ELSE d.action
<1>0. triage.n <= TriageMax /\ i \in Nat /\ RunsOK(runs) /\ RunsOK(runs')
  BY LenProperties DEF TallyInv, TallyAt, TypeInv, TypeOK, RunsOK
<1>1. CASE Stop("RETRY_REFUSED")
  BY <1>0, <1>1, StopTally
<1>2. CASE /\ checkRetryEligibility(runs', i, status, d, withLesson)
           /\ BeginAttempt(i, act, e)
  <2>1. act \in RunActs /\ (~withLesson => act \in RETRYABLE_ACTIONS)
        /\ (withLesson => act \notin RETRYABLE_ACTIONS)
    BY <1>2 DEF checkRetryEligibility, RETRYABLE_ACTIONS, RunActs
  <2>2. WorkerAhead(runs') = WorkerAhead(runs)
        /\ PaidOf(runs', e.reruns, triage.n) = PaidOf(runs, e.reruns, triage.n)
    BY <1>0, DiagnoseFiles, SameAhead DEF startRetryAttempt
  <2> HIDE DEF act
  <2> QED
    BY <1>0, <1>2, <2>1, <2>2, BeginTally
<1> QED
  BY <1>1, <1>2 DEF startRetryAttempt

\* What is ahead shrinks with every transition the loop counts.
LEMMA LoopTallies ==
  ASSUME 6 + 5 * (RetryMax + HintMax) + 6 * TriageMax < loopGuardLimit,
         TypeInv, TypeInv', BudgetInv, TallyInv, LoopStep
  PROVE  TallyInv'
<1> DEFINE i == LatestCompleted(runs)
           paid == PaidOf(runs, exec.reruns, triage.n)
<1>0. /\ TypeOK /\ RunsOK(runs) /\ exec \in Execs /\ exec.ticks \in Nat /\ exec.reruns \in Nat
      /\ Tick(1) \in Execs /\ Tick(2) \in Execs /\ triage.n \in Nat /\ TriageMax \in Nat
      /\ status \in {"TODO", "IN_PROGRESS", "REVIEW", "DONE", "BLOCKED", "DROPPED"}
      /\ triage' = triage /\ triage.n <= TriageMax /\ paid \in Nat
      /\ stop # "RUNTIME_LOOP_GUARD_EXCEEDED"
  BY TickType, PaidType, LimitsAssumption
  DEF TypeInv, TypeOK, States, Execs, TallyInv, TallyAt, GuardNeverNeeded, LoopStep, GuardStop,
      OperatorStop, StopStep, AskTriage, ApplyResult, RecoverDone, RunWorker, RetryWorker,
      RunGates, RerunGates, CompleteGates, RunVerifier, repo
<1>00. /\ ~exec.single /\ exec.reruns <= 1 /\ exec.ticks + LoopAhead(status, runs) <= paid
  BY DEF LoopStep, GuardStop, OperatorStop, StopStep, AskTriage, ApplyResult, RecoverDone,
     RunWorker, RetryWorker, RunGates, RerunGates, CompleteGates, RunVerifier, Iteration, Step,
     TallyInv, TallyAt, Counts
<1>000. /\ Tick(1).ticks = exec.ticks + 1 /\ Tick(2).ticks = exec.ticks + 2
        /\ \A n \in {1, 2} : Tick(n).reruns = exec.reruns /\ ~Tick(n).single
  BY <1>0, <1>00 DEF Tick, Execs
<1>k. /\ \A r : /\ VerdictAhead(r) \in 0..2 /\ VerifierAhead(r) \in 0..1 /\ GatesAhead(r) \in 0..1
      /\ \A rs : /\ ReviewAhead(rs) \in 0..3 /\ ProgressAhead(rs) \in 0..4
                 /\ WorkerAhead(rs) \in 3..4 /\ ProgressAhead(rs) <= WorkerAhead(rs)
      /\ \A s, rs : LoopAhead(s, rs) \in 0..5
  BY AheadTypes
<1>f. /\ RunsOK(Diagnosed) /\ FilesKept(runs, Diagnosed) /\ DOMAIN Diagnosed = DOMAIN runs
      /\ LatestCompleted(Diagnosed) = i
      /\ PaidOf(Diagnosed, exec.reruns, triage.n) = paid
      /\ \A s : LoopAhead(s, Diagnosed) = LoopAhead(s, runs)
  BY <1>0, DiagnosedFiles, SameAhead DEF FilesKept
<1> HIDE DEF paid
<1>1. CASE GuardStop
  <2>1. exec.ticks >= loopGuardLimit
    BY <1>1 DEF GuardStop
  <2>2. Launched(runs, "RETRY") <= RetryMax /\ Launched(runs, "RETRY_WITH_HINT") <= HintMax
    BY DEF BudgetInv, RetryBudget
  <2>3. Launched(runs, "RETRY") \in Nat /\ Launched(runs, "RETRY_WITH_HINT") \in Nat
    BY <1>0, LaunchedNat
  <2>4. paid <= 6 + 5 * (RetryMax + HintMax) + 6 * TriageMax
    <3>1. RetryMax \in Nat /\ HintMax \in Nat
      BY LimitsAssumption
    <3> QED
      BY <1>0, <1>00, <2>2, <2>3, <3>1 DEF PaidOf, paid
  <2>5. LoopAhead(status, runs) \in 0..5 /\ RetryMax \in Nat /\ HintMax \in Nat
    BY <1>k, LimitsAssumption
  <2> QED
    BY <1>0, <1>00, <2>1, <2>4, <2>5, LimitType
<1>2. CASE OperatorStop \/ StopStep
  <2>1. PICK why : Stop(why) /\ why # "RUNTIME_LOOP_GUARD_EXCEEDED"
    BY <1>2 DEF OperatorStop, StopStep, Terminal, TRIAGE_STOPS
  <2> QED
    BY <1>0, <2>1, StopTally
<1>3. CASE AskTriage
  <2> DEFINE e == [exec EXCEPT !.run = LatestCompleted(runs), !.subj = Current, !.menu = Menu]
  <2>1. /\ pc' = "triage" /\ exec' = e /\ runs' = Diagnosed /\ triage.n < TriageMax /\ stop' = stop
    BY <1>3 DEF AskTriage, Goto, TriageUseful
  <2>2. /\ e.ticks = exec.ticks /\ e.reruns = exec.reruns /\ e.single = exec.single
        /\ e.run = LatestCompleted(runs)
    BY <1>0 DEF Execs
  <2> HIDE DEF e
  <2>3. e.ticks <= PaidOf(runs', e.reruns, triage'.n) /\ e.run = LatestCompleted(runs')
    BY <1>0, <1>00, <1>k, <1>f, <2>1, <2>2
  <2> QED
    BY <1>0, <1>00, <2>1, <2>2, <2>3 DEF TallyInv, TallyAt, Counts, GuardNeverNeeded
<1>4. CASE ApplyResult
  <2>1. /\ pc' = "loop" /\ exec' = Tick(1) /\ runs' = runs /\ stop' = stop
        /\ NextAction = "APPLY_WORKER_RESULT" /\ status' = runs[i].env.req
    BY <1>4 DEF ApplyResult, Step, Goto, writeStatus
  <2>2. i # 0 /\ status = "IN_PROGRESS" /\ RequestPending(runs[i])
    BY <1>0, <2>1, NextActionMeans DEF NextAction
  <2>3. status' \in {"REVIEW", "BLOCKED"}
    BY <2>1, <2>2 DEF RequestPending
  <2>4. /\ LoopAhead(status, runs) = 1 + ReviewAhead(runs)
        /\ LoopAhead(status', runs) <= ReviewAhead(runs)
    BY <1>k, <2>2, <2>3 DEF LoopAhead, ProgressAhead
  <2>5. exec.ticks + 1 + LoopAhead(status', runs) <= paid
    BY <1>0, <1>00, <1>k, <2>4
  <2> QED
    BY <1>0, <1>00, <1>000, <2>1, <2>5, LoopTally DEF paid
<1>5. CASE RecoverDone
  <2>1. /\ pc' = "loop" /\ exec' = Tick(1) /\ runs' = runs /\ stop' = stop
        /\ NextAction = "RECOVER_DONE" /\ status' = "DONE"
    BY <1>5 DEF RecoverDone, Step, Goto, writeStatus
  <2>2. i # 0 /\ status = "REVIEW" /\ ReportPassed(runs[i])
    BY <1>0, <2>1, NextActionMeans DEF NextAction
  <2>3. VerdictAhead(runs[i]) = 1
    BY <2>2 DEF VerdictAhead, ReportPassed
  <2>4. LoopAhead(status, runs) >= 1 /\ LoopAhead(status', runs) = 0
    BY <1>k, <2>1, <2>2, <2>3 DEF LoopAhead, ReviewAhead
  <2>5. exec.ticks + 1 + LoopAhead(status', runs) <= paid
    BY <1>0, <1>00, <1>k, <2>4
  <2> QED
    BY <1>0, <1>00, <1>000, <2>1, <2>5, LoopTally DEF paid
<1>6. CASE RunWorker
  <2>1. BeginAttempt(0, "FIRST", Tick(1)) /\ NextAction = "RUN_WORKER" /\ runs' = runs
    BY <1>6 DEF RunWorker, Step
  <2>2. LoopAhead(status, runs) = 5
    BY <1>0, <2>1, NextActionMeans DEF NextAction, LoopAhead
  <2>3. "FIRST" \in RunActs /\ "FIRST" \notin RETRYABLE_ACTIONS
    BY DEF RunActs, RETRYABLE_ACTIONS
  <2>4. exec.ticks + 1 + WorkerAhead(runs) <= paid
    BY <1>0, <1>00, <1>k, <2>2
  <2> QED
    BY <1>0, <1>00, <1>000, <2>1, <2>3, <2>4, BeginTally DEF paid
<1>7. CASE RetryWorker
  <2>1. NextAction = "RETRY_WORKER" /\ startRetryAttempt(i, FALSE, Tick(2))
    BY <1>7 DEF RetryWorker, Step
  <2>2. i \in DOMAIN runs /\ i # 0
    BY <1>0, <2>1, LoopRun, LenProperties DEF RunsOK
  <2>3. status = "REVIEW" \/ (status = "IN_PROGRESS" /\ ~RequestPending(runs[i]))
    BY <1>0, <2>1, RetriesConsulted DEF NextAction
  <2>4. WorkerAhead(runs) <= LoopAhead(status, runs) + 3
    BY <1>k, <2>3 DEF WorkerAhead, ProgressAhead, LoopAhead
  <2>5. exec.ticks + 2 + WorkerAhead(runs) <= paid + 5
    BY <1>0, <1>00, <1>k, <2>4
  <2> HIDE DEF i
  <2> QED
    BY <1>00, <1>000, <1>0, <2>1, <2>2, <2>5, RetryTally DEF paid
<1>8. CASE RunGates
  <2>1. NextAction = "RUN_GATES" /\ stageGate(runs, i, FALSE, Tick(1)) /\ status' = status
    BY <1>8 DEF RunGates, Step
  <2>2. i \in DOMAIN runs /\ i # 0
    BY <1>0, <2>1, LoopRun, LenProperties DEF RunsOK
  <2>3. status = "REVIEW" /\ runs[i].gate.res = "none"
    BY <1>0, <2>1, RetriesConsulted DEF NextAction
  <2>4. LoopAhead(status, runs) = 1 + VerdictAhead(runs[i])
    BY <2>2, <2>3 DEF LoopAhead, ReviewAhead, GatesAhead
  <2>5. exec.ticks + 1 + VerdictAhead(runs[i]) <= paid
    BY <1>0, <1>00, <1>k, <2>4
  <2>6. i = LatestCompleted(runs)
    OBVIOUS
  <2> HIDE DEF i
  <2> QED
    BY <1>00, <1>000, <1>0, <2>1, <2>2, <2>5, <2>6, GateTally DEF paid
<1>9. CASE RerunGates
  <2>1. NextAction = "RERUN_GATES" /\ status' = status
    BY <1>9 DEF RerunGates, Step
  <2>2. i \in DOMAIN runs /\ i # 0
    BY <1>0, <2>1, LoopRun, LenProperties DEF RunsOK
  <2>3. CASE Stop("UNSTABLE_SUBJECT")
    BY <1>0, <2>3, StopTally
  <2>4. CASE /\ ~(exec.reruns >= 1)
             /\ stageGate(runs, i, TRUE, [Tick(1) EXCEPT !.reruns = @ + 1])
    <3> DEFINE e == [Tick(1) EXCEPT !.reruns = @ + 1]
    <3>1. /\ e \in Execs /\ e.ticks = Tick(1).ticks /\ e.reruns = exec.reruns + 1
          /\ ~e.single /\ e.reruns <= 1
      BY <1>0, <1>000, <2>4 DEF Execs
    <3> HIDE DEF e
    <3>2. status = "REVIEW"
      BY <1>0, <2>1, RetriesConsulted DEF NextAction
    <3>3. LoopAhead(status, runs) >= VerdictAhead(runs[i])
      BY <1>k, <2>2, <3>2 DEF LoopAhead, ReviewAhead
    <3>4. PaidOf(runs, e.reruns, triage.n) = paid + 1
      <4>1. Launched(runs, "RETRY") \in Nat /\ Launched(runs, "RETRY_WITH_HINT") \in Nat
        BY <1>0, LaunchedNat
      <4> QED
        BY <1>0, <3>1, <4>1 DEF PaidOf, paid
    <3>5. e.ticks + VerdictAhead(runs[i]) <= PaidOf(runs, e.reruns, triage.n)
      BY <1>0, <1>00, <1>000, <1>k, <3>1, <3>3, <3>4
    <3>6. i = LatestCompleted(runs) /\ stageGate(runs, i, TRUE, e)
      BY <2>4 DEF e
    <3> HIDE DEF i
    <3> QED
      BY <1>0, <2>1, <2>2, <3>1, <3>5, <3>6, GateTally
  <2> QED
    BY <1>9, <2>3, <2>4 DEF RerunGates
<1>10. CASE CompleteGates
  <2> DEFINE e == [Tick(1) EXCEPT !.run = i]
             v == [res |-> "PASS", det |-> "none", stable |-> TRUE, method |-> "gate-only",
                   subj |-> Current, gateSubj |-> runs[i].gate.subj]
             r == [runs[i] EXCEPT !.ver = v]
  <2>1. /\ NextAction = "COMPLETE_GATES" /\ pc' = "verdict" /\ exec' = e /\ stop' = stop
        /\ status' = status /\ runs' = [runs EXCEPT ![i] = r]
    BY <1>10 DEF CompleteGates, Step, Goto
  <2>2. i \in DOMAIN runs /\ i # 0
    BY <1>0, <2>1, LoopRun, LenProperties DEF RunsOK
  <2>3. status = "REVIEW" /\ runs[i].ver.res = "none"
    BY <1>0, <2>1, NextActionMeans, CompletesOnPassedGates DEF NextAction
  <2>4. LoopAhead(status, runs) >= 1
    <3>1. VerdictAhead(runs[i]) >= 1
      BY <2>3 DEF VerdictAhead
    <3> QED
      BY <1>k, <2>2, <2>3, <3>1 DEF LoopAhead, ReviewAhead
  <2>5. /\ e.ticks = exec.ticks + 1 /\ e.reruns = exec.reruns /\ ~e.single
    BY <1>0, <1>000 DEF Execs
  <2>6. r.act = runs[i].act /\ r.attempt = runs[i].attempt
    <3>1. runs[i] \in Runs
      BY <1>0, <2>2, LenProperties, ElementOfSeq DEF RunsOK
    <3> HIDE DEF v
    <3> QED
      BY <3>1 DEF Runs
  <2> HIDE DEF e, r, i
  <2>7. PaidOf(runs', exec.reruns, triage.n) = paid
    <3>1. RecordsKept(runs, runs')
      BY <2>1, <2>2, <2>6, RewrittenRecords
    <3> QED
      BY <3>1, SamePaid DEF paid
  <2>8. e.ticks <= PaidOf(runs', e.reruns, triage'.n)
    BY <1>0, <1>00, <1>k, <2>4, <2>5, <2>7
  <2> QED
    BY <1>0, <1>00, <2>1, <2>3, <2>5, <2>8 DEF TallyInv, TallyAt, Counts, GuardNeverNeeded
<1>11. CASE RunVerifier
  <2> DEFINE again == ReportFailed(runs[i])
  <2>1. /\ NextAction = "RUN_VERIFIER" /\ stageVerify(Diagnosed, i, again, Tick(1))
        /\ status' = status
    BY <1>11 DEF RunVerifier, Step
  <2>2. i \in DOMAIN runs /\ i # 0 /\ again \in BOOLEAN
    BY <1>0, <2>1, LoopRun, LenProperties DEF RunsOK, ReportFailed
  <2>3. CASE status # "REVIEW"
    <3>1. ~checkVerifierEligibility(Diagnosed[i], status, Current)
      BY <2>3 DEF checkVerifierEligibility, GateEligible
    <3>2. Stop("VERIFIER_NOT_ELIGIBLE")
      BY <2>1, <3>1 DEF stageVerify
    <3> QED
      BY <1>0, <3>2, StopTally
  <2>4. CASE status = "REVIEW"
    <3>1. ~ReportPassed(runs[i]) /\ (again => ~Diagnose(runs, i, Current)[i].verHistory)
      BY <2>1, <2>4, VerifiesAgainOnce DEF NextAction
    <3>2. FilesKept(runs, Diagnose(runs, i, Current))
      BY <1>0, <2>2, DiagnoseFiles
    <3>3. again => ~runs[i].verHistory
      BY <2>2, <3>1, <3>2 DEF FilesKept
    <3>4. /\ Diagnosed[i].ver = runs[i].ver /\ Diagnosed[i].verHistory = runs[i].verHistory
      BY <1>f, <2>2 DEF FilesKept
    <3>5. 1 + (IF again /\ Diagnosed[i].ver.res # "none" THEN 0 ELSE VerifierAhead(Diagnosed[i]))
            <= VerdictAhead(runs[i])
      BY <3>1, <3>3, <3>4 DEF VerdictAhead, VerifierAhead, ReportFailed
    <3>6. LoopAhead(status, runs) >= VerdictAhead(runs[i])
      BY <1>k, <2>2, <2>4 DEF LoopAhead, ReviewAhead
    <3> DEFINE n == IF again /\ Diagnosed[i].ver.res # "none" THEN 0
                    ELSE VerifierAhead(Diagnosed[i])
    <3>7. n \in 0..1
      BY <1>k
    <3>8. 1 + n <= VerdictAhead(runs[i])
      BY <3>5
    <3>9. Tick(1).ticks + n <= paid
      <4> HIDE DEF n
      <4> QED
        BY <1>0, <1>00, <1>000, <1>k, <3>6, <3>7, <3>8
    <3>10. i = LatestCompleted(Diagnosed) /\ i \in DOMAIN Diagnosed
      BY <1>f, <2>2
    <3>11. paid = PaidOf(Diagnosed, Tick(1).reruns, triage.n)
      BY <1>f, <1>000
    <3> HIDE DEF i, again
    <3> QED
      BY <1>0, <1>00, <1>000, <1>f, <2>1, <2>2, <3>9, <3>10, <3>11, VerifyTally
  <2> QED
    BY <2>3, <2>4
<1> QED
  BY <1>1, <1>2, <1>3, <1>4, <1>5, <1>6, <1>7, <1>8, <1>9, <1>10, <1>11 DEF LoopStep

\* The run of an attempt is created for one that is paid, and nothing is ahead of a
\* stage that was not ahead of the step before it.
LEMMA StageTallies ==
  ASSUME TypeInv, TypeInv', TallyInv, StageStep
  PROVE  TallyInv'
<1> DEFINE i == LatestCompleted(runs)
           paid == PaidOf(runs, exec.reruns, triage.n)
<1>0. /\ TypeOK /\ RunsOK(runs) /\ RunsOK(runs') /\ exec \in Execs /\ exec.ticks \in Nat
      /\ exec.reruns \in Nat /\ exec.reruns <= 1 /\ triage.n \in Nat /\ TriageMax \in Nat
      /\ triage' = triage /\ triage.n <= TriageMax /\ paid \in Nat
      /\ stop # "RUNTIME_LOOP_GUARD_EXCEEDED"
  BY PaidType, LimitsAssumption
  DEF TypeInv, TypeOK, Execs, TallyInv, TallyAt, GuardNeverNeeded, StageStep, Snapshot,
      SnapshotFails, WorkerUnavailable, WorkerFinish, ApplyRequested, GateFinish, VerifyFinish,
      WriteDone, repo
<1>k. /\ \A r : /\ VerdictAhead(r) \in 0..2 /\ VerifierAhead(r) \in 0..1 /\ GatesAhead(r) \in 0..1
      /\ \A rs : /\ ReviewAhead(rs) \in 0..3 /\ ProgressAhead(rs) \in 0..4
                 /\ WorkerAhead(rs) \in 3..4 /\ ProgressAhead(rs) <= WorkerAhead(rs)
      /\ \A s, rs : LoopAhead(s, rs) \in 0..5
  BY AheadTypes
<1>r. ASSUME exec.run \in DOMAIN runs, NEW r, r.act = runs[exec.run].act,
             r.attempt = runs[exec.run].attempt, runs' = [runs EXCEPT ![exec.run] = r]
      PROVE  PaidOf(runs', exec.reruns, triage.n) = paid
  <2>1. RecordsKept(runs, runs')
    BY <1>r, RewrittenRecords
  <2> QED
    BY <2>1, SamePaid
<1> HIDE DEF paid
<1>1. CASE Snapshot
  <2> DEFINE e == [exec EXCEPT !.run = Len(runs) + 1]
  <2>1. PICK n \in 1..(Len(runs) + 1) : runs' = Append(runs, NewRun(n, exec.act, exec.run))
    BY <1>1 DEF Snapshot
  <2> DEFINE r == NewRun(n, exec.act, exec.run)
  <2>2. /\ pc = "snapshot" /\ pc' = "worker" /\ exec' = e /\ stop' = stop /\ status' = status
    BY <1>1 DEF Snapshot, Goto
  <2>3. e.ticks = exec.ticks /\ e.reruns = exec.reruns /\ e.single = exec.single
    BY <1>0 DEF Execs
  <2>4. Len(runs) \in Nat /\ n \in Nat \ {0} /\ exec.act \in RunActs /\ exec.run \in 0..Len(runs)
    BY <1>0, <2>2, LenProperties DEF TypeInv, AtHand, RunsOK
  <2>5. r \in Runs /\ r.parent <= Len(runs) /\ r.act = exec.act /\ ~Completed(r)
    BY <2>4, NewRunType DEF NewRun, Completed, NoEnv
  <2> HIDE DEF r, e
  <2>6. runs' = Append(runs, r)
    BY <2>1 DEF r
  <2>7. WorkerAhead(runs') = WorkerAhead(runs)
    BY <1>0, <2>4, <2>5, <2>6, UnfinishedAhead
  <2>8. \A a : Launched(runs', a) = Launched(runs, a) + (IF exec.act = a THEN 1 ELSE 0)
    BY <1>0, <2>5, <2>6, OneMoreLaunched
  <2>9. PaidOf(runs', exec.reruns, triage.n)
          = paid + (IF exec.act \in RETRYABLE_ACTIONS THEN 5 ELSE 0)
    <3>1. /\ Launched(runs', "RETRY")
               = Launched(runs, "RETRY") + (IF exec.act = "RETRY" THEN 1 ELSE 0)
          /\ Launched(runs', "RETRY_WITH_HINT")
               = Launched(runs, "RETRY_WITH_HINT") + (IF exec.act = "RETRY_WITH_HINT" THEN 1 ELSE 0)
      BY <2>8
    <3>2. Launched(runs, "RETRY") \in Nat /\ Launched(runs, "RETRY_WITH_HINT") \in Nat
      BY <1>0, LaunchedNat
    <3> DEFINE a == Launched(runs, "RETRY") + Launched(runs, "RETRY_WITH_HINT")
               b == Launched(runs', "RETRY") + Launched(runs', "RETRY_WITH_HINT")
    <3>3. a \in Nat /\ b = a + (IF exec.act \in RETRYABLE_ACTIONS THEN 1 ELSE 0)
      BY <3>1, <3>2 DEF RETRYABLE_ACTIONS
    <3>4. /\ PaidOf(runs', exec.reruns, triage.n) = 5 + exec.reruns + 5 * b + 6 * triage.n
          /\ paid = 5 + exec.reruns + 5 * a + 6 * triage.n
      BY DEF PaidOf, paid
    <3> HIDE DEF a, b
    <3>5. CASE exec.act \in RETRYABLE_ACTIONS
      <4>1. b = a + 1 /\ a \in Int /\ exec.reruns \in Int /\ triage.n \in Int
        BY <1>0, <3>3, <3>5
      <4>2. 5 + exec.reruns + 5 * b + 6 * triage.n = 5 + exec.reruns + 5 * a + 6 * triage.n + 5
        BY ONLY <4>1
      <4> QED
        BY <3>4, <3>5, <4>2
    <3>6. CASE exec.act \notin RETRYABLE_ACTIONS
      BY <1>0, <3>3, <3>4, <3>6
    <3> QED
      BY <3>5, <3>6
  <2>10. exec.single \/ exec.ticks + WorkerAhead(runs)
                          <= paid + (IF exec.act \in RETRYABLE_ACTIONS THEN 5 ELSE 0)
    BY <2>2 DEF TallyInv, TallyAt, Counts, paid
  <2>11. e.single \/ e.ticks + WorkerAhead(runs') <= PaidOf(runs', e.reruns, triage'.n)
    BY <1>0, <2>3, <2>7, <2>9, <2>10
  <2> QED
    BY <1>0, <2>2, <2>3, <2>11 DEF TallyInv, TallyAt, Counts, GuardNeverNeeded
<1>2. CASE SnapshotFails
  <2>1. PICK why \in {"WORKER_NOT_DISPATCHABLE", "RETRY_REFUSED"} : Stop(why)
    BY <1>2 DEF SnapshotFails
  <2> QED
    BY <1>0, <2>1, StopTally
<1>3. ASSUME pc = "worker"
      PROVE  /\ status = "IN_PROGRESS" /\ exec.run \in DOMAIN runs
             /\ exec.single \/ exec.ticks + WorkerAhead(runs) <= paid
  BY <1>3 DEF TypeInv, AtHand, TallyInv, TallyAt, Counts, paid
<1>4. CASE WorkerUnavailable
  <2>1. Return /\ runs' = runs /\ status' = status /\ pc = "worker"
    BY <1>4 DEF WorkerUnavailable, repo
  <2>2. LoopAhead(status', runs') = ProgressAhead(runs)
    BY <1>3, <2>1 DEF LoopAhead
  <2>3. exec.single \/ exec.ticks + LoopAhead(status', runs') <= PaidOf(runs', exec.reruns, triage.n)
    BY <1>0, <1>3, <1>k, <2>1, <2>2 DEF paid
  <2> QED
    BY <1>0, <2>1, <2>3, ReturnTally
<1>5. CASE WorkerFinish
  <2>1. PICK o \in WorkerOutcomes, t \in Trees :
          /\ runs' = [runs EXCEPT ![exec.run] = [@ EXCEPT !.env =
                        [w |-> o.w, req |-> o.req, subj |-> Subject(t, status)]]]
          /\ IF o.w = "exit0" /\ o.req \in WORKER_REQUESTABLE THEN Goto("requested", exec) ELSE Return
    BY <1>5 DEF WorkerFinish
  <2> DEFINE v == [w |-> o.w, req |-> o.req, subj |-> Subject(t, status)]
             r == [runs[exec.run] EXCEPT !.env = v]
  <2>2. pc = "worker" /\ status' = status
    BY <1>5 DEF WorkerFinish
  <2>3. /\ r.act = runs[exec.run].act /\ r.attempt = runs[exec.run].attempt /\ r.env = v
    <3>1. runs[exec.run] \in Runs
      BY <1>0, <1>3, <2>2, LenProperties, ElementOfSeq DEF RunsOK
    <3> HIDE DEF v
    <3> QED
      BY <3>1 DEF Runs
  <2>4. r.env.w = o.w /\ r.env.req = o.req /\ o.w # "none"
    BY <2>3, EnvironmentAssumption
  <2>5. runs' = [runs EXCEPT ![exec.run] = r]
    BY <2>1
  <2> HIDE DEF r, v
  <2>6. PaidOf(runs', exec.reruns, triage.n) = paid
    BY <1>3, <1>r, <2>2, <2>3, <2>5
  <2>7. CASE o.w = "exit0" /\ o.req \in WORKER_REQUESTABLE
    <3>1. pc' = "requested" /\ exec' = exec /\ stop' = stop
      BY <2>1, <2>7 DEF Goto
    <3>2. exec.single \/ exec.ticks + 3 <= PaidOf(runs', exec.reruns, triage.n)
      BY <1>0, <1>3, <1>k, <2>2, <2>6
    <3> QED
      BY <1>0, <1>3, <2>2, <3>1, <3>2 DEF TallyInv, TallyAt, Counts, GuardNeverNeeded
  <2>8. CASE ~(o.w = "exit0" /\ o.req \in WORKER_REQUESTABLE)
    <3>1. Return
      BY <2>1, <2>8
    <3>2. ~RequestPending(r)
      BY <2>4, <2>8 DEF RequestPending, WorkerFailed, WORKER_REQUESTABLE
    <3>3. ProgressAhead(runs') <= WorkerAhead(runs)
      <4>1. LatestCompleted(runs') \in {exec.run, LatestCompleted(runs)}
        BY <1>0, <1>3, <2>2, <2>4, <2>5, CompletedAhead DEF Completed
      <4>2. CASE LatestCompleted(runs') = exec.run
        BY <1>3, <1>k, <2>2, <2>5, <3>2, <4>2 DEF ProgressAhead
      <4>3. CASE LatestCompleted(runs') # exec.run
        <5>1. LatestCompleted(runs') = i
          BY <4>1, <4>3
        <5>2. runs'[i] = runs[i] \/ i = 0
          <6>1. i = 0 \/ i \in DOMAIN runs
            BY <1>0, LatestCompletedIsARun DEF RunsOK
          <6> QED
            BY <2>5, <4>3, <5>1, <6>1
        <5>3. ProgressAhead(runs') = ProgressAhead(runs)
          BY <5>1, <5>2 DEF ProgressAhead, ReviewAhead
        <5> QED
          BY <1>k, <5>3
      <4> QED
        BY <4>2, <4>3
    <3>4. LoopAhead(status', runs') = ProgressAhead(runs')
      BY <1>3, <2>2 DEF LoopAhead
    <3>5. exec.single \/ exec.ticks + LoopAhead(status', runs') <= PaidOf(runs', exec.reruns, triage.n)
      BY <1>0, <1>3, <1>k, <2>2, <2>6, <3>3, <3>4
    <3> QED
      BY <1>0, <3>1, <3>5, ReturnTally
  <2> QED
    BY <2>7, <2>8
<1>6. CASE ApplyRequested
  <2>1. /\ pc = "requested" /\ Return /\ runs' = runs /\ status' = runs[exec.run].env.req
        /\ status' \in TRANSITIONS[status]
    BY <1>6 DEF ApplyRequested, writeStatus, CheckTransition
  <2>2. status = "IN_PROGRESS" /\ (exec.single \/ exec.ticks + 3 <= paid)
    BY <2>1 DEF TallyInv, TallyAt, Counts, paid
  <2>3. exec.run \in DOMAIN runs
    BY <2>1 DEF TypeInv, AtHand
  <2>4. runs[exec.run] \in Runs
    BY <1>0, <2>3, LenProperties, ElementOfSeq DEF RunsOK
  <2>5. status' \in {"REVIEW", "BLOCKED"}
    BY <2>1, <2>2, <2>4 DEF TRANSITIONS, Runs, Envs
  <2>6. LoopAhead(status', runs') \in 0..3
    BY <1>k, <2>5 DEF LoopAhead
  <2>7. exec.single \/ exec.ticks + LoopAhead(status', runs') <= PaidOf(runs', exec.reruns, triage.n)
    BY <1>0, <2>1, <2>2, <2>6 DEF paid
  <2> QED
    BY <1>0, <2>1, <2>7, ReturnTally
<1>7. CASE GateFinish
  <2>1. PICK o \in GateOutcomes :
          runs' = [runs EXCEPT ![exec.run] = [@ EXCEPT !.gateDebris = FALSE,
                     !.gate = [res |-> o.res, det |-> o.det, subj |-> exec.subj]]]
    BY <1>7 DEF GateFinish
  <2> DEFINE v == [res |-> o.res, det |-> o.det, subj |-> exec.subj]
             r == [runs[exec.run] EXCEPT !.gateDebris = FALSE, !.gate = v]
  <2>2. /\ exec.run \in DOMAIN runs /\ Return /\ pc = "gate" /\ status' = status
        /\ status = "REVIEW"
        /\ exec.single \/ /\ exec.run = i
                          /\ exec.ticks + VerdictAhead(runs[exec.run]) <= paid
    BY <1>7 DEF GateFinish, TypeInv, AtHand, TallyInv, TallyAt, Counts, paid
  <2>3. /\ r.act = runs[exec.run].act /\ r.attempt = runs[exec.run].attempt /\ r.gate = v
        /\ r.env = runs[exec.run].env /\ r.ver = runs[exec.run].ver
        /\ r.verHistory = runs[exec.run].verHistory
    <3>1. runs[exec.run] \in Runs
      BY <1>0, <2>2, LenProperties, ElementOfSeq DEF RunsOK
    <3> HIDE DEF v
    <3> QED
      BY <3>1 DEF Runs
  <2>4. GatesAhead(r) = 0 /\ VerdictAhead(r) = VerdictAhead(runs[exec.run])
    <3>1. r.gate.res # "none"
      BY <2>3, EnvironmentAssumption
    <3> QED
      BY <2>3, <3>1 DEF GatesAhead, VerdictAhead, ReportPassed
  <2>5. runs' = [runs EXCEPT ![exec.run] = r]
    BY <2>1
  <2> HIDE DEF r, v
  <2>6. PaidOf(runs', exec.reruns, triage.n) = paid
    BY <1>r, <2>2, <2>3, <2>5
  <2>7. LatestCompleted(runs') = i
    <3>1. DOMAIN runs' = DOMAIN runs /\ \A j \in DOMAIN runs : runs'[j].env = runs[j].env
      BY <2>2, <2>3, <2>5
    <3> QED
      BY <1>0, <3>1, SameLatest DEF RunsOK
  <2>8. exec.single \/ LoopAhead(status', runs') <= VerdictAhead(runs[exec.run])
    BY <1>k, <2>2, <2>4, <2>5, <2>7 DEF LoopAhead, ReviewAhead
  <2>9. exec.single \/ exec.ticks + LoopAhead(status', runs') <= PaidOf(runs', exec.reruns, triage.n)
    BY <1>0, <1>k, <2>2, <2>6, <2>8
  <2> QED
    BY <1>0, <2>2, <2>9, ReturnTally
<1>8. CASE VerifyFinish
  <2> DEFINE stable == exec.subj = Current
  <2>1. PICK o \in VerifierOutcomes :
          /\ runs' = [runs EXCEPT ![exec.run] = [@ EXCEPT !.verDebris = FALSE,
                        !.ver = [res |-> o.res, det |-> o.det, stable |-> stable,
                                 method |-> "verifier", subj |-> exec.subj,
                                 gateSubj |-> runs[exec.run].gate.subj]]]
          /\ IF o.res = "PASS" /\ stable THEN Goto("verdict", exec) ELSE Return
    BY <1>8 DEF VerifyFinish
  <2> DEFINE v == [res |-> o.res, det |-> o.det, stable |-> stable, method |-> "verifier",
                   subj |-> exec.subj, gateSubj |-> runs[exec.run].gate.subj]
             r == [runs[exec.run] EXCEPT !.verDebris = FALSE, !.ver = v]
  <2>2. /\ exec.run \in DOMAIN runs /\ pc = "verify" /\ status' = status
        /\ status = "REVIEW" /\ runs[exec.run].gate.res # "none"
        /\ exec.single \/ /\ exec.run = i
                          /\ exec.ticks + VerifierAhead(runs[exec.run]) <= paid
    BY <1>8 DEF VerifyFinish, TypeInv, AtHand, TallyInv, TallyAt, Counts, paid
  <2>3. /\ r.act = runs[exec.run].act /\ r.attempt = runs[exec.run].attempt /\ r.ver = v
        /\ r.env = runs[exec.run].env /\ r.gate = runs[exec.run].gate
        /\ r.verHistory = runs[exec.run].verHistory
    <3>1. runs[exec.run] \in Runs
      BY <1>0, <2>2, LenProperties, ElementOfSeq DEF RunsOK
    <3> HIDE DEF v
    <3> QED
      BY <3>1 DEF Runs
  <2>4. r.ver.res = o.res /\ r.ver.stable = stable /\ o.res # "none"
    BY <2>3, EnvironmentAssumption
  <2>5. runs' = [runs EXCEPT ![exec.run] = r]
    BY <2>1
  <2> HIDE DEF r, v
  <2>6. PaidOf(runs', exec.reruns, triage.n) = paid
    BY <1>r, <2>2, <2>3, <2>5
  <2>7. CASE o.res = "PASS" /\ stable
    <3>1. pc' = "verdict" /\ exec' = exec /\ stop' = stop
      BY <2>1, <2>7 DEF Goto
    <3>2. exec.single \/ exec.ticks <= PaidOf(runs', exec.reruns, triage.n)
      BY <1>0, <1>k, <2>2, <2>6
    <3> QED
      BY <1>0, <2>2, <3>1, <3>2 DEF TallyInv, TallyAt, Counts, GuardNeverNeeded
  <2>8. CASE ~(o.res = "PASS" /\ stable)
    <3>1. Return
      BY <2>1, <2>8
    <3>2. GatesAhead(r) = 0 /\ VerdictAhead(r) = VerifierAhead(runs[exec.run])
      BY <2>2, <2>3, <2>4, <2>8 DEF GatesAhead, VerdictAhead, VerifierAhead, ReportPassed
    <3>3. LatestCompleted(runs') = i
      <4>1. DOMAIN runs' = DOMAIN runs /\ \A j \in DOMAIN runs : runs'[j].env = runs[j].env
        BY <2>2, <2>3, <2>5
      <4> QED
        BY <1>0, <4>1, SameLatest DEF RunsOK
    <3>4. exec.single \/ LoopAhead(status', runs') <= VerifierAhead(runs[exec.run])
      BY <1>k, <2>2, <2>5, <3>2, <3>3 DEF LoopAhead, ReviewAhead
    <3>5. exec.single \/ exec.ticks + LoopAhead(status', runs') <= PaidOf(runs', exec.reruns, triage.n)
      BY <1>0, <1>k, <2>2, <2>6, <3>4
    <3> QED
      BY <1>0, <3>1, <3>5, ReturnTally
  <2> QED
    BY <2>7, <2>8
<1>9. CASE WriteDone
  <2>1. /\ pc = "verdict" /\ Return /\ runs' = runs /\ status' = "DONE"
    BY <1>9 DEF WriteDone, writeStatus
  <2>2. exec.single \/ exec.ticks <= paid
    BY <2>1 DEF TallyInv, TallyAt, Counts, paid
  <2>3. LoopAhead(status', runs') = 0
    BY <2>1 DEF LoopAhead
  <2>4. exec.single \/ exec.ticks + LoopAhead(status', runs') <= PaidOf(runs', exec.reruns, triage.n)
    BY <1>0, <2>1, <2>2, <2>3 DEF paid
  <2> QED
    BY <1>0, <2>1, <2>4, ReturnTally
<1> QED
  BY <1>1, <1>2, <1>4, <1>5, <1>6, <1>7, <1>8, <1>9 DEF StageStep

\* A decision of the Triage pays for what it leads to.
LEMMA TriageTallies ==
  ASSUME TypeInv, TypeInv', TallyInv, TriageStep
  PROVE  TallyInv'
<1> DEFINE paid == PaidOf(runs, exec.reruns, triage.n)
<1>0. /\ TypeOK /\ RunsOK(runs) /\ exec \in Execs /\ exec.ticks \in Nat /\ Tick(1) \in Execs
      /\ exec.reruns \in Nat /\ exec.reruns <= 1 /\ triage.n \in Nat /\ TriageMax \in Nat
      /\ triage.n <= TriageMax /\ paid \in Nat
      /\ stop # "RUNTIME_LOOP_GUARD_EXCEEDED"
  BY TickType, PaidType, LimitsAssumption
  DEF TypeInv, TypeOK, Execs, TallyInv, TallyAt, GuardNeverNeeded
<1>k. /\ \A r : VerdictAhead(r) \in 0..2 /\ VerifierAhead(r) \in 0..1
      /\ \A rs : WorkerAhead(rs) \in 3..4
      /\ \A s, rs : LoopAhead(s, rs) \in 0..5
  BY AheadTypes
<1>t. /\ Tick(1).ticks = exec.ticks + 1 /\ Tick(1).reruns = exec.reruns
      /\ Tick(1).single = exec.single
  BY <1>0 DEF Tick, Execs
<1>1. pc \in {"triage", "apply"} /\ exec.run \in DOMAIN runs
  BY DEF TriageStep, TriageUnavailable, Escalate, Decide, TriageRerunGates, TriageRerunVerifier,
     TriageRetry, TriageUnblock, TriageReplan, Applying, TypeInv, AtHand
<1>2. /\ ~exec.single /\ exec.run = LatestCompleted(runs)
      /\ pc = "triage" => exec.ticks <= paid /\ triage.n < TriageMax
      /\ pc = "apply" => exec.ticks + 6 <= paid
  BY <1>1 DEF TallyInv, TallyAt, Counts
<1> HIDE DEF paid
<1>3. CASE TriageUnavailable \/ TriageReplan
  <2>1. PICK why \in {"ESCALATED", "TRIAGE_REPLAN"} : Stop(why)
    BY <1>3 DEF TriageUnavailable, TriageReplan
  <2>2. triage' = triage
    BY <1>3 DEF TriageUnavailable, TriageReplan, repo
  <2> QED
    BY <1>0, <2>1, <2>2, StopTally
<1>4. CASE Escalate
  <2>1. pc = "triage" /\ Stop("ESCALATED") /\ triage'.n = triage.n + 1
    BY <1>0, <1>4 DEF Escalate, TypeOK
  <2>2. triage'.n <= TriageMax
    BY <1>0, <1>2, <2>1
  <2> QED
    BY <2>1, <2>2, StopTally
<1>5. ASSUME NEW d \in Decisions, Decide(d) PROVE TallyInv'
  <2> DEFINE e == [exec EXCEPT !.act = d, !.menu = {}, !.subj = NoSubject]
  <2>1. /\ pc = "triage" /\ pc' = "apply" /\ exec' = e /\ stop' = stop
        /\ status' = status /\ runs' = runs /\ triage'.n = triage.n + 1
    BY <1>0, <1>5 DEF Decide, Goto, TypeOK
  <2>2. /\ e.ticks = exec.ticks /\ e.reruns = exec.reruns /\ e.single = exec.single
        /\ e.run = exec.run
    BY <1>0 DEF Execs
  <2> HIDE DEF e
  <2>3. PaidOf(runs, exec.reruns, triage.n + 1) = paid + 6
    <3>1. Launched(runs, "RETRY") \in Nat /\ Launched(runs, "RETRY_WITH_HINT") \in Nat
      BY <1>0, LaunchedNat
    <3> QED
      BY <1>0, <3>1 DEF PaidOf, paid
  <2>4. exec.ticks + 6 <= paid + 6 /\ triage.n + 1 <= TriageMax
    BY <1>0, <1>2, <2>1
  <2> QED
    BY <1>0, <1>2, <2>1, <2>2, <2>3, <2>4 DEF TallyInv, TallyAt, Counts, GuardNeverNeeded
<1>6. CASE TriageRerunGates
  <2> DEFINE i  == exec.run
             rs == IF runs[i].ver.res # "none" THEN VerificationArchived(runs, i) ELSE runs
  <2>1. /\ stageGate(rs, i, TRUE, Tick(1)) /\ status' = status /\ triage' = triage /\ pc = "apply"
    BY <1>6 DEF TriageRerunGates, Applying
  <2>2. /\ RunsOK(rs) /\ DOMAIN rs = DOMAIN runs
        /\ PaidOf(rs, exec.reruns, triage.n) = paid
        /\ LatestCompleted(rs) = LatestCompleted(runs)
    <3>1. CASE rs = runs
      BY <1>0, <3>1 DEF paid
    <3>2. CASE rs = VerificationArchived(runs, i)
      <4> DEFINE g == [runs[i] EXCEPT !.ver = NoVer, !.verDebris = FALSE, !.verHistory = TRUE]
      <4>1. g.env = runs[i].env
        <5>1. runs[i] \in Runs
          BY <1>0, <1>1, LenProperties, ElementOfSeq DEF RunsOK
        <5> QED
          BY <5>1 DEF Runs
      <4>2. rs = [runs EXCEPT ![i] = g]
        BY <3>2 DEF VerificationArchived
      <4>3. RunsOK(rs) /\ RecordsKept(runs, rs)
        BY <1>0, <1>1, <3>2, ArchivedTypes, ArchivedRecords
      <4> HIDE DEF g, rs
      <4>4. DOMAIN rs = DOMAIN runs /\ \A j \in DOMAIN runs : rs[j].env = runs[j].env
        BY <1>1, <4>1, <4>2
      <4>5. LatestCompleted(rs) = LatestCompleted(runs)
        BY <1>0, <4>3, <4>4, SameLatest DEF RunsOK
      <4> QED
        BY <4>3, <4>4, <4>5, SamePaid DEF paid
    <3> QED
      BY <3>1, <3>2
  <2> HIDE DEF rs
  <2>3. Tick(1).ticks + VerdictAhead(rs[i]) <= PaidOf(rs, Tick(1).reruns, triage.n)
    BY <1>0, <1>2, <1>k, <1>t, <2>1, <2>2
  <2> QED
    BY <1>0, <1>1, <1>2, <1>t, <2>1, <2>2, <2>3, GateTally
<1>7. CASE TriageRerunVerifier
  <2>1. /\ stageVerify(runs, exec.run, TRUE, Tick(1)) /\ status' = status /\ triage' = triage
        /\ pc = "apply"
    BY <1>7 DEF TriageRerunVerifier, Applying
  <2> DEFINE n == IF TRUE /\ runs[exec.run].ver.res # "none" THEN 0
                  ELSE VerifierAhead(runs[exec.run])
  <2>2. n \in 0..1
    BY <1>k
  <2>3. Tick(1).ticks + n <= PaidOf(runs, Tick(1).reruns, triage.n)
    <3> HIDE DEF n
    <3> QED
      BY <1>0, <1>2, <1>t, <2>1, <2>2 DEF paid
  <2> QED
    BY <1>0, <1>1, <1>2, <1>t, <2>1, <2>3, VerifyTally
<1>8. CASE TriageRetry
  <2>1. startRetryAttempt(exec.run, TRUE, Tick(1)) /\ triage' = triage /\ pc = "apply"
    BY <1>8 DEF TriageRetry, Applying
  <2>2. Tick(1).ticks + WorkerAhead(runs) <= PaidOf(runs, Tick(1).reruns, triage.n) + 0
    BY <1>0, <1>2, <1>k, <1>t, <2>1 DEF paid
  <2> QED
    BY <1>0, <1>1, <1>t, <2>1, <2>2, RetryTally
<1>9. CASE TriageUnblock
  <2> DEFINE e == [Tick(1) EXCEPT !.run = 0, !.act = "FIRST"]
  <2>1. /\ pc = "apply" /\ pc' = "loop" /\ exec' = e /\ runs' = runs /\ stop' = stop
        /\ triage' = triage
    BY <1>9 DEF TriageUnblock, Applying, Goto
  <2>2. e.ticks = exec.ticks + 1 /\ e.reruns = exec.reruns /\ e.single = exec.single
    BY <1>0, <1>t DEF Execs
  <2> HIDE DEF e
  <2>3. e.ticks + LoopAhead(status', runs') <= PaidOf(runs', e.reruns, triage'.n)
    BY <1>0, <1>2, <1>k, <2>1, <2>2 DEF paid
  <2> QED
    BY <1>0, <1>2, <2>1, <2>2, <2>3, LoopTally
<1> QED
  BY <1>3, <1>4, <1>5, <1>6, <1>7, <1>8, <1>9 DEF TriageStep

\* Commands other than execute count nothing, and they keep to the states their
\* stages need.
LEMMA CommandTallies ==
  ASSUME TypeInv, TypeInv', TallyInv, Commands
  PROVE  TallyInv'
<1>0. /\ TypeOK /\ RunsOK(runs) /\ RunsOK(runs') /\ Single \in Execs
      /\ triage.n \in Nat /\ triage.n <= TriageMax
      /\ stop # "RUNTIME_LOOP_GUARD_EXCEEDED"
  BY NoExecType DEF TypeInv, TypeOK, TallyInv, TallyAt, GuardNeverNeeded
<1>s. Single.single /\ Single.reruns <= 1
  BY DEF Single, NoExec
<1>t. triage' = triage
  BY DEF Commands, Execute, CmdRun, CmdRetry, CmdGate, CmdVerify, CmdTransition, CmdSnapshot,
     CmdDiagnose, repo
<1>1. ASSUME NEW ack \in BOOLEAN, Execute(ack) PROVE TallyInv'
  <2> DEFINE e == [NoExec EXCEPT !.ack = ack]
  <2>1. pc' = "loop" /\ exec' = e /\ stop' = "none" /\ runs' = runs /\ status' = status
    BY <1>1 DEF Execute, repo
  <2>2. e.ticks = 0 /\ e.reruns = 0 /\ ~e.single
    BY DEF NoExec
  <2> HIDE DEF e
  <2>3. LoopAhead(status, runs) \in 0..5
    BY AheadTypes
  <2>4. PaidOf(runs, 0, triage.n) >= 5
    <3>1. Launched(runs, "RETRY") \in Nat /\ Launched(runs, "RETRY_WITH_HINT") \in Nat
      BY <1>0, LaunchedNat
    <3> QED
      BY <1>0, <3>1 DEF PaidOf
  <2>5. PaidOf(runs, 0, triage.n) \in Nat
    BY <1>0, PaidType
  <2>6. e.ticks + LoopAhead(status', runs') <= PaidOf(runs', e.reruns, triage'.n)
    BY <1>0, <1>t, <2>1, <2>2, <2>3, <2>4, <2>5
  <2> QED
    BY <1>0, <1>t, <2>1, <2>2, <2>6, LoopTally
<1>2. CASE CmdRun
  <2>1. BeginAttempt(0, "FIRST", Single) /\ runs' = runs
    BY <1>2 DEF CmdRun
  <2> QED
    BY <1>0, <1>s, <1>t, <2>1, BeginTally DEF RunActs
<1>3. ASSUME NEW i \in DOMAIN runs, CmdRetry(i) PROVE TallyInv'
  <2>1. startRetryAttempt(i, FALSE, Single)
    BY <1>3 DEF CmdRetry
  <2> QED
    BY <1>0, <1>s, <1>t, <2>1, RetryTally
<1>4. ASSUME NEW i \in DOMAIN runs, NEW rerun \in BOOLEAN, CmdGate(i, rerun) PROVE TallyInv'
  <2>1. stageGate(runs, i, rerun, Single) /\ status' = status
    BY <1>4 DEF CmdGate
  <2> QED
    BY <1>0, <1>s, <1>t, <2>1, GateTally
<1>5. ASSUME NEW i \in DOMAIN runs, NEW rerun \in BOOLEAN, CmdVerify(i, rerun) PROVE TallyInv'
  <2>1. stageVerify(runs, i, rerun, Single) /\ status' = status
    BY <1>5 DEF CmdVerify
  <2> QED
    BY <1>0, <1>s, <1>t, <2>1, VerifyTally
<1>6. CASE CmdSnapshot \/ \E to \in States : CmdTransition(to)
  <2>1. pc' = Idle /\ exec' = exec /\ stop' = stop
    BY <1>6 DEF CmdTransition, CmdSnapshot, Command
  <2> QED
    BY <1>0, <1>t, <2>1 DEF TallyInv, TallyAt, Counts, GuardNeverNeeded, Idle
<1>7. ASSUME NEW i \in DOMAIN runs, CmdDiagnose(i) PROVE TallyInv'
  <2>1. /\ UNCHANGED <<status, triage, pc, exec, stop>> /\ runs' = Diagnose(runs, i, Current)
    BY <1>7 DEF CmdDiagnose
  <2>2. FilesKept(runs, runs')
    BY <1>0, <2>1, DiagnoseFiles
  <2> QED
    BY <2>1, <2>2, TallySameFiles
<1> QED
  BY <1>1, <1>2, <1>3, <1>4, <1>5, <1>6, <1>7 DEF Commands

\* Nor does what happens around the process.
LEMMA EnvironmentTallies ==
  ASSUME TypeInv, TypeInv', TallyInv, TogglePause \/ Edit \/ Crash \/ UNCHANGED vars
  PROVE  TallyInv'
<1>0. /\ TypeOK /\ RunsOK(runs) /\ triage' = triage /\ triage.n <= TriageMax
  BY DEF TypeInv, TypeOK, TallyInv, TallyAt, TogglePause, Edit, Crash, vars, repo
<1>1. CASE TogglePause \/ Edit \/ UNCHANGED vars
  <2>1. UNCHANGED <<status, triage, pc, exec, stop, runs>>
    BY <1>1 DEF TogglePause, Edit, vars, repo
  <2> QED
    BY <2>1 DEF TallyInv, GuardNeverNeeded
<1>2. CASE Crash
  BY <1>0, <1>2, StopTally DEF Crash
<1> QED
  BY <1>1, <1>2

\* The guard of executeTask stops no execution, as long as it is larger than what the
\* limits pay for: the first attempt and a rerun of the gates, the retries, and the
\* decisions of the Triage.  limits.yaml has 33 against 34.
THEOREM GuardIsNeverNeeded ==
  ASSUME 6 + 5 * (RetryMax + HintMax) + 6 * TriageMax < loopGuardLimit
  PROVE  Spec => []GuardNeverNeeded
<1> DEFINE Inv == TypeInv /\ BudgetInv /\ TickInv /\ TallyInv
<1>1. Init => Inv
  <2> SUFFICES ASSUME Init PROVE TallyInv
    BY TypeInit, BudgetInit
  <2>1. pc = Idle /\ triage.n = 0 /\ exec.reruns = 0 /\ stop = "none" /\ TriageMax \in Nat
    BY LimitsAssumption DEF Init, NoExec
  <2> QED
    BY <2>1 DEF TallyInv, TallyAt, Counts, GuardNeverNeeded, Idle
<1>2. Inv /\ [Next]_vars => Inv'
  <2> SUFFICES ASSUME Inv, [Next]_vars PROVE Inv'
    OBVIOUS
  <2>1. TypeInv' /\ BudgetInv' /\ TickInv'
    BY TypeStep, BudgetStep
  <2>2. TallyInv'
    BY <2>1, LoopTallies, StageTallies, TriageTallies, CommandTallies, EnvironmentTallies
    DEF Next, Runtime
  <2> QED
    BY <2>1, <2>2
<1>3. Inv => GuardNeverNeeded
  BY DEF TallyInv
<1> QED
  BY <1>1, <1>2, <1>3, PTL DEF Spec
=============================================================================
