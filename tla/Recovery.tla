------------------------------ MODULE Recovery ------------------------------
(***************************************************************************)
(* What the runtime concludes from the artifacts of a Task's runs, with no *)
(* state of its own: the diagnosis of a failed run (recovery/diagnose),    *)
(* the retry budgets (recovery/limits), the detection of a retry that      *)
(* changed nothing and the choice of the next action (loop/next-action),   *)
(* and the menu offered to the Triage (recovery/triage).                   *)
(*                                                                         *)
(* A Task's runs are a sequence in the order of their run ids.  A run is a *)
(* record of the files in its directory:                                   *)
(*   attempt, act, parent    manifest.json and its lineage                 *)
(*   env  [w, req, subj]     runtime-envelope.json and worker-result.json  *)
(*   gate [res, det, subj]   gate-report.json                              *)
(*   ver  [...]              verification/verification-report.json         *)
(*   diag [...]              recovery/diagnosis.json                       *)
(*   gateDebris, verDebris   read-only files of a stage that wrote no      *)
(*                           report before the process died                *)
(*   verHistory              is there a verification/history/<n>?          *)
(* A file that does not exist has the outcome "none".                      *)
(***************************************************************************)
EXTENDS Integers, Sequences, FiniteSets

CONSTANTS
  Trees,            \* contents of the working tree outside the status line
  Details,          \* what distinguishes two failures of one kind
  MaxAttempts, MaxConsecutive, RetryMax, HintMax,   \* policies/limits.yaml
  TriageMax, TriageRetryMax, ReplanMax,             \* its triage section
  TriageOn,         \* limits.triage.enabled
  ReplanCapable,    \* executed under start or quick
  RequiresVerifier, \* stop_condition.requires_verifier, or a verifier criterion
  GateOnly,         \* efficiency.gate_only_completion
  Adaptive,         \* efficiency.adaptive_recovery
  Approved,         \* pairs of trees that differ only in recovery_paths
  Protected         \* pairs of trees that differ in the control plane

ASSUME LimitsAssumption ==
  /\ {MaxAttempts, MaxConsecutive} \subseteq Nat \ {0}
  /\ {RetryMax, HintMax, TriageMax, TriageRetryMax, ReplanMax} \subseteq Nat
ASSUME SwitchesAssumption ==
  {TriageOn, ReplanCapable, RequiresVerifier, GateOnly, Adaptive} \subseteq BOOLEAN
ASSUME TreesAssumption == "none" \notin Trees /\ "none" \notin Details

\* The verification subject covers everything git sees except .loop-local/,
\* so it holds the status line of the Task file beside the rest of the tree.
Subject(t, s) == [tree |-> t, status |-> s]
NoSubject     == Subject("none", "none")

NoEnv  == [w |-> "none", req |-> "none", subj |-> NoSubject]
NoGate == [res |-> "none", det |-> "none", subj |-> NoSubject]
NoVer  == [res |-> "none", det |-> "none", stable |-> TRUE, method |-> "none",
           subj |-> NoSubject, gateSubj |-> NoSubject]
NoDiag == [stage |-> "none", class |-> "unread", kind |-> "none", det |-> "none"]

NewRun(attempt, act, parent) ==
  [attempt |-> attempt, act |-> act, parent |-> parent,
   env |-> NoEnv, gate |-> NoGate, ver |-> NoVer, diag |-> NoDiag,
   gateDebris |-> FALSE, verDebris |-> FALSE, verHistory |-> FALSE]

Completed(r)     == r.env.w # "none"
ResultValid(r)   == r.env.req # "invalid"
WorkerFailed(r)  == r.env.w # "exit0" \/ ~ResultValid(r)
GatePassed(r)    == r.gate.res = "PASS"
\* A report is PASS when it has no blocker, an unstable subject being one.
ReportPassed(r)  == r.ver.res = "PASS" /\ r.ver.stable
ReportFailed(r)  == r.ver.res # "none" /\ ~ReportPassed(r)

\* The newest run that has an envelope; 0 when there is none.
LatestCompleted(rs) ==
  IF \E i \in DOMAIN rs : Completed(rs[i])
  THEN CHOOSE i \in DOMAIN rs : /\ Completed(rs[i])
                                /\ \A j \in DOMAIN rs : Completed(rs[j]) => j <= i
  ELSE 0

-----------------------------------------------------------------------------
(* Diagnosis.                                                              *)

Finding(stage, class, action, kind, det) ==
  [stage |-> stage, class |-> class, action |-> action, kind |-> kind, det |-> det]
NoFinding == Finding("none", "none", "NO_ACTION", "none", "none")

diagnoseWorker(r) ==
  CASE r.env.w = "policy"  -> Finding("worker", "POLICY_VIOLATION", "NEEDS_HUMAN", "policy", "none")
    [] r.env.w = "launch"  -> Finding("worker", "RECOVERY_AMBIGUOUS", "NEEDS_HUMAN", "launch", "none")
    [] r.env.w = "timeout" -> Finding("worker", "TIMEOUT", "RETRY_WITH_HINT", "timeout", "none")
    [] r.env.w = "exit1"   -> Finding("worker", "PROCESS_CRASH", "RETRY", "exit1", "none")
    [] r.env.w = "none"    -> Finding("worker", "RECOVERY_AMBIGUOUS", "NEEDS_HUMAN", "no-envelope", "none")
    [] r.env.w \in {"exit0", "signal"} /\ ~ResultValid(r)
                           -> Finding("worker", "SCHEMA_FAILURE", "RETRY_WITH_HINT", "schema", "none")
    [] OTHER               -> NoFinding

diagnoseGate(r) ==
  CASE r.gate.res = "ERROR"   -> Finding("gate", "RECOVERY_AMBIGUOUS", "NEEDS_HUMAN", "error", r.gate.det)
    [] r.gate.res = "TIMEOUT" -> Finding("gate", "TIMEOUT", "NEEDS_HUMAN", "timeout", r.gate.det)
    [] r.gate.res = "FAIL"    -> Finding("gate", "GATE_FAILURE", "RETRY_WITH_HINT", "fail", r.gate.det)
    [] OTHER                  -> NoFinding

\* A verifier killed by a signal after a valid PASS has no class of its own.
diagnoseVerifier(r) ==
  CASE r.ver.res = "policy"  -> Finding("verifier", "PERMISSION_DENIED", "NEEDS_HUMAN", "policy", "none")
    [] r.ver.res # "policy" /\ ~r.ver.stable
                             -> Finding("verifier", "STALE_VERIFICATION_SUBJECT", "RERUN_GATES", "stale", "none")
    [] r.ver.stable /\ r.ver.res = "launch"
                             -> Finding("verifier", "RECOVERY_AMBIGUOUS", "NEEDS_HUMAN", "launch", "none")
    [] r.ver.stable /\ r.ver.res = "timeout"
                             -> Finding("verifier", "TIMEOUT", "NEEDS_HUMAN", "timeout", "none")
    [] r.ver.stable /\ r.ver.res = "exit1"
                             -> Finding("verifier", "PROCESS_CRASH", "NEEDS_HUMAN", "exit1", "none")
    [] r.ver.stable /\ r.ver.res = "schema"
                             -> Finding("verifier", "SCHEMA_FAILURE", "NEEDS_HUMAN", "schema", "none")
    [] r.ver.stable /\ r.ver.res = "FAIL"
                             -> Finding("verifier", "VERIFY_FAILED", "RETRY_WITH_HINT", "fail", r.ver.det)
    [] OTHER                 -> NoFinding

\* The failure of the furthest stage the run reached.
FurthestFailure(r) ==
  LET v == diagnoseVerifier(r)
      g == diagnoseGate(r)
  IN  IF ReportFailed(r) /\ v # NoFinding THEN v
      ELSE IF g # NoFinding THEN g ELSE diagnoseWorker(r)

RETRYABLE_ACTIONS == {"RETRY", "RETRY_WITH_HINT"}

\* The state of the repository the failed stage saw or left behind.
BoundSubject(r, stage) == IF stage \in {"verifier", "gate"} THEN r.gate.subj ELSE r.env.subj

\* A retry is recommended only on top of the very tree the failure was seen on.
computeDiagnosis(r, current) ==
  LET found   == FurthestFailure(r)
      matches == found # NoFinding /\ BoundSubject(r, found.stage) = current
      drifted == found.action \in RETRYABLE_ACTIONS /\ ~matches
  IN  [stage   |-> found.stage, kind |-> found.kind, det |-> found.det,
       matches |-> matches,
       class   |-> IF drifted THEN "RECOVERY_AMBIGUOUS" ELSE found.class,
       action  |-> IF drifted THEN "NEEDS_HUMAN" ELSE found.action]

\* The part of a diagnosis that later decisions read back from its file.
Fingerprint(d) == [stage |-> d.stage, class |-> d.class, kind |-> d.kind, det |-> d.det]

\* getDiagnosis: the file follows the evidence, whoever asks for it.
Diagnose(rs, i, current) ==
  [rs EXCEPT ![i] = [@ EXCEPT !.diag = Fingerprint(computeDiagnosis(rs[i], current))]]

-----------------------------------------------------------------------------
(* Budgets.                                                                *)

Launched(rs, act) == Cardinality({i \in DOMAIN rs : rs[i].act = act})

\* attemptHistory sorts by attempt number first, then by run id.
NotBefore(rs, j, i) == \/ rs[j].attempt > rs[i].attempt
                       \/ rs[j].attempt = rs[i].attempt /\ j >= i

DiagnosedFailure(r) == r.diag.class \notin {"unread", "none"}

consecutiveFailures(rs) ==
  Cardinality({i \in DOMAIN rs : \A j \in DOMAIN rs :
                                   NotBefore(rs, j, i) => DiagnosedFailure(rs[j])})

\* Mutant: each limit is compared off by one.
checkRetryBudgetOneMore(rs, act) ==
  IF act = "RETRY_WITH_TRIAGE" THEN Launched(rs, act) <= TriageRetryMax
  ELSE /\ \A i \in DOMAIN rs : rs[i].attempt <= MaxAttempts
       /\ consecutiveFailures(rs) <= MaxConsecutive
       /\ act = "RETRY" => Launched(rs, act) <= RetryMax
       /\ act = "RETRY_WITH_HINT" => Launched(rs, act) <= HintMax

checkRetryBudget(rs, act) ==
  IF act = "RETRY_WITH_TRIAGE" THEN Launched(rs, act) < TriageRetryMax
  ELSE /\ \A i \in DOMAIN rs : rs[i].attempt < MaxAttempts
       /\ consecutiveFailures(rs) < MaxConsecutive
       /\ act = "RETRY" => Launched(rs, act) < RetryMax
       /\ act = "RETRY_WITH_HINT" => Launched(rs, act) < HintMax

-----------------------------------------------------------------------------
(* The next action.                                                        *)

\* The retry failed exactly as its parent did and left the tree as it was.
detectStagnation(rs, i, d) ==
  LET p == rs[i].parent
  IN  /\ d.class # "none"
      /\ p # 0
      /\ rs[p].diag = Fingerprint(d)
      /\ rs[p].env.subj = rs[i].env.subj
      /\ rs[i].env.subj # NoSubject

\* rs already holds the diagnosis d of run i: assess() writes it first.
recoveryAction(rs, i, d) ==
  IF /\ Adaptive
     /\ d.stage = "verifier" /\ d.matches
     /\ d.class \in {"PROCESS_CRASH", "TIMEOUT", "SCHEMA_FAILURE"}
     /\ ~rs[i].verHistory
  THEN "RUN_VERIFIER"
  ELSE IF d.class = "none" THEN "STOP_AMBIGUOUS"
  ELSE IF detectStagnation(rs, i, d) THEN "STOP_STALLED"
  ELSE IF d.action = "RERUN_GATES" THEN "STOP_AMBIGUOUS"
  ELSE IF d.action \notin RETRYABLE_ACTIONS THEN "STOP_NEEDS_HUMAN"
  ELSE IF ~checkRetryBudget(rs, d.action) THEN "STOP_LIMIT"
  ELSE "RETRY_WORKER"

\* The request of the newest completed worker has not reached the Task file.
RequestPending(r) == ~WorkerFailed(r) /\ r.env.req \in {"REVIEW", "BLOCKED"}

\* Mutant: the tree is not compared with the one the gates saw.
GateStaleNever(r, current) == FALSE

GateStale(r, current) == r.gate.subj # current

\* May gates be rerun on a moved tree without asking?  ack is resume --rerun-gates.
assessResume(r, current, ack) ==
  LET moved == <<r.gate.subj.tree, current.tree>>
  IN  moved \notin Protected /\ (moved \in Approved \/ ack)

AuthorizedMethod(r) == r.ver.method = "verifier" \/ (GateOnly /\ ~RequiresVerifier)

\* Mutant: a failed gate report is not taken to the recovery policy.
ConsultsNoGates(r, s, current) ==
  \/ s = "IN_PROGRESS" /\ ~RequestPending(r)
  \/ s = "REVIEW" /\ ReportFailed(r)

\* Does the choice for run i consult the recovery policy (and write a diagnosis)?
Consults(r, s, current) ==
  \/ s = "IN_PROGRESS" /\ ~RequestPending(r)
  \/ s = "REVIEW" /\ ReportFailed(r)
  \/ /\ s = "REVIEW" /\ r.ver.res = "none"
     /\ r.gate.res \notin {"none", "PASS"} /\ ~GateStale(r, current)

\* Mutant: the status of the Task is not checked.
GateEligibleAnywhere(r, s) == Completed(r) /\ r.env.w # "policy" /\ ResultValid(r)

\* checkEligibility of gate/runner, the same test for gates and verifier.
GateEligible(r, s) == /\ s = "REVIEW" /\ Completed(r)
                      /\ r.env.w # "policy" /\ ResultValid(r)

\* Mutant: the gate report is not consulted.
checkVerifierEligibilityUngated(r, s, current) == GateEligible(r, s) /\ RequiresVerifier

checkVerifierEligibility(r, s, current) ==
  GateEligible(r, s) /\ GatePassed(r) /\ ~GateStale(r, current) /\ RequiresVerifier

\* Mutant: the freshness of the gates is looked at before the verdict.
ReviewActionGatesFirst(r, current, ack) ==
  IF r.gate.res = "none" THEN "RUN_GATES"
  ELSE IF GateStale(r, current)
       THEN IF assessResume(r, current, ack) THEN "RERUN_GATES" ELSE "STOP_AMBIGUOUS"
  ELSE IF ReportPassed(r) /\ AuthorizedMethod(r) THEN "RECOVER_DONE"
  ELSE IF ~RequiresVerifier THEN IF GateOnly THEN "COMPLETE_GATES" ELSE "STOP_NEEDS_HUMAN"
  ELSE IF checkVerifierEligibility(r, "REVIEW", current) THEN "RUN_VERIFIER"
  ELSE "STOP_AMBIGUOUS"

\* Mutant: a PASS report that never reached the Task file is not picked up.
ReviewActionNoRecovery(r, current, ack) ==
  IF r.gate.res = "none" THEN "RUN_GATES"
  ELSE IF ReportPassed(r) THEN "STOP_AMBIGUOUS"
  ELSE IF checkVerifierEligibility(r, "REVIEW", current) THEN "RUN_VERIFIER"
  ELSE "STOP_AMBIGUOUS"

ReviewAction(r, current, ack) ==
  IF ReportPassed(r) THEN IF r.ver.subj = current /\ AuthorizedMethod(r)
                          THEN "RECOVER_DONE" ELSE "STOP_AMBIGUOUS"
  ELSE IF r.gate.res = "none" THEN "RUN_GATES"
  ELSE IF GateStale(r, current)
       THEN IF assessResume(r, current, ack) THEN "RERUN_GATES" ELSE "STOP_AMBIGUOUS"
  ELSE IF ~RequiresVerifier THEN IF GateOnly THEN "COMPLETE_GATES" ELSE "STOP_NEEDS_HUMAN"
  ELSE IF checkVerifierEligibility(r, "REVIEW", current) THEN "RUN_VERIFIER"
  ELSE "STOP_AMBIGUOUS"

resolveNextAction(rs, s, current, ack) ==
  LET i == LatestCompleted(rs)
  IN  IF s = "DROPPED"      THEN "STOP_REFUSED"
      ELSE IF s = "DONE"    THEN "DONE"
      ELSE IF s = "BLOCKED" THEN "STOP_BLOCKED"
      ELSE IF s = "TODO"    THEN "RUN_WORKER"
      ELSE IF i = 0         THEN "STOP_AMBIGUOUS"
      ELSE IF Consults(rs[i], s, current)
           THEN recoveryAction(Diagnose(rs, i, current), i, computeDiagnosis(rs[i], current))
      ELSE IF s = "IN_PROGRESS" THEN "APPLY_WORKER_RESULT"
      ELSE ReviewAction(rs[i], current, ack)

\* The files after the choice: the diagnosis it read is on disk.
Resolved(rs, s, current) ==
  LET i == LatestCompleted(rs)
  IN  IF s \in {"IN_PROGRESS", "REVIEW"} /\ i # 0 /\ Consults(rs[i], s, current)
      THEN Diagnose(rs, i, current) ELSE rs

-----------------------------------------------------------------------------
(* Triage.                                                                 *)

\* Stops that the Triage sees before a person does.
TRIAGE_STOPS == {"STOP_NEEDS_HUMAN", "STOP_AMBIGUOUS", "STOP_STALLED", "STOP_LIMIT", "STOP_BLOCKED"}

TRIAGE_RETRYABLE == {"GATE_FAILURE", "VERIFY_FAILED", "TIMEOUT", "SCHEMA_FAILURE", "PROCESS_CRASH"}

TriageMayRetry(d) == /\ d.class \in TRIAGE_RETRYABLE
                     /\ d.stage = "verifier" => d.class = "VERIFY_FAILED"

\* What may be chosen beside ESCALATE at the stop that action a announces.
triageMenu(rs, s, current, a, usage) ==
  LET i         == LatestCompleted(rs)
      consulted == i # 0 /\ s \in {"IN_PROGRESS", "REVIEW"} /\ Consults(rs[i], s, current)
      d         == IF consulted THEN computeDiagnosis(rs[i], current)
                   ELSE computeDiagnosis(NewRun(1, "FIRST", 0), current)
      stale     == /\ ~consulted /\ a = "STOP_AMBIGUOUS" /\ s = "REVIEW" /\ i # 0
                   /\ rs[i].ver.res = "none" /\ GateStale(rs[i], current)
  IN  IF consulted /\ d.class \in {"POLICY_VIOLATION", "PERMISSION_DENIED"} THEN {}
      ELSE {m \in {"UNBLOCK", "RERUN_GATES", "RERUN_VERIFIER", "RETRY_WITH_LESSON", "REPLAN"} :
        \/ m = "UNBLOCK" /\ a = "STOP_BLOCKED"
        \/ m = "RERUN_GATES" /\ (stale \/ (consulted /\ \/ d.action = "RERUN_GATES"
                                                        \/ d.stage = "gate" /\ d.class = "TIMEOUT"))
        \/ /\ m = "RERUN_VERIFIER" /\ consulted /\ d.stage = "verifier"
           /\ d.class \in {"TIMEOUT", "PROCESS_CRASH", "SCHEMA_FAILURE", "RECOVERY_AMBIGUOUS"}
        \/ /\ m = "RETRY_WITH_LESSON" /\ consulted /\ TriageMayRetry(d)
           /\ ~(d.stage = "gate" /\ d.class = "TIMEOUT")
           /\ usage.retries < TriageRetryMax
        \/ m = "REPLAN" /\ ReplanCapable /\ usage.replans < ReplanMax}

\* checkRetryEligibility; d is the diagnosis just written for run i of rs.
checkRetryEligibility(rs, i, s, d, triage) ==
  /\ s \in {"REVIEW", "IN_PROGRESS"}
  /\ Completed(rs[i])
  /\ IF triage THEN TriageMayRetry(d) ELSE d.action \in RETRYABLE_ACTIONS
  /\ checkRetryBudget(rs, IF triage THEN "RETRY_WITH_TRIAGE" ELSE d.action)
=============================================================================
