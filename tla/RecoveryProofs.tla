--------------------------- MODULE RecoveryProofs ---------------------------
(***************************************************************************)
(* Lemmas about the pure part of the runtime: which run is the newest one, *)
(* and what the next action that resolveNextAction chooses implies.        *)
(***************************************************************************)
EXTENDS Recovery, TLAPS, SequenceTheorems, WellFoundedInduction

\* A non-empty set of numbers of 1..n has a greatest member.
LEMMA GreatestMember ==
  ASSUME NEW n \in Nat, NEW S \in SUBSET (1..n), S # {}
  PROVE  \E x \in S : \A y \in S : y <= x
<1> DEFINE T == {k \in Nat : n - k \in S}
<1>1. T \subseteq Nat
  OBVIOUS
<1>2. T # {}
  <2>1. PICK s \in S : TRUE
    OBVIOUS
  <2>2. n - s \in Nat /\ n - (n - s) = s
    BY <2>1
  <2> QED
    BY <2>1, <2>2
<1>3. PICK k \in T : \A j \in T : <<j, k>> \notin OpToRel(<, Nat)
  <2> HIDE DEF T
  <2> QED
    BY ONLY <1>1, <1>2, NatLessThanWellFounded, WFMin
<1>4. \A j \in T : k <= j
  <2> SUFFICES ASSUME NEW j \in T PROVE k <= j
    OBVIOUS
  <2>1. j \in Nat /\ k \in Nat /\ ~(j < k)
    <3> HIDE DEF T
    <3> QED
      BY <1>1, <1>3 DEF OpToRel
  <2> QED
    BY <2>1
<1>5. \A y \in S : n - y \in T
  <2> SUFFICES ASSUME NEW y \in S PROVE n - y \in T
    OBVIOUS
  <2>1. n - y \in Nat /\ n - (n - y) = y
    OBVIOUS
  <2> QED
    BY <2>1
<1>6. n - k \in S
  OBVIOUS
<1>7. \A y \in S : y <= n - k
  <2> SUFFICES ASSUME NEW y \in S PROVE y <= n - k
    OBVIOUS
  <2>1. k <= n - y
    <3> HIDE DEF T
    <3> QED
      BY ONLY <1>4, <1>5, y \in S
  <2>2. k \in Nat /\ y \in Nat
    OBVIOUS
  <2> QED
    BY <2>1, <2>2
<1> QED
  BY <1>6, <1>7

\* The newest completed run is one of the runs, or there is none.
LEMMA LatestCompletedIsARun ==
  ASSUME NEW R, NEW rs \in Seq(R)
  PROVE  LatestCompleted(rs) = 0 \/ (/\ LatestCompleted(rs) \in DOMAIN rs
                                     /\ Completed(rs[LatestCompleted(rs)]))
<1> DEFINE S == {i \in DOMAIN rs : Completed(rs[i])}
<1>0. Len(rs) \in Nat /\ DOMAIN rs = 1..Len(rs)
  BY LenProperties
<1>1. CASE S = {}
  BY <1>1 DEF LatestCompleted
<1>2. CASE S # {}
  <2>1. S \in SUBSET (1..Len(rs))
    BY <1>0
  <2>2. \E x \in S : \A y \in S : y <= x
    <3> HIDE DEF S
    <3> QED
      BY ONLY <2>1, <1>0, <1>2, GreatestMember
  <2> QED
    BY <1>2, <2>2 DEF LatestCompleted
<1> QED
  BY <1>1, <1>2

Actions == {"STOP_REFUSED", "DONE", "STOP_BLOCKED", "RUN_WORKER", "STOP_AMBIGUOUS",
            "RUN_VERIFIER", "STOP_STALLED", "STOP_NEEDS_HUMAN", "STOP_LIMIT",
            "RETRY_WORKER", "APPLY_WORKER_RESULT", "RECOVER_DONE", "RUN_GATES",
            "RERUN_GATES", "COMPLETE_GATES"}

\* The recovery policy stops, retries, or repeats the verifier: nothing else.
LEMMA PolicyChoices ==
  ASSUME NEW rs, NEW i, NEW d
  PROVE  recoveryAction(rs, i, d) \in
           {"RUN_VERIFIER", "STOP_AMBIGUOUS", "STOP_STALLED", "STOP_NEEDS_HUMAN",
            "STOP_LIMIT", "RETRY_WORKER"}
BY DEF recoveryAction

\* What a Task in REVIEW leads to, and what its report then says.
LEMMA ReviewChoices ==
  ASSUME NEW r, NEW current, NEW ack
  PROVE  LET a == ReviewAction(r, current, ack)
         IN  /\ a \in {"RECOVER_DONE", "STOP_AMBIGUOUS", "RUN_GATES", "RERUN_GATES",
                       "COMPLETE_GATES", "STOP_NEEDS_HUMAN", "RUN_VERIFIER"}
             /\ a = "RECOVER_DONE" => ReportPassed(r) /\ r.ver.subj = current
             /\ a \in {"RUN_GATES", "RERUN_GATES", "COMPLETE_GATES", "RUN_VERIFIER"}
                  => ~ReportPassed(r)
             /\ a = "COMPLETE_GATES" => ~GateStale(r, current)
BY DEF ReviewAction

\* What the choice of the next action says about the status and the run it is for.
LEMMA NextActionMeans ==
  ASSUME NEW rs, NEW s, s \in {"TODO", "IN_PROGRESS", "REVIEW", "DONE", "BLOCKED", "DROPPED"},
         NEW current, NEW ack
  PROVE  LET a == resolveNextAction(rs, s, current, ack)
             i == LatestCompleted(rs)
         IN  /\ a \in Actions
             /\ a = "RUN_WORKER" <=> s = "TODO"
             /\ a \in TRIAGE_STOPS => s # "DONE"
             /\ a \in {"RETRY_WORKER", "APPLY_WORKER_RESULT", "RECOVER_DONE", "RUN_GATES",
                       "RERUN_GATES", "COMPLETE_GATES", "RUN_VERIFIER"}
                  => i # 0 /\ s \in {"IN_PROGRESS", "REVIEW"}
             /\ a = "APPLY_WORKER_RESULT" => s = "IN_PROGRESS" /\ RequestPending(rs[i])
             /\ a = "RECOVER_DONE" => /\ s = "REVIEW" /\ ReportPassed(rs[i])
                                     /\ rs[i].ver.subj = current
             /\ a = "COMPLETE_GATES" => /\ s = "REVIEW" /\ ~ReportPassed(rs[i])
                                       /\ ~GateStale(rs[i], current)
<1> DEFINE a == resolveNextAction(rs, s, current, ack)
           i == LatestCompleted(rs)
<1>1. CASE s \in {"TODO", "DONE", "BLOCKED", "DROPPED"} \/ i = 0
  BY <1>1 DEF resolveNextAction, Actions, TRIAGE_STOPS
<1>2. CASE s \in {"IN_PROGRESS", "REVIEW"} /\ i # 0 /\ Consults(rs[i], s, current)
  <2>1. a = recoveryAction(Diagnose(rs, i, current), i, computeDiagnosis(rs[i], current))
    BY <1>2 DEF resolveNextAction
  <2>2. a \in {"RUN_VERIFIER", "STOP_AMBIGUOUS", "STOP_STALLED", "STOP_NEEDS_HUMAN",
               "STOP_LIMIT", "RETRY_WORKER"}
    BY <2>1, PolicyChoices
  <2> QED
    BY <1>2, <2>2 DEF Actions, TRIAGE_STOPS
<1>3. CASE s = "IN_PROGRESS" /\ i # 0 /\ ~Consults(rs[i], s, current)
  BY <1>3 DEF resolveNextAction, Consults, Actions, TRIAGE_STOPS
<1>4. CASE s = "REVIEW" /\ i # 0 /\ ~Consults(rs[i], s, current)
  <2>1. a = ReviewAction(rs[i], current, ack)
    BY <1>4 DEF resolveNextAction
  <2> QED
    BY <1>4, <2>1, ReviewChoices DEF Actions, TRIAGE_STOPS
<1> QED
  BY <1>1, <1>2, <1>3, <1>4

\* It is the newest of them, and nothing else is.
LEMMA LatestCompletedIsNewest ==
  ASSUME NEW R, NEW rs \in Seq(R)
  PROVE  \/ LatestCompleted(rs) = 0 /\ \A j \in DOMAIN rs : ~Completed(rs[j])
         \/ /\ LatestCompleted(rs) \in DOMAIN rs /\ Completed(rs[LatestCompleted(rs)])
            /\ \A j \in DOMAIN rs : Completed(rs[j]) => j <= LatestCompleted(rs)
<1> DEFINE S == {i \in DOMAIN rs : Completed(rs[i])}
<1>0. Len(rs) \in Nat /\ DOMAIN rs = 1..Len(rs)
  BY LenProperties
<1>1. CASE S = {}
  BY <1>1 DEF LatestCompleted
<1>2. CASE S # {}
  <2>1. S \in SUBSET (1..Len(rs))
    BY <1>0
  <2>2. \E x \in S : \A y \in S : y <= x
    <3> HIDE DEF S
    <3> QED
      BY ONLY <2>1, <1>0, <1>2, GreatestMember
  <2> QED
    BY <1>2, <2>2 DEF LatestCompleted
<1> QED
  BY <1>1, <1>2

\* Files with the same envelopes have the same newest completed run.
LEMMA SameLatest ==
  ASSUME NEW R, NEW rs \in Seq(R), NEW rs2 \in Seq(R), DOMAIN rs2 = DOMAIN rs,
         \A j \in DOMAIN rs : rs2[j].env = rs[j].env
  PROVE  LatestCompleted(rs2) = LatestCompleted(rs)
<1> DEFINE n == LatestCompleted(rs)
           m == LatestCompleted(rs2)
<1>1. \A j \in DOMAIN rs : Completed(rs2[j]) <=> Completed(rs[j])
  BY DEF Completed
<1>2. \/ n = 0 /\ \A j \in DOMAIN rs : ~Completed(rs[j])
      \/ n \in DOMAIN rs /\ Completed(rs[n]) /\ \A j \in DOMAIN rs : Completed(rs[j]) => j <= n
  BY LatestCompletedIsNewest
<1>3. \/ m = 0 /\ \A j \in DOMAIN rs2 : ~Completed(rs2[j])
      \/ m \in DOMAIN rs2 /\ Completed(rs2[m]) /\ \A j \in DOMAIN rs2 : Completed(rs2[j]) => j <= m
  BY LatestCompletedIsNewest
<1>4. \A j \in DOMAIN rs : j \in Nat
  BY LenProperties
<1> HIDE DEF n, m
<1>5. n = m
  BY <1>1, <1>2, <1>3, <1>4
<1> QED
  BY <1>5 DEF n, m

\* Gate-only completion has fresh gates that passed, and no verdict yet.
LEMMA CompletesOnPassedGates ==
  ASSUME NEW rs, NEW s, s \in {"TODO", "IN_PROGRESS", "REVIEW", "DONE", "BLOCKED", "DROPPED"},
         NEW current, NEW ack, resolveNextAction(rs, s, current, ack) = "COMPLETE_GATES"
  PROVE  /\ GatePassed(rs[LatestCompleted(rs)])
         /\ rs[LatestCompleted(rs)].ver.res = "none"
<1> DEFINE i == LatestCompleted(rs)
           r == rs[i]
<1>1. s = "REVIEW" /\ ~Consults(r, s, current) /\ ReviewAction(r, current, ack) = "COMPLETE_GATES"
  <2>1. recoveryAction(Diagnose(rs, i, current), i, computeDiagnosis(rs[i], current)) # "COMPLETE_GATES"
    BY DEF recoveryAction
  <2> QED
    BY <2>1 DEF resolveNextAction
<1> HIDE DEF r
<1>2. ~ReportPassed(r) /\ r.gate.res # "none" /\ ~GateStale(r, current)
  BY <1>1 DEF ReviewAction
<1>3. r.ver.res = "none"
  BY <1>1, <1>2 DEF Consults, ReportFailed
<1>4. GatePassed(r)
  BY <1>1, <1>2, <1>3 DEF Consults, GatePassed
<1> QED
  BY <1>3, <1>4 DEF r

\* A Task whose newest run passed is taken to DONE, left there, or shown to a
\* person: no diagnosis is written, and no Triage may choose more than a replan.
LEMMA PassedChoices ==
  ASSUME NEW rs, NEW s \in {"REVIEW", "DONE"}, NEW current, NEW ack, NEW usage,
         LatestCompleted(rs) # 0, ReportPassed(rs[LatestCompleted(rs)])
  PROVE  LET a == resolveNextAction(rs, s, current, ack)
         IN  /\ a \in {"DONE", "RECOVER_DONE", "STOP_AMBIGUOUS"}
             /\ triageMenu(rs, s, current, a, usage) \subseteq {"REPLAN"}
             /\ Resolved(rs, s, current) = rs
<1> DEFINE i == LatestCompleted(rs)
           r == rs[i]
           a == resolveNextAction(rs, s, current, ack)
<1>1. r.ver.res = "PASS" /\ ~ReportFailed(r) /\ ReportPassed(r)
  BY DEF ReportPassed, ReportFailed
<1>2. ~Consults(r, s, current)
  BY <1>1 DEF Consults
<1>3. a \in {"DONE", "RECOVER_DONE", "STOP_AMBIGUOUS"}
  BY <1>1, <1>2 DEF resolveNextAction, ReviewAction
<1>4. Resolved(rs, s, current) = rs
  BY <1>2 DEF Resolved
<1> HIDE DEF a
<1>5. triageMenu(rs, s, current, a, usage) \subseteq {"REPLAN"}
  BY <1>1, <1>2, <1>3 DEF triageMenu
<1> QED
  BY <1>3, <1>4, <1>5 DEF a

\* A retry is chosen by the recovery policy, so no request is waiting; the gates
\* of a run that has none are run only in REVIEW.
LEMMA RetriesConsulted ==
  ASSUME NEW rs, NEW s, s \in {"TODO", "IN_PROGRESS", "REVIEW", "DONE", "BLOCKED", "DROPPED"},
         NEW current, NEW ack
  PROVE  LET a == resolveNextAction(rs, s, current, ack)
             r == rs[LatestCompleted(rs)]
         IN  /\ a = "RETRY_WORKER" => s = "REVIEW" \/ (s = "IN_PROGRESS" /\ ~RequestPending(r))
             /\ a = "RUN_GATES" => s = "REVIEW" /\ r.gate.res = "none"
             /\ a = "RERUN_GATES" => s = "REVIEW"
<1> DEFINE i == LatestCompleted(rs)
           a == resolveNextAction(rs, s, current, ack)
<1>1. CASE s \in {"TODO", "DONE", "BLOCKED", "DROPPED"} \/ i = 0
  BY <1>1 DEF resolveNextAction
<1>2. CASE s \in {"IN_PROGRESS", "REVIEW"} /\ i # 0 /\ Consults(rs[i], s, current)
  <2>1. a = recoveryAction(Diagnose(rs, i, current), i, computeDiagnosis(rs[i], current))
    BY <1>2 DEF resolveNextAction
  <2>2. a \in {"RUN_VERIFIER", "STOP_AMBIGUOUS", "STOP_STALLED", "STOP_NEEDS_HUMAN",
               "STOP_LIMIT", "RETRY_WORKER"}
    BY <2>1, PolicyChoices
  <2> QED
    BY <1>2, <2>2 DEF Consults
<1>3. CASE s = "IN_PROGRESS" /\ i # 0 /\ ~Consults(rs[i], s, current)
  BY <1>3 DEF resolveNextAction
<1>4. CASE s = "REVIEW" /\ i # 0 /\ ~Consults(rs[i], s, current)
  <2>1. a = ReviewAction(rs[i], current, ack)
    BY <1>4 DEF resolveNextAction
  <2> QED
    BY <1>4, <2>1 DEF ReviewAction
<1> QED
  BY <1>1, <1>2, <1>3, <1>4

\* The verifier is called for a Task in REVIEW that has no verdict, or once more for
\* one that broke.
LEMMA VerifiesAgainOnce ==
  ASSUME NEW rs, NEW current, NEW ack,
         resolveNextAction(rs, "REVIEW", current, ack) = "RUN_VERIFIER"
  PROVE  LET i == LatestCompleted(rs)
         IN  /\ ~ReportPassed(rs[i])
             /\ ReportFailed(rs[i]) => ~Diagnose(rs, i, current)[i].verHistory
<1> DEFINE i == LatestCompleted(rs)
<1>1. CASE Consults(rs[i], "REVIEW", current)
  <2>1. ~ReportPassed(rs[i])
    BY <1>1 DEF Consults, ReportFailed, ReportPassed
  <2>2. recoveryAction(Diagnose(rs, i, current), i, computeDiagnosis(rs[i], current))
          = "RUN_VERIFIER"
    BY <1>1 DEF resolveNextAction
  <2>3. ~Diagnose(rs, i, current)[i].verHistory
    BY <2>2 DEF recoveryAction
  <2> QED
    BY <2>1, <2>3
<1>2. CASE ~Consults(rs[i], "REVIEW", current)
  <2>1. ReviewAction(rs[i], current, ack) = "RUN_VERIFIER"
    BY <1>2 DEF resolveNextAction
  <2> QED
    BY <1>2, <2>1 DEF ReviewAction, Consults
<1> QED
  BY <1>1, <1>2
=============================================================================
