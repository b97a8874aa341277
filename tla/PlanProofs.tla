------------------------------ MODULE PlanProofs ------------------------------
(***************************************************************************)
(* More proofs about Workflow, for any graphs of proposals, any results of *)
(* the planner, any deaths and any bounds: what approval makes of a plan,  *)
(* in which order its Tasks are executed, and that neither a phase nor a   *)
(* plan is given up half done.  WorkflowInv says what holds of the command *)
(* that runs, of the plans and of the Task files in every state; the       *)
(* theorems add to it what each of them needs.                             *)
(***************************************************************************)
EXTENDS WorkflowProofs, WellFoundedInduction

-----------------------------------------------------------------------------
(* The order of the proposals.                                             *)

\* A graph that validation has let pass.
Sound(g) == g \in Seq(SUBSET (Nat \ {0})) /\ g # << >> /\ ValidGraph(g)

\* The order of such a graph has every proposal once, after those it depends on.
LEMMA OrderSound ==
  ASSUME NEW g, Sound(g)
  PROVE  /\ Len(g) \in Nat \ {0} /\ DOMAIN g = 1 .. Len(g)
         /\ Order(g) \in [1 .. Len(g) -> 1 .. Len(g)]
         /\ Order(g) \in Seq(1 .. Len(g)) /\ Len(Order(g)) = Len(g)
         /\ \A m, n \in 1 .. Len(g) : Order(g)[m] = Order(g)[n] => m = n
         /\ \A p \in 1 .. Len(g) : \E n \in 1 .. Len(g) : Order(g)[n] = p
         /\ \A n \in 1 .. Len(g) : \A d \in g[Order(g)[n]] :
              d \in 1 .. Len(g) /\ \E m \in 1 .. n - 1 : Order(g)[m] = d
<1>1. Len(g) \in Nat \ {0} /\ DOMAIN g = 1 .. Len(g)
  BY EmptySeq, LenProperties DEF Sound
<1>2. Order(g) \in Orders(g)
  BY DEF Sound, ValidGraph, Order
<1> DEFINE o == Order(g)
           D == 1 .. Len(g)
<1> HIDE DEF o
<1>3. /\ o \in [D -> D]
      /\ \A n \in D : o[n] \in Open(g, {o[m] : m \in 1 .. n - 1})
  BY <1>1, <1>2 DEF Orders, o
<1>4. \A n \in D : /\ o[n] \notin {o[m] : m \in 1 .. n - 1}
                   /\ g[o[n]] \subseteq {o[m] : m \in 1 .. n - 1}
  BY <1>3 DEF Open
<1>5. \A m, n \in D : o[m] = o[n] => m = n
  <2> SUFFICES ASSUME NEW m \in D, NEW n \in D, m # n PROVE o[m] # o[n]
    OBVIOUS
  <2>1. m \in 1 .. n - 1 \/ n \in 1 .. m - 1
    BY <1>1
  <2> QED
    BY <1>4, <2>1
<1>6. o \in Seq(D) /\ Len(o) = Len(g)
  <2>1. o \in Seq(D)
    BY <1>1, <1>3, SeqDef
  <2> QED
    BY <1>1, <1>3, <2>1, LenProperties
<1>7. \A p \in D : \E n \in D : o[n] = p
  <2>1. IsFiniteSet(D)
    BY <1>1, FS_Interval
  <2>2. o \in Injection(D, D)
    BY <1>3, <1>5 DEF Injection, IsInjective
  <2>3. o \in Surjection(D, D)
    BY <2>1, <2>2, FS_Injection
  <2> QED
    BY <2>3 DEF Surjection
<1>8. \A n \in D : \A d \in g[o[n]] : d \in D /\ \E m \in 1 .. n - 1 : o[m] = d
  <2> SUFFICES ASSUME NEW n \in D, NEW d \in g[o[n]]
               PROVE  d \in D /\ \E m \in 1 .. n - 1 : o[m] = d
    OBVIOUS
  <2>1. \E m \in 1 .. n - 1 : o[m] = d
    BY <1>4
  <2>2. d \in DOMAIN g
    BY <1>1, <1>3 DEF Sound, ValidGraph
  <2> QED
    BY <1>1, <2>1, <2>2
<1> QED
  BY <1>1, <1>3, <1>5, <1>6, <1>7, <1>8 DEF o

\* Where a proposal has its place.
Place(g, p) == CHOOSE n \in DOMAIN Order(g) : Order(g)[n] = p

LEMMA PlaceSound ==
  ASSUME NEW g, Sound(g)
  PROVE  /\ \A p \in DOMAIN g : Place(g, p) \in 1 .. Len(g) /\ Order(g)[Place(g, p)] = p
         /\ \A n \in 1 .. Len(g) : Place(g, Order(g)[n]) = n
         /\ \A p \in DOMAIN g : \A d \in g[p] : d \in DOMAIN g /\ Place(g, d) < Place(g, p)
<1> DEFINE o == Order(g)
<1>1. /\ Len(g) \in Nat /\ DOMAIN g = 1 .. Len(g) /\ DOMAIN o = 1 .. Len(g)
      /\ \A n \in 1 .. Len(g) : o[n] \in 1 .. Len(g)
      /\ \A m, n \in 1 .. Len(g) : o[m] = o[n] => m = n
      /\ \A p \in 1 .. Len(g) : \E n \in 1 .. Len(g) : o[n] = p
      /\ \A n \in 1 .. Len(g) : \A d \in g[o[n]] :
           d \in 1 .. Len(g) /\ \E m \in 1 .. n - 1 : o[m] = d
  BY OrderSound
<1> HIDE DEF o
<1>2. \A p \in DOMAIN g : Place(g, p) \in 1 .. Len(g) /\ o[Place(g, p)] = p
  BY <1>1 DEF Place, o
<1>3. \A n \in 1 .. Len(g) : Place(g, o[n]) = n
  BY <1>1, <1>2
<1>4. ASSUME NEW p \in DOMAIN g, NEW d \in g[p]
      PROVE  d \in DOMAIN g /\ Place(g, d) < Place(g, p)
  <2>1. Place(g, p) \in 1 .. Len(g) /\ o[Place(g, p)] = p
    BY <1>2
  <2>2. PICK m \in 1 .. Place(g, p) - 1 : o[m] = d
    BY <1>1, <1>4, <2>1
  <2>3. m \in 1 .. Len(g)
    BY <1>1, <2>1
  <2> QED
    BY <1>1, <1>3, <2>1, <2>2, <2>3, <1>4
<1> QED
  BY <1>2, <1>3, <1>4 DEF o

-----------------------------------------------------------------------------
(* What the steps do to plans.                                             *)

\* All but four leave of a plan what was proposed and what was made of it; none
\* makes it fresh again.
SameRecord(r, q) == /\ r.phase = q.phase /\ r.kind = q.kind /\ r.deps = q.deps
                    /\ r.ids = q.ids /\ (r.fresh = FALSE \/ r.fresh = q.fresh)
SamePlans == /\ DOMAIN plans' = DOMAIN plans
             /\ \A k \in DOMAIN plans : SameRecord(plans'[k], plans[k])

LEMMA Outdates ==
  ASSUME PlanInv
  PROVE  /\ \A k \in DOMAIN plans : SameRecord(Outdated(k), plans[k]) /\ Outdated(k).fresh = FALSE
         /\ Changed => SamePlans
         /\ UNCHANGED plans => SamePlans
<1>1. ASSUME NEW k \in DOMAIN plans
      PROVE  SameRecord(Outdated(k), plans[k]) /\ Outdated(k).fresh = FALSE
  <2>1. IsPlan(plans[k])
    BY <1>1 DEF PlanInv
  <2>2. PICK r : r = [plans[k] EXCEPT !.fresh = FALSE, !.goal = "none", !.reviews = 0]
    OBVIOUS
  <2>3. SameRecord(r, plans[k])
    BY ONLY <2>1, <2>2 DEF IsPlan, SameRecord
  <2>4. r.fresh = FALSE
    BY ONLY <2>1, <2>2 DEF IsPlan
  <2> QED
    BY <2>2, <2>3, <2>4 DEF Outdated
<1>2. Changed => SamePlans
  BY <1>1 DEF Changed, SamePlans
<1>3. UNCHANGED plans => SamePlans
  BY DEF SamePlans, SameRecord
<1> QED
  BY <1>1, <1>2, <1>3

LEMMA PlansMove ==
  ASSUME PlanInv, WorkflowNext
  PROVE  SamePlans \/ Plan \/ Launch \/ PlannerReturns \/ WriteApproval
<1> USE DEF disk, memory, bounds
<1>1. CASE UNCHANGED plans \/ Changed
  BY <1>1, Outdates
<1>2. ASSUME NEW r, SetPlan(r), plan \in DOMAIN plans => SameRecord(r, plans[plan])
      PROVE  SamePlans
  <2>1. \A k \in DOMAIN plans : SameRecord(plans[k], plans[k])
    BY DEF SameRecord
  <2>2. /\ DOMAIN plans' = DOMAIN plans
        /\ \A k \in DOMAIN plans : plans'[k] = IF k = plan THEN r ELSE plans[k]
    BY <1>2 DEF SetPlan
  <2> QED
    BY <1>2, <2>1, <2>2 DEF SamePlans
<1>3. plan \in DOMAIN plans => IsPlan(plans[plan])
  BY DEF PlanInv
<1>4. CASE ReviewGoal
  <2>1. PICK r : r = [plans[plan] EXCEPT !.goal = "started", !.reviews = @ + 1] /\ SetPlan(r)
    BY <1>4 DEF ReviewGoal
  <2>2. plan \in DOMAIN plans => SameRecord(r, plans[plan])
    BY <1>3, <2>1 DEF IsPlan, SameRecord
  <2> QED
    BY <1>2, <2>1, <2>2
<1>5. CASE GoalReviewed
  <2>1. CASE plans[plan].goal # "started"
    BY <1>1, <1>5, <2>1 DEF GoalReviewed
  <2>2. CASE plans[plan].goal = "started"
    <3>1. PICK v \in {"PASS", "FAIL"} : SetPlan([plans[plan] EXCEPT !.goal = v])
      BY <1>5, <2>2 DEF GoalReviewed
    <3>2. PICK r : r = [plans[plan] EXCEPT !.goal = v] /\ SetPlan(r)
      BY <3>1
    <3>3. plan \in DOMAIN plans => SameRecord(r, plans[plan])
      BY <1>3, <3>2 DEF IsPlan, SameRecord
    <3> QED
      BY <1>2, <3>2, <3>3
  <2> QED
    BY <2>1, <2>2
<1>6. CASE RunTask \/ DropTask \/ RollbackFails \/ Edit \/ Crash
  BY <1>1, <1>6 DEF RunTask, Work, SetStatus, DropTask, RollbackFails, Edit, Crash
<1>7. CASE NextPhase \/ NoBudget \/ Reenter \/ NoQuestions \/ Unanswered \/ Answer
  BY <1>1, <1>7 DEF NextPhase, NoBudget, Reenter, NoQuestions, Unanswered, Answer, PlanAnew
<1>8. CASE AlreadyApproved \/ Refuse \/ Approve \/ WriteTask \/ WriteTaskFails
  BY <1>1, <1>8 DEF AlreadyApproved, Refuse, Approve, WriteTask, WriteTaskFails
<1>9. CASE NoTask \/ GoalKnown \/ GoalUnavailable \/ GoalMissed \/ GoalReplan
  BY <1>1, <1>9 DEF NoTask, GoalKnown, GoalUnavailable, GoalMissed, GoalReplan
<1>10. CASE Done \/ ReplansUsedUp \/ Replan \/ Superseded \/ Stop
  BY <1>1, <1>10 DEF Done, ReplansUsedUp, Replan, Superseded, PlanAnew, Stop
<1>11. CASE Start \/ \E k \in DOMAIN plans : PlanApprove(k) \/ ExecutePlan(k)
  BY <1>1, <1>11 DEF Start, PlanApprove, ExecutePlan, Enter
<1> QED
  BY <1>4, <1>5, <1>6, <1>7, <1>8, <1>9, <1>10, <1>11
  DEF WorkflowNext, Step, Planning, Approving, Executing, Closing, Command

\* A plan is added at the end, and is running.
LEMMA PlanLaunched ==
  ASSUME PlanInv, NEW p, plans' = Append(plans, Launched(p))
  PROVE  /\ DOMAIN plans' = DOMAIN plans \cup {Len(plans')}
         /\ Len(plans') \notin DOMAIN plans /\ Len(plans') # 0
         /\ \A k \in DOMAIN plans : plans'[k] = plans[k]
         /\ plans'[Len(plans')] = Launched(p)
<1> DEFINE S == {plans[k] : k \in 1 .. Len(plans)} \cup {Launched(p)}
<1>1. plans \in Seq(S) /\ Launched(p) \in S
  BY SeqDef DEF PlanInv
<1> HIDE DEF S
<1>2. /\ plans' \in Seq(S) /\ Len(plans') = Len(plans) + 1
      /\ plans'[Len(plans) + 1] = Launched(p)
      /\ \A k \in 1 .. Len(plans) : plans'[k] = plans[k]
  BY <1>1, AppendProperties
<1>3. /\ DOMAIN plans = 1 .. Len(plans) /\ DOMAIN plans' = 1 .. Len(plans')
      /\ Len(plans) \in Nat
  BY <1>1, <1>2
<1> QED
  BY <1>2, <1>3

\* The planner's result is recorded in the plan at hand, and only there.
LEMMA ResultRecorded ==
  ASSUME PlanInv, PlannerReturns, plan \in DOMAIN plans, plans[plan].phase \in 0 .. Phases
  PROVE  /\ DOMAIN plans' = DOMAIN plans
         /\ \A k \in DOMAIN plans : k # plan => plans'[k] = plans[k]
         /\ plans'[plan].phase = plans[plan].phase /\ plans'[plan].ids = plans[plan].ids
         /\ plans'[plan].fresh = plans[plan].fresh /\ plans'[plan].goal = plans[plan].goal
         /\ plans'[plan].kind \in {"proposed", "asks", "questions", "invalid"}
         /\ plans'[plan].kind \in {"proposed", "asks"} => Sound(plans'[plan].deps)
<1> DEFINE Kind(r) == IF Valid(r) THEN r.kind ELSE "invalid"
           Deps(r) == IF Valid(r) THEN r.deps ELSE << >>
<1>1. \E r \in Results[plans[plan].phase] :
        SetPlan([plans[plan] EXCEPT !.kind = Kind(r), !.deps = Deps(r)])
  BY Zenon DEF PlannerReturns
<1>2. PICK r, a, d :
        /\ r \in Results[plans[plan].phase] /\ a = Kind(r) /\ d = Deps(r)
        /\ SetPlan([plans[plan] EXCEPT !.kind = a, !.deps = d])
  <2> HIDE DEF Kind, Deps
  <2> QED
    BY <1>1, Zenon
<1>3. PICK q : q = [plans[plan] EXCEPT !.kind = a, !.deps = d] /\ SetPlan(q)
  BY <1>2
<1>4. /\ q.kind = a /\ q.deps = d /\ q.phase = plans[plan].phase /\ q.ids = plans[plan].ids
      /\ q.fresh = plans[plan].fresh /\ q.goal = plans[plan].goal
  <2>1. IsPlan(plans[plan])
    BY DEF PlanInv
  <2> QED
    BY ONLY <1>3, <2>1 DEF IsPlan
<1>5. /\ DOMAIN plans' = DOMAIN plans
      /\ \A k \in DOMAIN plans : k # plan => plans'[k] = plans[k]
      /\ plans'[plan] = q
  BY <1>3 DEF SetPlan
<1>6. r.kind \in {"proposed", "asks", "questions"} /\ r.deps \in Seq(SUBSET (Nat \ {0}))
  BY <1>2, WorkflowAssumption
<1>7. a \in {"proposed", "asks", "questions", "invalid"}
  BY <1>2, <1>6
<1>8. a \in {"proposed", "asks"} => Sound(d)
  BY <1>2, <1>6 DEF Valid, Sound
<1> QED
  BY <1>4, <1>5, <1>7, <1>8


\* The approval is recorded in the plan at hand, and outdates the others.
LEMMA ApprovalRecorded ==
  ASSUME PlanInv, WriteApproval, plan \in DOMAIN plans
  PROVE  /\ DOMAIN plans' = DOMAIN plans
         /\ \A k \in DOMAIN plans : k # plan => SameRecord(plans'[k], plans[k])
         /\ \A k \in DOMAIN plans : plans'[k].fresh = FALSE
         /\ plans'[plan].phase = plans[plan].phase /\ plans'[plan].kind = plans[plan].kind
         /\ plans'[plan].deps = plans[plan].deps
         /\ plans'[plan].ids = [p \in DOMAIN plans[plan].deps |-> IdOf(p)]
<1>1. PICK f : f = [p \in DOMAIN plans[plan].deps |-> IdOf(p)]
  OBVIOUS
<1>2. /\ DOMAIN plans' = DOMAIN plans
      /\ plans'[plan] = [Outdated(plan) EXCEPT !.ids = f]
      /\ \A k \in DOMAIN plans : k # plan => plans'[k] = Outdated(k)
  BY <1>1 DEF WriteApproval
<1>3. /\ \A k \in DOMAIN plans : SameRecord(Outdated(k), plans[k])
      /\ \A k \in DOMAIN plans : Outdated(k).fresh = FALSE
  BY Outdates
<1>4. IsPlan(Outdated(plan))
  <2>1. PICK q : q = plans[plan]
    OBVIOUS
  <2>2. IsPlan(q)
    BY <2>1 DEF PlanInv
  <2>3. PICK r : r = [q EXCEPT !.fresh = FALSE, !.goal = "none", !.reviews = 0]
    OBVIOUS
  <2>4. IsPlan(r)
    BY <2>2, <2>3 DEF IsPlan
  <2> QED
    BY <2>1, <2>3, <2>4 DEF Outdated
<1>5. PICK q, r : q = Outdated(plan) /\ r = [q EXCEPT !.ids = f] /\ plans'[plan] = r
  BY <1>2
<1>6. r.phase = q.phase /\ r.kind = q.kind /\ r.deps = q.deps /\ r.fresh = q.fresh /\ r.ids = f
  <2>1. IsPlan(q)
    BY <1>4, <1>5
  <2> QED
    BY ONLY <1>5, <2>1 DEF IsPlan
<1>7. /\ plans'[plan].phase = plans[plan].phase /\ plans'[plan].kind = plans[plan].kind
      /\ plans'[plan].deps = plans[plan].deps /\ plans'[plan].fresh = FALSE
      /\ plans'[plan].ids = f
  <2>1. /\ q.phase = plans[plan].phase /\ q.kind = plans[plan].kind
        /\ q.deps = plans[plan].deps /\ q.fresh = FALSE
    BY <1>3, <1>5 DEF SameRecord
  <2> QED
    BY ONLY <1>5, <1>6, <2>1
<1>8. \A k \in DOMAIN plans : plans'[k].fresh = FALSE
  <2> SUFFICES ASSUME NEW k \in DOMAIN plans PROVE plans'[k].fresh = FALSE
    OBVIOUS
  <2>1. CASE k = plan
    BY <1>7, <2>1
  <2>2. CASE k # plan
    BY <1>2, <1>3, <2>2
  <2> QED
    BY <2>1, <2>2
<1>9. \A k \in DOMAIN plans : k # plan => SameRecord(plans'[k], plans[k])
  BY <1>2, <1>3
<1> QED
  BY <1>1, <1>2, <1>7, <1>8, <1>9

-----------------------------------------------------------------------------
(* What the command is at.                                                 *)

Accepted == {"proposed", "asks"}
Executed == {"run", "reviewing", "goalFailed", "done", "replan", "superseding"}

\* Only a plan that was accepted by the validation is ever approved.
KindInv == \A k \in DOMAIN plans :
  /\ plans[k].phase \in 0 .. Phases
  /\ plans[k].kind \in Accepted \cup {"running", "questions", "invalid"}
  /\ plans[k].kind \in Accepted => Sound(plans[k].deps)
  /\ Approved(k) => plans[k].kind \in Accepted

\* start works on the plan of its phase; a plan is approved once, and approved
\* before it is executed.
ControlInv ==
  /\ cmd \in {"none", "start", "plan", "approve", "execute"}
  /\ at \in OnPlan \cup {"idle", "head"}
  /\ cmd = "none" <=> Idle
  /\ at \in OnPlan => plan \in DOMAIN plans
  /\ cmd = "plan" => at = "planning" /\ plans[plan].phase = 0
  /\ cmd = "start" /\ at # "head" => saved[i].plan = plan /\ plans[plan].phase = i
  /\ \A p \in 1 .. Phases : saved[p].plan # 0 =>
       saved[p].plan \in DOMAIN plans /\ plans[saved[p].plan].phase = p
  /\ at = "planning" => plans[plan].kind = "running"
  /\ at = "writing" => ~Approved(plan) /\ plans[plan].kind \in Accepted
  /\ at \in Executed => Approved(plan)

LEMMA KindsKeep ==
  ASSUME PhaseInv, PlanInv, KindInv, ControlInv, WorkflowNext
  PROVE  KindInv'
<1> USE DEF At, Goto, Idle
<1>1. CASE SamePlans
  BY <1>1 DEF SamePlans, SameRecord, KindInv, Approved
<1>2. ASSUME NEW p \in 0 .. Phases, plans' = Append(plans, Launched(p)) PROVE KindInv'
  <2>1. /\ Launched(p).phase = p /\ Launched(p).kind = "running" /\ Launched(p).ids = NoIds
    BY DEF Launched
  <2> QED
    BY <1>2, <2>1, PlanLaunched DEF KindInv, Approved, Accepted
<1>3. CASE Plan
  BY <1>2, <1>3, WorkflowAssumption DEF Plan
<1>4. CASE Launch
  <2>1. i \in 1 .. Phases
    BY <1>4, WorkflowAssumption DEF Launch, Current, PhaseInv, ByStart
  <2> QED
    BY <1>2, <1>4, <2>1 DEF Launch
<1>5. CASE PlannerReturns
  <2>1. plan \in DOMAIN plans /\ plans[plan].kind = "running"
    BY <1>5 DEF PlannerReturns, ControlInv, OnPlan
  <2>2. plans[plan].phase \in 0 .. Phases /\ ~Approved(plan)
    BY <2>1 DEF KindInv, Accepted
  <2> QED
    BY <1>5, <2>1, <2>2, ResultRecorded DEF KindInv, Accepted, Approved
<1>6. CASE WriteApproval
  <2>1. plan \in DOMAIN plans /\ plans[plan].kind \in Accepted
    BY <1>6 DEF WriteApproval, ControlInv, OnPlan
  <2> QED
    BY <1>6, <2>1, ApprovalRecorded DEF SameRecord, KindInv, Approved
<1> QED
  BY <1>1, <1>3, <1>4, <1>5, <1>6, PlansMove

LEMMA GoalMoves ==
  ASSUME PlanInv, WorkflowNext, at \notin {"idle", "head", "planning", "writing"}
  PROVE  SamePlans
BY PlansMove, Zenon DEF Plan, Launch, Current, PlannerReturns, WriteApproval, At, Idle

\* Each step takes the command to a place where what it is at is in order.
LEMMA ControlKeeps ==
  ASSUME PhaseInv, PlanInv, KindInv, ControlInv, WorkflowNext
  PROVE  ControlInv'
<1> USE DEF disk, memory, bounds, At, Goto, Idle
<1> USE WorkflowAssumption
\* The command ends.
<1>1. CASE saved' = saved /\ Ends
  <2>1. PlansStay
    BY PlansKeep
  <2>2. \A p \in 1 .. Phases : saved[p].plan # 0 =>
          saved[p].plan \in DOMAIN plans /\ plans[saved[p].plan].phase = p
    BY DEF ControlInv
  <2>3. \A p \in 1 .. Phases : saved'[p].plan # 0 =>
          saved'[p].plan \in DOMAIN plans' /\ plans'[saved'[p].plan].phase = p
    BY <1>1, <2>1, <2>2 DEF PlansStay
  <2> QED
    BY <1>1, <2>3 DEF Ends, ControlInv, OnPlan, Executed
\* It goes on with its plan.
<1>2. ASSUME SamePlans, UNCHANGED <<saved, cmd, i, plan>>, at \in OnPlan, at' \in OnPlan,
             at' = "planning" => at = "planning",
             at' = "writing" => at = "writing" \/ (~Approved(plan) /\ plans[plan].kind \in Accepted),
             at' \in Executed => at \in Executed \/ Approved(plan),
             cmd = "plan" => at' = at
      PROVE  ControlInv'
  <2>1. /\ DOMAIN plans' = DOMAIN plans
        /\ \A k \in DOMAIN plans : /\ plans'[k].phase = plans[k].phase
                                   /\ plans'[k].kind = plans[k].kind
                                   /\ plans'[k].ids = plans[k].ids
    BY <1>2 DEF SamePlans, SameRecord
  <2>2. plan \in DOMAIN plans /\ at \notin {"head", "idle"} /\ at' \notin {"head", "idle"}
    BY <1>2 DEF ControlInv, OnPlan
  <2>3. /\ plans'[plan].phase = plans[plan].phase /\ plans'[plan].kind = plans[plan].kind
        /\ Approved(plan)' <=> Approved(plan)
    BY <1>2, <2>1, <2>2 DEF Approved
  <2>4. \A p \in 1 .. Phases : saved'[p].plan # 0 =>
          saved'[p].plan \in DOMAIN plans' /\ plans'[saved'[p].plan].phase = p
    BY <1>2, <2>1 DEF ControlInv
  <2> QED
    BY <1>2, <2>1, <2>2, <2>3, <2>4 DEF ControlInv
\* It is at the head of its loop, with at most one plan less.
<1>3. ASSUME SamePlans, cmd' = "start", at' = "head",
             \A p \in 1 .. Phases : saved'[p].plan \in {0, saved[p].plan}
      PROVE  ControlInv'
  <2>1. \A p \in 1 .. Phases : saved'[p].plan # 0 =>
          saved'[p].plan \in DOMAIN plans' /\ plans'[saved'[p].plan].phase = p
    BY <1>3 DEF ControlInv, SamePlans, SameRecord
  <2> QED
    BY <1>3, <2>1 DEF ControlInv, OnPlan, Executed
<1>4. UNCHANGED plans => SamePlans
  BY Outdates
<1>5. Changed => SamePlans
  BY Outdates
<1>6. CASE NextPhase
  <2>1. CASE i > Phases
    BY <1>1, <1>6, <2>1 DEF NextPhase
  <2>2. CASE ~(i > Phases)
    BY <1>3, <1>4, <1>6, <2>2 DEF NextPhase, PhaseInv, ByStart
  <2> QED
    BY <2>1, <2>2
<1>7. CASE Launch
  <2>1. cmd = "start" /\ i \in 1 .. Phases
    BY <1>7 DEF Launch, Current, PhaseInv, ByStart
  <2>2. PICK r : r = [saved[i] EXCEPT !.plan = plan'] /\ saved' = [saved EXCEPT ![i] = r]
    BY <1>7 DEF Launch, Save, PhaseInv
  <2>3. r.plan = plan'
    BY <2>1, <2>2 DEF PhaseInv, IsPhase
  <2>4. saved'[i].plan = plan' /\ \A p \in 1 .. Phases : p # i => saved'[p] = saved[p]
    BY <2>1, <2>2, <2>3 DEF PhaseInv
  <2>5. /\ DOMAIN plans' = DOMAIN plans \cup {plan'}
        /\ \A k \in DOMAIN plans : plans'[k] = plans[k]
        /\ plans'[plan'].phase = i /\ plans'[plan'].kind = "running"
    BY <1>7, PlanLaunched DEF Launch, Launched
  <2>6. \A p \in 1 .. Phases : saved'[p].plan # 0 =>
          saved'[p].plan \in DOMAIN plans' /\ plans'[saved'[p].plan].phase = p
    BY <2>4, <2>5 DEF ControlInv
  <2>7. cmd' = "start" /\ at' = "planning" /\ i' = i
    BY <1>7, <2>1 DEF Launch
  <2> QED
    BY <2>4, <2>5, <2>6, <2>7 DEF ControlInv, OnPlan, Executed
<1>8. CASE Plan
  <2>1. /\ DOMAIN plans' = DOMAIN plans \cup {plan'}
        /\ \A k \in DOMAIN plans : plans'[k] = plans[k]
        /\ plans'[plan'].phase = 0 /\ plans'[plan'].kind = "running"
    BY <1>8, PlanLaunched DEF Plan, Launched
  <2>2. UNCHANGED saved /\ cmd' = "plan" /\ at' = "planning"
    BY <1>8 DEF Plan
  <2>3. \A p \in 1 .. Phases : saved'[p].plan # 0 =>
          saved'[p].plan \in DOMAIN plans' /\ plans'[saved'[p].plan].phase = p
    BY <2>1, <2>2 DEF ControlInv
  <2> QED
    BY <2>1, <2>2, <2>3 DEF ControlInv, OnPlan, Executed
<1>9. CASE Reenter
  <2>1. cmd = "start" /\ i \in 1 .. Phases
    BY <1>9 DEF Reenter, Current, PhaseInv, ByStart
  <2>2. UNCHANGED <<disk, cmd, i>> /\ plan' = saved[i].plan /\ plan' # 0 /\ at' = "examine"
    BY <1>9 DEF Reenter, PhaseInv
  <2>3. plan' \in DOMAIN plans /\ plans[plan'].phase = i
    BY <2>1, <2>2 DEF ControlInv
  <2> QED
    BY <2>1, <2>2, <2>3 DEF ControlInv, OnPlan, Executed
<1>10. CASE PlannerReturns
  <2>1. plan \in DOMAIN plans /\ plans[plan].phase \in 0 .. Phases
    BY <1>10 DEF PlannerReturns, ControlInv, OnPlan, KindInv
  <2>2. /\ DOMAIN plans' = DOMAIN plans
        /\ \A k \in DOMAIN plans : plans'[k].phase = plans[k].phase
    BY <1>10, <2>1, ResultRecorded
  <2>3. UNCHANGED saved
    BY <1>10 DEF PlannerReturns, Save, PhaseInv
  <2>4. CASE cmd = "plan"
    BY <1>1, <1>10, <2>3, <2>4 DEF PlannerReturns
  <2>5. CASE cmd # "plan"
    <3>1. cmd = "start" /\ UNCHANGED <<cmd, i, plan>> /\ at' = "examine"
      BY <1>10, <2>5 DEF PlannerReturns, PhaseInv
    <3>2. \A p \in 1 .. Phases : saved'[p].plan # 0 =>
            saved'[p].plan \in DOMAIN plans' /\ plans'[saved'[p].plan].phase = p
      BY <2>2, <2>3 DEF ControlInv
    <3>3. saved[i].plan = plan /\ plans[plan].phase = i
      BY <1>10, <3>1 DEF PlannerReturns, ControlInv
    <3> QED
      BY <2>1, <2>2, <2>3, <3>1, <3>2, <3>3 DEF ControlInv, OnPlan, Executed
  <2> QED
    BY <2>4, <2>5
<1>11. CASE NoQuestions \/ WriteTask \/ GoalReplan
  BY <1>2, <1>4, <1>11
  DEF NoQuestions, WriteTask, GoalReplan, ControlInv, OnPlan, Executed
<1>12. CASE Approve
  BY <1>2, <1>4, <1>12 DEF Approve, Approvable, ControlInv, OnPlan, Executed, Accepted
<1>13. CASE ReviewGoal
  BY <1>2, <1>13, GoalMoves DEF ReviewGoal, ControlInv, OnPlan, Executed
<1>14. CASE NoBudget \/ Unanswered \/ Refuse \/ WriteTaskFails \/ RollbackFails
  BY <1>1, <1>14 DEF NoBudget, Unanswered, Refuse, WriteTaskFails, RollbackFails
<1>15. CASE Answer \/ Superseded \/ Done
  <2>1. cmd = "start" /\ i \in 1 .. Phases
    BY <1>15 DEF Answer, Superseded, Done, PhaseInv, ByStart
  <2>2. UNCHANGED <<plans, cmd>> /\ at' = "head"
    BY <1>15 DEF Answer, Superseded, Done, PlanAnew
  <2>3. IsPhase(saved[i]) /\ phases = saved
    BY <2>1 DEF PhaseInv
  <2>4. PICK r : saved' = [saved EXCEPT ![i] = r] /\ r.plan \in {0, saved[i].plan}
    <3>1. CASE Answer
      <4>1. PICK r : /\ r = [saved[i] EXCEPT !.plan = 0, !.answers = @ + 1]
                     /\ saved' = [saved EXCEPT ![i] = r]
        BY <2>3, <3>1 DEF Answer, PlanAnew, Save
      <4>2. r.plan = 0
        BY <2>3, <4>1 DEF IsPhase
      <4> QED
        BY <4>1, <4>2
    <3>2. CASE Superseded
      <4>1. PICK r : /\ r = [saved[i] EXCEPT !.plan = 0, !.replans = @ + 1]
                     /\ saved' = [saved EXCEPT ![i] = r]
        BY <2>3, <3>2 DEF Superseded, PlanAnew, Save
      <4>2. r.plan = 0
        BY <2>3, <4>1 DEF IsPhase
      <4> QED
        BY <4>1, <4>2
    <3>3. CASE Done
      <4>1. PICK r : r = [saved[i] EXCEPT !.done = TRUE] /\ saved' = [saved EXCEPT ![i] = r]
        BY <2>3, <3>3 DEF Done, Save
      <4>2. r.plan = saved[i].plan
        BY <2>3, <4>1 DEF IsPhase
      <4> QED
        BY <4>1, <4>2
    <3> QED
      BY <1>15, <3>1, <3>2, <3>3
  <2>5. \A p \in 1 .. Phases : saved'[p].plan \in {0, saved[p].plan}
    BY <2>1, <2>4 DEF PhaseInv
  <2> QED
    BY <1>3, <1>4, <2>1, <2>2, <2>5
<1>16. CASE AlreadyApproved
  <2>1. CASE Ends
    BY <1>1, <1>16, <2>1 DEF AlreadyApproved
  <2>2. CASE cmd = "start" /\ at' = "run" /\ UNCHANGED <<cmd, i, plan>>
    BY <1>2, <1>4, <1>16, <2>2 DEF AlreadyApproved, ControlInv, OnPlan, Executed
  <2> QED
    BY <1>16, <2>1, <2>2 DEF AlreadyApproved, AfterApproval
<1>17. CASE WriteApproval
  <2>1. CASE Ends
    BY <1>1, <1>17, <2>1 DEF WriteApproval
  <2>2. CASE cmd = "start" /\ at' = "run" /\ UNCHANGED <<cmd, i, plan>>
    <3>1. /\ plan \in DOMAIN plans /\ Sound(plans[plan].deps)
          /\ saved[i].plan = plan /\ plans[plan].phase = i
      BY <1>17, <2>2 DEF WriteApproval, ControlInv, OnPlan, KindInv
    <3>2. /\ DOMAIN plans' = DOMAIN plans
          /\ \A k \in DOMAIN plans : plans'[k].phase = plans[k].phase
          /\ DOMAIN plans'[plan].ids = DOMAIN plans[plan].deps
      BY <1>17, <3>1, ApprovalRecorded DEF SameRecord
    <3>3. Approved(plan)'
      <4>1. Len(plans[plan].deps) \in Nat \ {0} /\ DOMAIN plans[plan].deps # {}
        BY <3>1, OrderSound
      <4>2. DOMAIN NoIds = {}
        BY DEF NoIds
      <4> QED
        BY <2>2, <3>2, <4>1, <4>2 DEF Approved
    <3>4. UNCHANGED saved
      BY <1>17 DEF WriteApproval
    <3>5. \A p \in 1 .. Phases : saved'[p].plan # 0 =>
            saved'[p].plan \in DOMAIN plans' /\ plans'[saved'[p].plan].phase = p
      BY <3>2, <3>4 DEF ControlInv
    <3> QED
      BY <2>2, <3>1, <3>2, <3>3, <3>4, <3>5 DEF ControlInv, OnPlan, Executed
  <2> QED
    BY <1>17, <2>1, <2>2 DEF WriteApproval, AfterApproval
<1>18. CASE RunTask
  <2>1. /\ saved' = saved /\ Changed
        /\ \/ UNCHANGED memory
           \/ Ends
           \/ at' = "replan" /\ cmd = "start" /\ UNCHANGED <<cmd, i, plan>>
    BY <1>18 DEF RunTask, Work, SetStatus
  <2> QED
    BY <1>1, <1>2, <1>5, <1>18, <2>1 DEF RunTask, ControlInv, OnPlan, Executed
<1>19. CASE GoalKnown \/ GoalReviewed \/ GoalUnavailable
  <2>1. /\ UNCHANGED saved /\ at \in {"run", "reviewing"}
        /\ \/ Ends
           \/ at' \in {"done", "goalFailed"} /\ UNCHANGED <<cmd, phases, i, plan, todo>>
    BY <1>19 DEF GoalKnown, GoalReviewed, GoalUnavailable, Completed
  <2>2. SamePlans
    BY <2>1, GoalMoves
  <2> QED
    BY <1>1, <1>2, <2>1, <2>2 DEF ControlInv, OnPlan, Executed
<1>20. CASE NoTask \/ GoalMissed \/ ReplansUsedUp \/ Stop \/ Crash
  BY <1>1, <1>20 DEF NoTask, GoalMissed, ReplansUsedUp, Stop, Crash
<1>21. CASE Replan
  BY <1>2, <1>4, <1>21 DEF Replan, PhaseInv, ControlInv, OnPlan, Executed
<1>22. CASE DropTask
  <2>1. UNCHANGED plans \/ Changed
    BY <1>22 DEF DropTask, SetStatus
  <2> QED
    BY <1>2, <1>4, <1>5, <1>22, <2>1 DEF DropTask, ControlInv, OnPlan, Executed
<1>23. CASE Start
  BY <1>3, <1>4, <1>23 DEF Start, Enter
<1>24. ASSUME NEW k \in DOMAIN plans, PlanApprove(k) \/ ExecutePlan(k) PROVE ControlInv'
  <2>1. /\ UNCHANGED <<saved, plans>> /\ plan' = k
        /\ \/ cmd' = "approve" /\ at' = "approve"
           \/ cmd' = "execute" /\ at' = "run" /\ Approved(k)
    BY <1>24 DEF PlanApprove, ExecutePlan, Enter
  <2> QED
    BY <1>24, <2>1 DEF ControlInv, OnPlan, Executed, Approved
<1>25. CASE Edit
  <2>1. SamePlans /\ UNCHANGED <<saved, cmd, at, i, plan>>
    BY <1>5, <1>25 DEF Edit
  <2>2. /\ DOMAIN plans' = DOMAIN plans
        /\ \A k \in DOMAIN plans : /\ plans'[k].phase = plans[k].phase
                                   /\ plans'[k].kind = plans[k].kind
                                   /\ plans'[k].ids = plans[k].ids
    BY <2>1 DEF SamePlans, SameRecord
  <2>3. \A k \in DOMAIN plans : Approved(k)' <=> Approved(k)
    BY <2>2 DEF Approved
  <2>4. Executed \subseteq OnPlan /\ "planning" \in OnPlan /\ "writing" \in OnPlan
    BY DEF Executed, OnPlan
  <2>5. cmd # "none" /\ at # "head" => at \in OnPlan
    BY DEF ControlInv
  <2> QED
    BY <2>1, <2>2, <2>3, <2>4, <2>5 DEF ControlInv
<1> QED
  BY <1>6, <1>7, <1>8, <1>9, <1>10, <1>11, <1>12, <1>13, <1>14, <1>15, <1>16, <1>17,
     <1>18, <1>19, <1>20, <1>21, <1>22, <1>23, <1>24, <1>25
  DEF WorkflowNext, Step, Planning, Approving, Executing, Closing, Command

-----------------------------------------------------------------------------
(* The numbers of the Tasks.                                               *)

\* A set of numbers has a least one, and a greatest one if it is bounded.
LEMMA LeastMember ==
  ASSUME NEW S \in SUBSET Nat, S # {}
  PROVE  \E x \in S : \A y \in S : x <= y
<1> DEFINE T == S
<1>1. T \subseteq Nat
  OBVIOUS
<1>0. T # {}
  OBVIOUS
<1>2. PICK k \in T : \A j \in T : <<j, k>> \notin OpToRel(<, Nat)
  <2> HIDE DEF T
  <2> QED
    BY ONLY <1>1, <1>0, NatLessThanWellFounded, WFMin
<1>3. ASSUME NEW y \in S PROVE k <= y
  <2>1. y \in Nat /\ k \in Nat /\ ~(y < k)
    <3> HIDE DEF T
    <3>1. y \in T
      BY DEF T
    <3> QED
      BY <1>1, <1>2, <3>1 DEF OpToRel
  <2> QED
    BY <2>1
<1> QED
  BY <1>3

LEMMA GreatestMember ==
  ASSUME NEW n \in Nat, NEW S \in SUBSET (1 .. n), S # {}
  PROVE  \E x \in S : \A y \in S : y <= x
<1> DEFINE T == {n - y : y \in S}
<1>1. T \in SUBSET Nat
  <2>1. \A y \in S : n - y \in Nat
    OBVIOUS
  <2> QED
    BY <2>1
<1>2. T # {}
  OBVIOUS
<1>3. PICK k \in T : \A j \in T : k <= j
  <2> HIDE DEF T
  <2> QED
    BY <1>1, <1>2, LeastMember
<1>4. PICK x \in S : k = n - x
  OBVIOUS
<1>5. ASSUME NEW y \in S PROVE y <= x
  <2>1. n - y \in T /\ x \in 1 .. n /\ y \in 1 .. n
    BY <1>5
  <2>2. n - x <= n - y
    BY <1>3, <1>4, <2>1
  <2> QED
    BY <2>1, <2>2
<1> QED
  BY <1>5

Last(S) == IF S = {} THEN 0 ELSE CHOOSE x \in S : \A y \in S : y <= x

LEMMA LastOfAll ==
  ASSUME NEW n \in Nat, NEW S \in SUBSET (1 .. n)
  PROVE  /\ Last(S) \in 0 .. n /\ S \subseteq 1 .. Last(S)
         /\ S # {} => Last(S) \in S
         /\ \A x \in S : (\A y \in S : y <= x) => Last(S) = x
<1>1. CASE S = {}
  BY <1>1 DEF Last
<1>2. CASE S # {}
  <2>1. \E x \in S : \A y \in S : y <= x
    BY <1>2, GreatestMember
  <2>2. PICK last : last = Last(S)
    OBVIOUS
  <2>3. last \in S /\ \A y \in S : y <= last
    BY <1>2, <2>1, <2>2 DEF Last
  <2>4. ASSUME NEW x \in S, \A y \in S : y <= x PROVE last = x
    <3>1. last <= x /\ x <= last /\ last \in 1 .. n /\ x \in 1 .. n
      BY <2>3, <2>4
    <3> QED
      BY <3>1
  <2>5. last \in 0 .. n /\ S \subseteq 1 .. last
    BY <2>3
  <2> QED
    BY <2>2, <2>3, <2>4, <2>5
<1> QED
  BY <1>1, <1>2

-----------------------------------------------------------------------------
(* What approval makes of a plan.                                          *)

IsTask(r) == r = [plan |-> r.plan, prop |-> r.prop, deps |-> r.deps, status |-> r.status]

\* Every Task has its number and was made for a plan.
Made ==
  /\ LastId \in Nat /\ Ids \subseteq 1 .. LastId
  /\ tasks = [t \in Ids |-> tasks[t]]
  /\ \A t \in Ids : /\ IsTask(tasks[t]) /\ tasks[t].status \in Statuses
                    /\ tasks[t].plan \in DOMAIN plans

\* The Tasks of an approved plan are its proposals, one each, and no others.
Whole == \A k \in DOMAIN plans : Approved(k) =>
  /\ DOMAIN plans[k].ids = DOMAIN plans[k].deps
  /\ \A p \in DOMAIN plans[k].deps :
       LET t == plans[k].ids[p] IN
         /\ t \in Ids /\ tasks[t].plan = k /\ tasks[t].prop = p
         /\ tasks[t].deps = {plans[k].ids[d] : d \in plans[k].deps[p]}
         /\ \A d \in plans[k].deps[p] : plans[k].ids[d] < t
  /\ \A t \in Ids : tasks[t].plan = k =>
       tasks[t].prop \in DOMAIN plans[k].deps /\ plans[k].ids[tasks[t].prop] = t

\* A Task of a plan that is not approved has not been touched: it is being written
\* just now, or was left over by a death or a failure, and then the plan is made
\* for another repository and cannot be approved.
Leftover ==
  /\ fails \in Nat
  /\ \A t \in Ids : LET k == tasks[t].plan IN ~Approved(k) =>
       /\ tasks[t].status = "TODO"
       /\ plans[k].fresh \/ fails = 0 => At("writing") /\ k = plan

\* The Tasks of an approval that is under way.
Base == LastId - Count
InWork == At("writing") =>
  LET o == Order(plans[plan].deps) IN
    /\ todo \in Seq(DOMAIN plans[plan].deps) /\ Len(todo) <= Len(o)
    /\ \A m \in 1 .. Len(todo) : todo[m] = o[Count + m]
    /\ Base \in Nat /\ Base + 1 .. LastId \subseteq Ids
    /\ \A m \in 1 .. Count : tasks[Base + m] = TaskOf(o[m])
    /\ \A t \in Ids : tasks[t].plan = plan <=> t > Base

TaskInv == Made /\ Whole /\ Leftover /\ InWork /\ NoDoubleMaterialization

\* Of the Tasks only a status changes, and none of a plan that is not approved;
\* the plans keep what was made of them.
SameTasks ==
  /\ DOMAIN tasks' = Ids /\ tasks' = [t \in Ids |-> tasks'[t]]
  /\ \A t \in Ids : /\ IsTask(tasks'[t]) /\ tasks'[t].status \in Statuses
                    /\ tasks'[t].plan = tasks[t].plan /\ tasks'[t].prop = tasks[t].prop
                    /\ tasks'[t].deps = tasks[t].deps
                    /\ ~Approved(tasks[t].plan) => tasks'[t].status = tasks[t].status
ApprovalsStay ==
  /\ \A k \in DOMAIN plans :
       /\ k \in DOMAIN plans' /\ plans'[k].ids = plans[k].ids
       /\ Approved(k) => plans'[k].deps = plans[k].deps
       /\ plans'[k].fresh => plans[k].fresh
  /\ \A k \in DOMAIN plans' \ DOMAIN plans : plans'[k].ids = NoIds

LEMMA TasksStay ==
  ASSUME TaskInv, SameTasks, ApprovalsStay
  PROVE  /\ Made' /\ Whole' /\ NoDoubleMaterialization'
         /\ LastId' = LastId /\ Ids' = Ids
         /\ \A t \in Ids : tasks[t].plan \in DOMAIN plans
                           /\ plans'[tasks'[t].plan].ids = plans[tasks[t].plan].ids
<1>1. LastId' = LastId /\ Ids' = Ids
  BY DEF SameTasks, LastId, Ids
<1>2. Made'
  <2>1. \A t \in Ids : tasks'[t].plan \in DOMAIN plans'
    BY DEF TaskInv, Made, SameTasks, ApprovalsStay
  <2> QED
    BY <1>1, <2>1 DEF TaskInv, Made, SameTasks
<1>3. NoDoubleMaterialization'
  BY <1>1 DEF TaskInv, NoDoubleMaterialization, SameTasks
<1>4. ASSUME NEW k \in DOMAIN plans', Approved(k)'
      PROVE  k \in DOMAIN plans /\ Approved(k) /\ plans'[k].ids = plans[k].ids
             /\ plans'[k].deps = plans[k].deps
  BY <1>4 DEF ApprovalsStay, Approved
<1>5. Whole'
  <2> SUFFICES ASSUME NEW k \in DOMAIN plans', Approved(k)'
               PROVE  /\ DOMAIN plans'[k].ids = DOMAIN plans'[k].deps
                      /\ \A p \in DOMAIN plans'[k].deps :
                           LET t == plans'[k].ids[p] IN
                             /\ t \in Ids' /\ tasks'[t].plan = k /\ tasks'[t].prop = p
                             /\ tasks'[t].deps = {plans'[k].ids[d] : d \in plans'[k].deps[p]}
                             /\ \A d \in plans'[k].deps[p] : plans'[k].ids[d] < t
                      /\ \A t \in Ids' : tasks'[t].plan = k =>
                           /\ tasks'[t].prop \in DOMAIN plans'[k].deps
                           /\ plans'[k].ids[tasks'[t].prop] = t
    BY DEF Whole
  <2>1. /\ k \in DOMAIN plans /\ Approved(k) /\ plans'[k].ids = plans[k].ids
        /\ plans'[k].deps = plans[k].deps
    BY <1>4
  <2> QED
    BY <1>1, <2>1 DEF TaskInv, Whole, SameTasks
<1>6. \A k \in DOMAIN plans : plans'[k].ids = plans[k].ids
  BY DEF ApprovalsStay
<1>7. ASSUME NEW t \in Ids
      PROVE  tasks[t].plan \in DOMAIN plans
             /\ plans'[tasks'[t].plan].ids = plans[tasks[t].plan].ids
  BY <1>6, <1>7 DEF TaskInv, Made, SameTasks
<1> QED
  BY <1>1, <1>2, <1>3, <1>5, <1>7

\* The Tasks of a plan in the order of their numbers are all of them.
LEMMA InOrderAll ==
  ASSUME NEW n \in Nat, NEW S \in SUBSET (1 .. n)
  PROVE  /\ InOrder(S) \in Seq(S)
         /\ \A t \in S : \E m \in 1 .. Len(InOrder(S)) : InOrder(S)[m] = t
<1> DEFINE Below(t) == {u \in S : u < t}
           c == Cardinality(S)
           rank == [t \in S |-> Cardinality(Below(t)) + 1]
<1>1. IsFiniteSet(S) /\ c \in Nat
  <2>1. IsFiniteSet(1 .. n)
    BY FS_Interval
  <2>2. IsFiniteSet(S)
    BY <2>1, FS_Subset
  <2> QED
    BY <2>2, FS_CardinalityType
<1>2. ASSUME NEW t \in S
      PROVE  /\ IsFiniteSet(Below(t)) /\ Cardinality(Below(t)) \in Nat
             /\ Cardinality(Below(t)) < c
  <2>1. Below(t) \in SUBSET S /\ t \notin Below(t)
    OBVIOUS
  <2> HIDE DEF Below
  <2>2. IsFiniteSet(Below(t)) /\ Cardinality(Below(t)) <= c /\ Cardinality(Below(t)) # c
    BY <1>1, <1>2, <2>1, FS_Subset
  <2> QED
    BY <1>1, <2>2, FS_CardinalityType
<1>3. ASSUME NEW t \in S, NEW u \in S, t < u
      PROVE  Cardinality(Below(t)) < Cardinality(Below(u))
  <2>1. Below(t) \in SUBSET Below(u) /\ t \in Below(u) /\ t \notin Below(t)
    <3>1. \A v \in S : v < t => v < u
      BY <1>3
    <3>2. Below(t) \in SUBSET Below(u)
      BY <3>1, Zenon
    <3>3. t \in Below(u) /\ t \notin Below(t)
      BY <1>3
    <3> QED
      BY <3>2, <3>3, Zenon
  <2> HIDE DEF Below
  <2>2. Cardinality(Below(t)) <= Cardinality(Below(u))
        /\ Cardinality(Below(t)) # Cardinality(Below(u))
    BY <1>2, <1>3, <2>1, FS_Subset
  <2> QED
    BY <1>2, <1>3, <2>2
<1>4. \A t, u \in S : Cardinality(Below(t)) = Cardinality(Below(u)) => t = u
  <2> SUFFICES ASSUME NEW t \in S, NEW u \in S, t # u
               PROVE  Cardinality(Below(t)) # Cardinality(Below(u))
    OBVIOUS
  <2>1. t \in Nat /\ u \in Nat /\ (t < u \/ u < t)
    OBVIOUS
  <2> HIDE DEF Below
  <2>2. \/ Cardinality(Below(t)) < Cardinality(Below(u))
        \/ Cardinality(Below(u)) < Cardinality(Below(t))
    BY <1>3, <2>1
  <2> QED
    BY <1>2, <2>2
<1>5. rank \in Injection(S, 1 .. c)
  <2> HIDE DEF Below
  <2>1. rank \in [S -> 1 .. c]
    BY <1>1, <1>2
  <2>2. \A t, u \in S : rank[t] = rank[u] => t = u
    BY <1>2, <1>4
  <2> QED
    BY <2>1, <2>2 DEF Injection, IsInjective
<1>6. rank \in Surjection(S, 1 .. c)
  <2> HIDE DEF rank
  <2>1. IsFiniteSet(1 .. c) /\ Cardinality(1 .. c) = c
    BY <1>1, FS_Interval
  <2> QED
    BY <1>5, <2>1, FS_Injection
<1>7. \A m \in 1 .. c : \E t \in S : Cardinality(Below(t)) = m - 1
  <2> SUFFICES ASSUME NEW m \in 1 .. c PROVE \E t \in S : Cardinality(Below(t)) = m - 1
    OBVIOUS
  <2>1. PICK t \in S : rank[t] = m
    <3> HIDE DEF rank
    <3> QED
      BY <1>6 DEF Surjection
  <2> HIDE DEF Below
  <2> QED
    BY <1>2, <2>1
<1>8. InOrder(S) = [m \in 1 .. c |-> CHOOSE t \in S : Cardinality(Below(t)) = m - 1]
  BY DEF InOrder
<1> HIDE DEF Below
<1>9. \A m \in 1 .. c : InOrder(S)[m] \in S /\ Cardinality(Below(InOrder(S)[m])) = m - 1
  BY <1>7, <1>8
<1>10. InOrder(S) \in [1 .. c -> S]
  BY <1>8, <1>9
<1>11. InOrder(S) \in Seq(S)
  BY <1>1, <1>10, SeqDef
<1>12. Len(InOrder(S)) = c
  <2>1. DOMAIN InOrder(S) = 1 .. c /\ DOMAIN InOrder(S) = 1 .. Len(InOrder(S))
        /\ Len(InOrder(S)) \in Nat
    BY <1>10, <1>11, LenProperties
  <2> QED
    BY <1>1, <2>1
<1>13. ASSUME NEW t \in S PROVE \E m \in 1 .. c : InOrder(S)[m] = t
  <2>1. PICK m : m = Cardinality(Below(t)) + 1
    OBVIOUS
  <2>2. m \in 1 .. c /\ m - 1 = Cardinality(Below(t))
    BY <1>1, <1>2, <2>1
  <2> QED
    BY <1>4, <1>9, <2>2
<1> QED
  BY <1>11, <1>12, <1>13

-----------------------------------------------------------------------------
(* What the steps do to Tasks.                                             *)

LEMMA ApprovalsKept ==
  ASSUME PhaseInv, PlanInv, KindInv, ControlInv, WorkflowNext, ~WriteApproval
  PROVE  ApprovalsStay
<1>1. CASE SamePlans
  BY <1>1 DEF SamePlans, SameRecord, ApprovalsStay
<1>2. ASSUME NEW p, plans' = Append(plans, Launched(p)) PROVE ApprovalsStay
  BY <1>2, PlanLaunched DEF ApprovalsStay, Launched
<1>3. CASE PlannerReturns
  <2>1. plan \in DOMAIN plans /\ plans[plan].kind = "running"
    BY <1>3 DEF PlannerReturns, ControlInv, OnPlan, At
  <2>2. plans[plan].phase \in 0 .. Phases /\ ~Approved(plan)
    BY <2>1 DEF KindInv, Accepted
  <2> QED
    BY <1>3, <2>1, <2>2, ResultRecorded DEF ApprovalsStay
<1> QED
  BY <1>1, <1>2, <1>3, PlansMove DEF Plan, Launch

\* Steps that write no Task and no approval, or leave the approval they were in.
LEMMA TaskInvStays ==
  ASSUME TaskInv, SameTasks, ApprovalsStay,
         fails' \in Nat, fails' = 0 => fails = 0,
         \/ ~At("writing") /\ ~At("writing")'
         \/ At("writing") /\ UNCHANGED <<tasks, at, plan, todo>>
              /\ plan \in DOMAIN plans /\ plans'[plan].deps = plans[plan].deps
         \/ ~At("writing")' /\ \A t \in Ids : tasks[t].plan = plan =>
              plans'[plan].fresh = FALSE /\ fails' # 0
  PROVE  TaskInv'
<1>1. /\ Made' /\ Whole' /\ NoDoubleMaterialization'
      /\ LastId' = LastId /\ Ids' = Ids
      /\ \A t \in Ids : tasks[t].plan \in DOMAIN plans
                        /\ plans'[tasks'[t].plan].ids = plans[tasks[t].plan].ids
  BY TasksStay
<1>2. Leftover'
  <2> SUFFICES ASSUME NEW t \in Ids', ~Approved(tasks[t].plan)'
               PROVE  /\ tasks'[t].status = "TODO"
                      /\ plans'[tasks'[t].plan].fresh \/ fails' = 0 =>
                           At("writing")' /\ tasks'[t].plan = plan'
    BY DEF Leftover
  <2>1. t \in Ids /\ tasks'[t].plan = tasks[t].plan /\ tasks[t].plan \in DOMAIN plans
    BY <1>1 DEF SameTasks
  <2>2. ~Approved(tasks[t].plan)
    BY <1>1, <2>1 DEF Approved
  <2>3. tasks'[t].status = tasks[t].status
    BY <2>1, <2>2 DEF SameTasks
  <2>4. plans'[tasks[t].plan].fresh => plans[tasks[t].plan].fresh
    BY <2>1 DEF ApprovalsStay
  <2>5. /\ tasks[t].status = "TODO"
        /\ plans[tasks[t].plan].fresh \/ fails = 0 => At("writing") /\ tasks[t].plan = plan
    BY <2>1, <2>2 DEF TaskInv, Leftover
  <2> QED
    BY <2>1, <2>3, <2>4, <2>5 DEF At
<1>3. InWork'
  <2> SUFFICES ASSUME At("writing")' PROVE InWork'
    BY DEF InWork
  <2>1. /\ At("writing") /\ UNCHANGED <<tasks, at, plan, todo>>
        /\ plan \in DOMAIN plans /\ plans'[plan].deps = plans[plan].deps
    OBVIOUS
  <2>2. UNCHANGED <<LastId, Count, Base, Ids>>
    BY <1>1, <2>1 DEF Count, Base
  <2>3. \A p : TaskOf(p)' = TaskOf(p)
    BY <2>1, <2>2 DEF TaskOf, IdOf
  <2> QED
    BY <2>1, <2>2, <2>3 DEF TaskInv, InWork
<1> QED
  BY <1>1, <1>2, <1>3 DEF TaskInv

\* Of a plan that is replaced every Task is finished, or still on the list.
DropInv == At("superseding") =>
  /\ todo \in Seq(IdsOf(plan))
  /\ \A t \in IdsOf(plan) :
       tasks[t].status \in Closed \/ \E n \in 1 .. Len(todo) : todo[n] = t

LEMMA PlanTasks ==
  ASSUME TaskInv, NEW k \in DOMAIN plans, Approved(k)
  PROVE  /\ LastId \in Nat /\ IdsOf(k) \in SUBSET (1 .. LastId) /\ IdsOf(k) \subseteq Ids
         /\ \A t \in Ids : t \in IdsOf(k) <=> tasks[t].plan = k
<1>1. /\ DOMAIN plans[k].ids = DOMAIN plans[k].deps
      /\ \A p \in DOMAIN plans[k].deps :
           plans[k].ids[p] \in Ids /\ tasks[plans[k].ids[p]].plan = k
      /\ \A t \in Ids : tasks[t].plan = k =>
           tasks[t].prop \in DOMAIN plans[k].deps /\ plans[k].ids[tasks[t].prop] = t
  BY DEF TaskInv, Whole
<1>2. LastId \in Nat /\ Ids \subseteq 1 .. LastId
  BY DEF TaskInv, Made
<1>3. IdsOf(k) \subseteq Ids
  BY <1>1 DEF IdsOf
<1>4. \A t \in Ids : t \in IdsOf(k) <=> tasks[t].plan = k
  BY <1>1 DEF IdsOf
<1> QED
  BY <1>2, <1>3, <1>4

\* The status of one Task of an approved plan.
LEMMA StatusSet ==
  ASSUME Made, NEW t \in Ids, Approved(tasks[t].plan), NEW s \in Statuses, SetStatus(t, s)
  PROVE  /\ SameTasks /\ Changed /\ tasks'[t].status = s
         /\ \A u \in Ids : u # t => tasks'[u] = tasks[u]
<1>1. PICK r : r = [tasks[t] EXCEPT !.status = s] /\ tasks' = [tasks EXCEPT ![t] = r]
  BY DEF SetStatus
<1>2. /\ IsTask(r) /\ r.status = s /\ r.plan = tasks[t].plan /\ r.prop = tasks[t].prop
      /\ r.deps = tasks[t].deps
  <2>1. IsTask(tasks[t])
    BY DEF Made
  <2> QED
    BY <1>1, <2>1 DEF IsTask
<1>3. /\ DOMAIN tasks' = Ids /\ tasks' = [u \in Ids |-> tasks'[u]] /\ tasks'[t] = r
      /\ \A u \in Ids : u # t => tasks'[u] = tasks[u]
  BY <1>1 DEF Made, Ids
<1>4. ASSUME NEW u \in Ids
      PROVE  /\ IsTask(tasks'[u]) /\ tasks'[u].status \in Statuses
             /\ tasks'[u].plan = tasks[u].plan /\ tasks'[u].prop = tasks[u].prop
             /\ tasks'[u].deps = tasks[u].deps
             /\ ~Approved(tasks[u].plan) => tasks'[u].status = tasks[u].status
  <2>1. CASE u = t
    BY <1>2, <1>3, <2>1
  <2>2. CASE u # t
    <3>1. tasks'[u] = tasks[u] /\ IsTask(tasks[u]) /\ tasks[u].status \in Statuses
      BY <1>3, <2>2 DEF Made
    <3> QED
      BY <3>1
  <2> QED
    BY <2>1, <2>2
<1> QED
  BY <1>2, <1>3, <1>4 DEF SameTasks, SetStatus

\* The Task that an execution goes on with is one of its plan.
LEMMA PickedTask ==
  ASSUME TaskInv, ControlInv, At("run"), Picked # {}
  PROVE  /\ Least(Picked) \in Picked /\ Least(Picked) \in IdsOf(plan)
         /\ plan \in DOMAIN plans /\ Approved(plan)
<1>1. plan \in DOMAIN plans /\ Approved(plan)
  BY DEF At, ControlInv, OnPlan, Executed
<1>2. Picked \subseteq IdsOf(plan)
  BY DEF Picked, Resumable, Ready, With
<1>3. Picked \in SUBSET Nat
  BY <1>1, <1>2, PlanTasks
<1>4. \E x \in Picked : \A y \in Picked : x <= y
  BY <1>3, LeastMember
<1> QED
  BY <1>1, <1>2, <1>4 DEF Least

\* What an execution, or the replacement of a plan, does to a Task.
LEMMA RunSets ==
  ASSUME TaskInv, ControlInv, RunTask
  PROVE  \E t \in Picked : \E s \in Statuses :
           /\ t \in IdsOf(plan) /\ t \in Ids /\ tasks[t].plan = plan /\ plan \in DOMAIN plans
           /\ Approved(plan) /\ SetStatus(t, s) /\ s # "DROPPED"
           /\ s = "TODO" => tasks[t].status = "BLOCKED"
<1>1. At("run") /\ Picked # {} /\ Work(Least(Picked))
  BY DEF RunTask
<1>2. PICK t \in Picked : /\ t = Least(Picked) /\ t \in IdsOf(plan)
                          /\ plan \in DOMAIN plans /\ Approved(plan)
  BY <1>1, PickedTask
<1>3. t \in Ids /\ tasks[t].plan = plan
  BY <1>2, PlanTasks
<1>4. PICK s \in Statuses : /\ SetStatus(t, s) /\ s # "DROPPED"
                            /\ s = "TODO" => tasks[t].status = "BLOCKED"
  <2>1. \A s \in Stopped \cup {"DONE"} : s \in Statuses /\ s # "DROPPED" /\ s # "TODO"
    BY WorkflowAssumption DEF Statuses
  <2>2. "TODO" \in Statuses
    BY DEF Statuses
  <2>3. \/ \E s \in Stopped \cup {"DONE"} : SetStatus(t, s)
        \/ tasks[t].status = "BLOCKED" /\ SetStatus(t, "TODO")
    BY <1>1, <1>2 DEF Work
  <2> QED
    BY <2>1, <2>2, <2>3
<1> QED
  BY <1>2, <1>3, <1>4

LEMMA DropSets ==
  ASSUME TaskInv, ControlInv, DropInv, DropTask
  PROVE  /\ plan \in DOMAIN plans /\ Approved(plan) /\ todo \in Seq(IdsOf(plan))
         /\ \E t \in IdsOf(plan) :
              /\ t = Head(todo) /\ t \in Ids /\ tasks[t].plan = plan
              /\ \/ tasks[t].status \in Closed /\ todo' = Tail(todo) /\ UNCHANGED <<plans, tasks>>
                 \/ SetStatus(t, "BLOCKED") /\ UNCHANGED todo
                      /\ tasks[t].status \in {"IN_PROGRESS", "REVIEW"}
                 \/ SetStatus(t, "DROPPED") /\ todo' = Tail(todo)
                      /\ tasks[t].status \notin Closed
<1>1. plan \in DOMAIN plans /\ Approved(plan) /\ todo \in Seq(IdsOf(plan)) /\ todo # << >>
  BY DEF DropTask, DropInv, At, ControlInv, OnPlan, Executed
<1>2. PICK t \in IdsOf(plan) : t = Head(todo)
  BY <1>1, HeadTailProperties
<1>3. t \in Ids /\ tasks[t].plan = plan
  BY <1>1, <1>2, PlanTasks
<1>4. \/ tasks[t].status \in Closed /\ todo' = Tail(todo) /\ UNCHANGED <<plans, tasks>>
      \/ SetStatus(t, "BLOCKED") /\ UNCHANGED todo
           /\ tasks[t].status \in {"IN_PROGRESS", "REVIEW"}
      \/ SetStatus(t, "DROPPED") /\ todo' = Tail(todo) /\ tasks[t].status \notin Closed
  BY <1>2 DEF DropTask
<1> QED
  BY <1>1, <1>2, <1>3, <1>4

\* Tasks are written by an approval alone.
LEMMA TasksMove ==
  ASSUME TaskInv, ControlInv, DropInv, WorkflowNext,
         ~(WriteTask \/ WriteTaskFails \/ RollbackFails)
  PROVE  SameTasks
<1>1. CASE UNCHANGED tasks
  BY <1>1 DEF TaskInv, Made, SameTasks, Ids
<1>2. Made
  BY DEF TaskInv
<1>3. CASE RunTask
  BY <1>2, <1>3, RunSets, StatusSet
<1>4. CASE DropTask
  <2>1. "BLOCKED" \in Statuses /\ "DROPPED" \in Statuses
    BY DEF Statuses
  <2> QED
    BY <1>1, <1>2, <1>4, <2>1, DropSets, StatusSet
<1> USE DEF disk, memory, bounds
<1>5. CASE Planning
  BY <1>1, <1>5 DEF Planning, NextPhase, NoBudget, Launch, Reenter, PlannerReturns, NoQuestions,
     Unanswered, Answer, PlanAnew
<1>6. CASE AlreadyApproved \/ Refuse \/ Approve \/ WriteApproval
  BY <1>1, <1>6 DEF AlreadyApproved, Refuse, Approve, WriteApproval
<1>7. CASE NoTask \/ GoalKnown \/ ReviewGoal \/ GoalReviewed \/ GoalUnavailable
           \/ GoalMissed \/ GoalReplan
  BY <1>1, <1>7 DEF NoTask, GoalKnown, ReviewGoal, GoalReviewed, GoalUnavailable, GoalMissed,
     GoalReplan
<1>8. CASE Done \/ ReplansUsedUp \/ Replan \/ Superseded \/ Stop \/ Edit \/ Crash
  BY <1>1, <1>8 DEF Done, ReplansUsedUp, Replan, Superseded, PlanAnew, Stop, Edit, Crash
<1>9. CASE Command
  BY <1>1, <1>9 DEF Command, Start, Plan, PlanApprove, ExecutePlan, Enter
<1> QED
  BY <1>3, <1>4, <1>5, <1>6, <1>7, <1>8, <1>9 DEF WorkflowNext, Step, Approving, Executing, Closing

-----------------------------------------------------------------------------
(* The steps of an approval.                                               *)

\* What an approval that is under way writes or removes is its own.
LEMMA WholeStays ==
  ASSUME Whole, ApprovalsStay, ~Approved(plan),
         \A t \in Ids : tasks[t].plan # plan => t \in Ids' /\ tasks'[t] = tasks[t],
         \A t \in Ids' : (t \in Ids /\ tasks'[t] = tasks[t]) \/ tasks'[t].plan = plan
  PROVE  Whole'
<1> SUFFICES ASSUME NEW k \in DOMAIN plans', Approved(k)'
             PROVE  /\ DOMAIN plans'[k].ids = DOMAIN plans'[k].deps
                    /\ \A p \in DOMAIN plans'[k].deps :
                         LET t == plans'[k].ids[p] IN
                           /\ t \in Ids' /\ tasks'[t].plan = k /\ tasks'[t].prop = p
                           /\ tasks'[t].deps = {plans'[k].ids[d] : d \in plans'[k].deps[p]}
                           /\ \A d \in plans'[k].deps[p] : plans'[k].ids[d] < t
                    /\ \A t \in Ids' : tasks'[t].plan = k =>
                         /\ tasks'[t].prop \in DOMAIN plans'[k].deps
                         /\ plans'[k].ids[tasks'[t].prop] = t
  BY DEF Whole
<1>1. /\ k \in DOMAIN plans /\ Approved(k) /\ plans'[k].ids = plans[k].ids
      /\ plans'[k].deps = plans[k].deps
  BY DEF ApprovalsStay, Approved
<1>2. k # plan
  BY <1>1
<1>3. /\ DOMAIN plans[k].ids = DOMAIN plans[k].deps
      /\ \A p \in DOMAIN plans[k].deps :
           LET t == plans[k].ids[p] IN
             /\ t \in Ids /\ tasks[t].plan = k /\ tasks[t].prop = p
             /\ tasks[t].deps = {plans[k].ids[d] : d \in plans[k].deps[p]}
             /\ \A d \in plans[k].deps[p] : plans[k].ids[d] < t
      /\ \A t \in Ids : tasks[t].plan = k =>
           tasks[t].prop \in DOMAIN plans[k].deps /\ plans[k].ids[tasks[t].prop] = t
  BY <1>1 DEF Whole
<1> QED
  BY <1>1, <1>2, <1>3

\* What is known of the plan while it is approved.
LEMMA UnderApproval ==
  ASSUME PlanInv, KindInv, ControlInv, TaskInv, At("writing"), NEW g, g = plans[plan].deps
  PROVE  /\ plan \in DOMAIN plans /\ ~Approved(plan) /\ Sound(g)
         /\ Count \in Nat /\ Base \in Nat /\ LastId = Base + Count
         /\ Len(Order(g)) = Count + Len(todo) /\ Len(todo) \in Nat
         /\ \A p : IdOf(p) = Base + Place(g, p)
         /\ Written = {t \in Ids : tasks[t].plan = plan}
<1>1. plan \in DOMAIN plans /\ ~Approved(plan) /\ plans[plan].kind \in Accepted
  BY DEF At, ControlInv, OnPlan
<1>2. Sound(g)
  BY <1>1 DEF KindInv
<1>3. /\ todo \in Seq(DOMAIN g) /\ Len(todo) <= Len(Order(g)) /\ Base \in Nat
      /\ \A t \in Ids : tasks[t].plan = plan <=> t > Base
  BY DEF TaskInv, InWork
<1>4. Len(todo) \in Nat /\ Len(Order(g)) \in Nat /\ LastId \in Nat
  BY <1>2, <1>3, LenProperties, OrderSound DEF TaskInv, Made
<1>5. Count = Len(Order(g)) - Len(todo) /\ Base = LastId - Count
  BY DEF Count, Base
<1>6. Count \in Nat /\ LastId = Base + Count /\ Len(Order(g)) = Count + Len(todo)
  BY <1>3, <1>4, <1>5
<1>7. \A p : IdOf(p) = Base + Place(g, p)
  BY DEF IdOf, Place, Base
<1>8. Written = {t \in Ids : tasks[t].plan = plan}
  BY <1>3 DEF Written, Base
<1> QED
  BY <1>1, <1>2, <1>3, <1>4, <1>6, <1>7, <1>8

LEMMA ApproveKeeps ==
  ASSUME PlanInv, KindInv, ControlInv, TaskInv, Approve
  PROVE  TaskInv'
<1> DEFINE g == plans[plan].deps
           o == Order(g)
<1>1. /\ at = "approve" /\ at' = "writing" /\ todo' = o /\ UNCHANGED <<plans, tasks, plan, fails>>
      /\ ~Approved(plan) /\ plans[plan].kind \in Accepted /\ plans[plan].fresh
      /\ plan \in DOMAIN plans
  BY DEF Approve, Approvable, Accepted, At, Goto, disk, bounds, ControlInv, OnPlan
<1>2. SameTasks /\ ApprovalsStay
  BY <1>1 DEF TaskInv, Made, SameTasks, ApprovalsStay, Ids
<1>3. Made' /\ Whole' /\ NoDoubleMaterialization' /\ LastId' = LastId /\ Ids' = Ids
  BY <1>2, TasksStay
<1>4. \A t \in Ids : ~Approved(tasks[t].plan) =>
        tasks[t].status = "TODO" /\ ~(plans[tasks[t].plan].fresh \/ fails = 0)
  BY <1>1 DEF TaskInv, Leftover, At
<1>5. Leftover'
  BY <1>1, <1>3, <1>4 DEF Leftover, Approved, TaskInv
<1>6. Sound(g)
  BY <1>1 DEF KindInv
<1>7. o \in Seq(1 .. Len(g)) /\ DOMAIN g = 1 .. Len(g) /\ Len(o) \in Nat
  BY <1>6, OrderSound
<1> HIDE DEF o, g
<1>8. plans'[plan'].deps = g /\ Order(plans'[plan'].deps) = o
  BY <1>1 DEF g, o
<1>9. Count' = 0 /\ LastId \in Nat /\ Base' = LastId
  BY <1>1, <1>3, <1>7, <1>8 DEF Count, Base, TaskInv, Made
<1>10. \A t \in Ids : tasks[t].plan # plan /\ ~(t > LastId)
  <2>1. \A t \in Ids : t \in 1 .. LastId
    BY DEF TaskInv, Made
  <2> QED
    BY <1>1, <1>4, <1>9, <2>1
<1>11. /\ o \in Seq(DOMAIN g) /\ Len(o) <= Len(o)
       /\ \A m \in 1 .. Len(o) : o[m] = o[0 + m]
       /\ LastId + 1 .. LastId = {} /\ 1 .. 0 = {}
  BY <1>7, <1>9
<1>12. InWork'
  <2>1. /\ todo' \in Seq(DOMAIN plans'[plan'].deps)
        /\ Len(todo') <= Len(Order(plans'[plan'].deps))
        /\ \A m \in 1 .. Len(todo') : todo'[m] = Order(plans'[plan'].deps)[Count' + m]
    BY <1>1, <1>8, <1>9, <1>11
  <2>2. /\ Base' \in Nat /\ Base' + 1 .. LastId' \subseteq Ids'
        /\ \A m \in 1 .. Count' : (tasks[Base + m] = TaskOf(Order(plans[plan].deps)[m]))'
        /\ \A t \in Ids' : tasks'[t].plan = plan' <=> t > Base'
    BY <1>1, <1>3, <1>9, <1>10, <1>11
  <2> QED
    BY <2>1, <2>2 DEF InWork
<1> QED
  BY <1>3, <1>5, <1>12 DEF TaskInv

LEMMA WriteTaskKeeps ==
  ASSUME PlanInv, KindInv, ControlInv, TaskInv, WriteTask
  PROVE  TaskInv'
<1>1. PICK g, o : g = plans[plan].deps /\ o = Order(g)
  OBVIOUS
<1>2. At("writing")
  BY DEF WriteTask
<1>3. /\ plan \in DOMAIN plans /\ ~Approved(plan) /\ Sound(g)
      /\ Count \in Nat /\ Base \in Nat /\ LastId = Base + Count
      /\ Len(o) = Count + Len(todo) /\ Len(todo) \in Nat
  BY <1>1, <1>2, UnderApproval
<1>4. /\ todo \in Seq(DOMAIN g)
      /\ \A m \in 1 .. Len(todo) : todo[m] = o[Count + m]
      /\ Base + 1 .. LastId \subseteq Ids
      /\ \A m \in 1 .. Count : tasks[Base + m] = TaskOf(o[m])
      /\ \A t \in Ids : tasks[t].plan = plan <=> t > Base
  BY <1>1, <1>2 DEF TaskInv, InWork
<1>5. /\ todo # << >> /\ todo' = Tail(todo)
      /\ UNCHANGED <<plans, plan, at, fails>>
      /\ Ids' = Ids \cup {LastId + 1}
      /\ tasks' = [t \in Ids' |-> tasks'[t]]
      /\ tasks'[LastId + 1] = TaskOf(Head(todo))
      /\ \A t \in Ids : t # LastId + 1 => tasks'[t] = tasks[t]
  BY DEF WriteTask, Ids, bounds
<1>6. /\ Len(todo) > 0 /\ Head(todo) = o[Count + 1] /\ Count + 1 \in 1 .. Len(o)
      /\ todo' \in Seq(DOMAIN g) /\ Len(todo') = Len(todo) - 1
      /\ \A m \in 1 .. Len(todo') : todo'[m] = todo[m + 1]
  <2>1. Len(todo) # 0
    BY <1>4, <1>5, EmptySeq
  <2>2. Head(todo) = todo[1]
    BY <1>4, <1>5, HeadTailProperties
  <2>3. todo' \in Seq(DOMAIN g) /\ Len(todo') = Len(todo) - 1
    BY <1>4, <1>5, HeadTailProperties
  <2>4. \A m \in 1 .. Len(todo') : todo'[m] = todo[m + 1]
    BY <1>4, <1>5, HeadTailProperties
  <2>5. todo[1] = o[Count + 1]
    BY <1>3, <1>4, <2>1
  <2> QED
    BY <1>3, <2>1, <2>2, <2>3, <2>4, <2>5
<1>7. LastId \in Nat /\ \A t \in Ids : t \in 1 .. LastId /\ t # LastId + 1
  BY DEF TaskInv, Made
<1>8. LastId' = LastId + 1
  <2>1. Ids' \in SUBSET (1 .. LastId + 1) /\ LastId + 1 \in Nat
    BY <1>5, <1>7
  <2>2. LastId + 1 \in Ids' /\ \A y \in Ids' : y <= LastId + 1
    BY <1>5, <2>1
  <2>3. Last(Ids') = LastId + 1
    BY <2>1, <2>2, LastOfAll
  <2> QED
    BY <2>3 DEF LastId, Last
<1>9. /\ IsTask(TaskOf(Head(todo))) /\ TaskOf(Head(todo)).plan = plan
      /\ TaskOf(Head(todo)).prop = Head(todo) /\ TaskOf(Head(todo)).status = "TODO"
  BY DEF IsTask, TaskOf
<1>10. Made'
  <2>1. \A t \in Ids' : /\ IsTask(tasks'[t]) /\ tasks'[t].status \in Statuses
                        /\ tasks'[t].plan \in DOMAIN plans'
    <3> SUFFICES ASSUME NEW t \in Ids'
                 PROVE  /\ IsTask(tasks'[t]) /\ tasks'[t].status \in Statuses
                        /\ tasks'[t].plan \in DOMAIN plans'
      OBVIOUS
    <3>1. CASE t = LastId + 1
      BY <1>3, <1>5, <1>9, <3>1 DEF Statuses
    <3>2. CASE t # LastId + 1
      BY <1>5, <3>2 DEF TaskInv, Made
    <3> QED
      BY <3>1, <3>2
  <2>2. LastId' \in Nat /\ Ids' \subseteq 1 .. LastId'
    BY <1>5, <1>7, <1>8
  <2> QED
    BY <1>5, <2>1, <2>2 DEF Made
<1>11. Whole'
  <2>1. ApprovalsStay
    BY <1>5 DEF ApprovalsStay
  <2>2. /\ \A t \in Ids : t \in Ids' /\ tasks'[t] = tasks[t]
        /\ \A t \in Ids' : (t \in Ids /\ tasks'[t] = tasks[t]) \/ tasks'[t].plan = plan
    BY <1>5, <1>7, <1>9
  <2> QED
    BY <1>3, <2>1, <2>2, WholeStays DEF TaskInv
<1>12. Leftover'
  <2> SUFFICES ASSUME NEW t \in Ids', ~Approved(tasks[t].plan)'
               PROVE  /\ tasks'[t].status = "TODO"
                      /\ plans'[tasks'[t].plan].fresh \/ fails' = 0 =>
                           At("writing")' /\ tasks'[t].plan = plan'
    BY <1>5 DEF Leftover, TaskInv
  <2>1. At("writing")'
    BY <1>2, <1>5 DEF At
  <2>2. CASE t = LastId + 1
    BY <1>5, <1>9, <2>1, <2>2
  <2>3. CASE t # LastId + 1
    <3>1. t \in Ids /\ tasks'[t] = tasks[t] /\ ~Approved(tasks[t].plan)
      BY <1>5, <2>3 DEF Approved
    <3> QED
      BY <1>5, <2>1, <3>1 DEF TaskInv, Leftover
  <2> QED
    BY <2>2, <2>3
<1>13. Count' = Count + 1 /\ Base' = Base
  <2>1. Count' = Len(o) - Len(todo')
    BY <1>1, <1>5 DEF Count
  <2>2. Count' = Count + 1
    BY <1>3, <1>6, <2>1
  <2> QED
    BY <1>3, <1>8, <2>2 DEF Base
<1>14. \A p : TaskOf(p)' = TaskOf(p)
  <2>1. \A p : IdOf(p)' = IdOf(p)
    BY <1>5, <1>13 DEF IdOf, Base
  <2> QED
    BY <1>5, <2>1 DEF TaskOf
<1>15. \A t \in Ids' : tasks'[t].plan = plan <=> t > Base
  <2> SUFFICES ASSUME NEW t \in Ids' PROVE tasks'[t].plan = plan <=> t > Base
    OBVIOUS
  <2>1. CASE t = LastId + 1
    BY <1>3, <1>5, <1>9, <2>1
  <2>2. CASE t # LastId + 1
    BY <1>4, <1>5, <2>2
  <2> QED
    BY <2>1, <2>2
<1>16. \A m \in 1 .. Count + 1 : Base + m \in Ids' /\ tasks'[Base + m] = TaskOf(o[m])
  <2> SUFFICES ASSUME NEW m \in 1 .. Count + 1
               PROVE  Base + m \in Ids' /\ tasks'[Base + m] = TaskOf(o[m])
    OBVIOUS
  <2>1. CASE m = Count + 1
    <3>1. Base + m = LastId + 1
      BY <1>3, <2>1
    <3> QED
      BY <1>5, <1>6, <2>1, <3>1
  <2>2. CASE m # Count + 1
    <3>1. m \in 1 .. Count /\ Base + m \in Base + 1 .. LastId /\ Base + m # LastId + 1
      BY <1>3, <2>2
    <3> QED
      BY <1>4, <1>5, <3>1
  <2> QED
    BY <2>1, <2>2
<1>17. InWork'
  <2>1. plans'[plan'].deps = g /\ Order(plans'[plan'].deps) = o
    BY <1>1, <1>5
  <2>2. /\ todo' \in Seq(DOMAIN g) /\ Len(todo') <= Len(o)
        /\ \A m \in 1 .. Len(todo') : todo'[m] = o[Count' + m]
    <3>1. Len(todo') <= Len(o)
      BY <1>3, <1>6
    <3>2. ASSUME NEW m \in 1 .. Len(todo') PROVE todo'[m] = o[Count' + m]
      <4>1. m + 1 \in 1 .. Len(todo) /\ Count + (m + 1) = Count' + m
        BY <1>3, <1>6, <1>13
      <4> QED
        BY <1>4, <1>6, <4>1
    <3> QED
      BY <1>6, <3>1, <3>2
  <2>3. /\ Base' \in Nat /\ Base' + 1 .. LastId' \subseteq Ids'
    <3>1. ASSUME NEW t \in Base + 1 .. LastId + 1 PROVE t \in Ids'
      <4>1. t = LastId + 1 \/ t \in Base + 1 .. LastId
        BY <1>3, <3>1
      <4> QED
        BY <1>4, <1>5, <4>1
    <3> QED
      BY <1>3, <1>8, <1>13, <3>1
  <2>4. \A m \in 1 .. Count' : tasks'[Base' + m] = TaskOf(o[m])'
    BY <1>13, <1>14, <1>16, <1>1, <1>5
  <2>5. \A t \in Ids' : tasks'[t].plan = plan' <=> t > Base'
    BY <1>5, <1>13, <1>15
  <2> QED
    BY <2>1, <2>2, <2>3, <2>4, <2>5 DEF InWork
<1>18. NoDoubleMaterialization'
  <2>1. ASSUME NEW t \in Ids, tasks[t].plan = plan
        PROVE  tasks[t].prop # Head(todo)
    <3>1. t > Base /\ t \in Base + 1 .. LastId
      BY <1>3, <1>4, <1>7, <2>1
    <3>2. PICK m \in 1 .. Count : t = Base + m
      <4>1. t - Base \in 1 .. Count /\ t = Base + (t - Base)
        BY <1>3, <3>1
      <4> QED
        BY <4>1
    <3>3. tasks[t].prop = o[m]
      <4>1. tasks[t] = TaskOf(o[m])
        BY <1>4, <3>2
      <4>2. TaskOf(o[m]).prop = o[m]
        BY DEF TaskOf
      <4> QED
        BY <4>1, <4>2
    <3>4. m \in 1 .. Len(o) /\ m # Count + 1
      BY <1>3, <3>2
    <3>5. Len(o) = Len(g) /\ \A a, b \in 1 .. Len(g) : o[a] = o[b] => a = b
      BY <1>1, <1>3, OrderSound
    <3> QED
      BY <1>6, <3>3, <3>4, <3>5
  <2>2. ASSUME NEW t \in Ids', NEW u \in Ids', tasks'[t].plan = tasks'[u].plan,
               tasks'[t].prop = tasks'[u].prop
        PROVE  t = u
    <3>1. CASE t = LastId + 1 /\ u # LastId + 1
      BY <1>5, <1>9, <2>1, <2>2, <3>1
    <3>2. CASE u = LastId + 1 /\ t # LastId + 1
      BY <1>5, <1>9, <2>1, <2>2, <3>2
    <3>3. CASE t # LastId + 1 /\ u # LastId + 1
      BY <1>5, <2>2, <3>3 DEF TaskInv, NoDoubleMaterialization
    <3> QED
      BY <3>1, <3>2, <3>3
  <2> QED
    BY <2>2 DEF NoDoubleMaterialization
<1> QED
  BY <1>10, <1>11, <1>12, <1>17, <1>18 DEF TaskInv

\* What was written is removed again, all of it or a part.
LEMMA RemovalKeeps ==
  ASSUME PlanInv, KindInv, ControlInv, TaskInv, At("writing"), ~At("writing")',
         ApprovalsStay, fails' \in Nat, fails' = 0 => fails = 0,
         NEW stuck \in SUBSET Written,
         tasks' = [t \in (Ids \ Written) \cup stuck |-> tasks[t]],
         stuck # {} => plans'[plan].fresh = FALSE /\ fails' # 0
  PROVE  TaskInv'
<1>1. plan \in DOMAIN plans /\ ~Approved(plan) /\ Written = {t \in Ids : tasks[t].plan = plan}
  BY UnderApproval
<1>2. /\ Ids' = (Ids \ Written) \cup stuck /\ Ids' \subseteq Ids
      /\ \A t \in Ids' : tasks'[t] = tasks[t]
      /\ tasks' = [t \in Ids' |-> tasks'[t]]
  BY <1>1 DEF Ids
<1>3. /\ \A t \in Ids : tasks[t].plan # plan => t \in Ids' /\ tasks'[t] = tasks[t]
      /\ \A t \in Ids' : tasks[t].plan = plan => t \in stuck
  BY <1>1, <1>2
<1>4. Made'
  <2>1. LastId' \in Nat /\ Ids' \subseteq 1 .. LastId'
    <3>1. LastId \in Nat /\ Ids' \in SUBSET (1 .. LastId)
      BY <1>2 DEF TaskInv, Made
    <3>2. LastId' = Last(Ids')
      BY DEF LastId, Last
    <3>3. Last(Ids') \in 0 .. LastId /\ Ids' \subseteq 1 .. Last(Ids')
      BY <3>1, LastOfAll
    <3> QED
      BY <3>1, <3>2, <3>3
  <2>2. \A k \in DOMAIN plans : k \in DOMAIN plans'
    BY DEF ApprovalsStay
  <2> QED
    BY <1>2, <2>1, <2>2 DEF TaskInv, Made
<1>5. Whole'
  BY <1>1, <1>2, <1>3, WholeStays DEF TaskInv
<1>6. NoDoubleMaterialization'
  BY <1>2 DEF TaskInv, NoDoubleMaterialization
<1>7. Leftover'
  <2> SUFFICES ASSUME NEW t \in Ids', ~Approved(tasks[t].plan)'
               PROVE  /\ tasks'[t].status = "TODO"
                      /\ ~(plans'[tasks'[t].plan].fresh \/ fails' = 0)
    BY DEF Leftover
  <2>1. t \in Ids /\ tasks'[t] = tasks[t] /\ tasks[t].plan \in DOMAIN plans
    BY <1>2 DEF TaskInv, Made
  <2>2. ~Approved(tasks[t].plan) /\ (plans'[tasks[t].plan].fresh => plans[tasks[t].plan].fresh)
    BY <2>1 DEF ApprovalsStay, Approved
  <2>3. /\ tasks[t].status = "TODO"
        /\ plans[tasks[t].plan].fresh \/ fails = 0 => tasks[t].plan = plan
    BY <2>1, <2>2 DEF TaskInv, Leftover
  <2>4. tasks[t].plan = plan => plans'[plan].fresh = FALSE /\ fails' # 0
    BY <1>3
  <2> QED
    BY <2>1, <2>2, <2>3, <2>4
<1>8. InWork'
  BY DEF InWork
<1> QED
  BY <1>4, <1>5, <1>6, <1>7, <1>8 DEF TaskInv

LEMMA WriteApprovalKeeps ==
  ASSUME PlanInv, KindInv, ControlInv, TaskInv, WriteApproval
  PROVE  TaskInv'
<1>1. PICK g, o : g = plans[plan].deps /\ o = Order(g)
  OBVIOUS
<1>2. At("writing") /\ todo = << >> /\ UNCHANGED <<tasks, fails>> /\ at' \in {"run", "idle"}
  BY DEF WriteApproval, AfterApproval, Ends, Goto, bounds
<1>3. /\ plan \in DOMAIN plans /\ ~Approved(plan) /\ Sound(g)
      /\ Count \in Nat /\ Base \in Nat /\ LastId = Base + Count
      /\ Len(o) = Count + Len(todo)
      /\ \A p : IdOf(p) = Base + Place(g, p)
  BY <1>1, <1>2, UnderApproval
<1>4. /\ Base + 1 .. LastId \subseteq Ids
      /\ \A m \in 1 .. Count : tasks[Base + m] = TaskOf(o[m])
      /\ \A t \in Ids : tasks[t].plan = plan <=> t > Base
  BY <1>1, <1>2 DEF TaskInv, InWork
<1>5. Count = Len(g) /\ LastId = Base + Len(g) /\ Len(g) \in Nat \ {0} /\ DOMAIN g = 1 .. Len(g)
  <2>1. Len(o) = Len(g) /\ Len(g) \in Nat \ {0} /\ DOMAIN g = 1 .. Len(g)
    BY <1>1, <1>3, OrderSound
  <2>2. Len(todo) = 0
    BY <1>2, EmptySeq
  <2> QED
    BY <1>3, <2>1, <2>2
<1>6. /\ DOMAIN plans' = DOMAIN plans
      /\ \A k \in DOMAIN plans : k # plan => SameRecord(plans'[k], plans[k])
      /\ \A k \in DOMAIN plans : plans'[k].fresh = FALSE
      /\ plans'[plan].deps = g /\ plans'[plan].ids = [p \in DOMAIN g |-> IdOf(p)]
  BY <1>1, <1>3, ApprovalRecorded
<1>7. PICK ids : ids = plans'[plan].ids
  OBVIOUS
<1>8. /\ DOMAIN ids = DOMAIN g /\ ids # NoIds
      /\ \A p \in DOMAIN g : ids[p] = Base + Place(g, p)
  <2>1. DOMAIN ids = DOMAIN g /\ \A p \in DOMAIN g : ids[p] = Base + Place(g, p)
    BY <1>3, <1>6, <1>7
  <2>2. DOMAIN NoIds = {} /\ 1 \in DOMAIN g
    BY <1>5 DEF NoIds
  <2> QED
    BY <2>1, <2>2
<1>9. /\ \A p \in DOMAIN g : Place(g, p) \in 1 .. Len(g) /\ o[Place(g, p)] = p
      /\ \A n \in 1 .. Len(g) : Place(g, o[n]) = n /\ o[n] \in DOMAIN g
      /\ \A p \in DOMAIN g : \A d \in g[p] : d \in DOMAIN g /\ Place(g, d) < Place(g, p)
  <2>1. \A n \in 1 .. Len(g) : o[n] \in DOMAIN g
    <3>1. o \in [1 .. Len(g) -> 1 .. Len(g)]
      BY <1>1, <1>3, OrderSound
    <3> QED
      BY <1>5, <3>1
  <2> QED
    BY <1>1, <1>3, <2>1, PlaceSound
<1>10. ASSUME NEW p \in DOMAIN g
       PROVE  /\ ids[p] \in Ids /\ tasks[ids[p]].plan = plan /\ tasks[ids[p]].prop = p
              /\ tasks[ids[p]].deps = {ids[d] : d \in g[p]}
              /\ \A d \in g[p] : ids[d] < ids[p]
  <2>1. PICK m \in 1 .. Len(g) : m = Place(g, p) /\ o[m] = p /\ ids[p] = Base + m
    BY <1>8, <1>9, <1>10
  <2>2. Base + m \in Ids /\ tasks[ids[p]] = TaskOf(p)
    <3>1. Base + m \in Base + 1 .. LastId /\ m \in 1 .. Count
      BY <1>3, <1>5, <2>1
    <3> QED
      BY <1>4, <2>1, <3>1
  <2>3. /\ TaskOf(p).plan = plan /\ TaskOf(p).prop = p
        /\ TaskOf(p).deps = {IdOf(d) : d \in g[p]}
    BY <1>1 DEF TaskOf
  <2>4. \A d \in g[p] : d \in DOMAIN g /\ IdOf(d) = ids[d] /\ Place(g, d) < Place(g, p)
    BY <1>3, <1>8, <1>9, <1>10
  <2>5. {IdOf(d) : d \in g[p]} = {ids[d] : d \in g[p]}
    BY <2>4
  <2>6. ASSUME NEW d \in g[p] PROVE ids[d] < ids[p]
    <3>1. /\ ids[d] = Base + Place(g, d) /\ ids[p] = Base + Place(g, p)
          /\ Place(g, d) < Place(g, p) /\ Place(g, d) \in Nat /\ Place(g, p) \in Nat
      BY <1>8, <1>9, <1>10, <2>4, <2>6
    <3> QED
      BY <1>3, <3>1
  <2> QED
    BY <2>1, <2>2, <2>3, <2>5, <2>6
<1>11. ASSUME NEW t \in Ids, tasks[t].plan = plan
       PROVE  tasks[t].prop \in DOMAIN g /\ ids[tasks[t].prop] = t
  <2>1. t \in 1 .. LastId /\ t > Base
    BY <1>4, <1>11 DEF TaskInv, Made
  <2>2. PICK m \in 1 .. Len(g) : t = Base + m
    <3>1. t - Base \in 1 .. Len(g) /\ t = Base + (t - Base)
      BY <1>3, <1>5, <2>1
    <3> QED
      BY <3>1
  <2>3. tasks[t] = TaskOf(o[m])
    BY <1>4, <1>5, <2>2
  <2>4. tasks[t].prop = o[m]
    BY <2>3 DEF TaskOf
  <2>5. o[m] \in DOMAIN g /\ ids[o[m]] = Base + m
    BY <1>8, <1>9
  <2> QED
    BY <2>2, <2>4, <2>5
<1>12. Ids' = Ids /\ LastId' = LastId
  BY <1>2 DEF Ids, LastId
<1>13. Made'
  BY <1>2, <1>6, <1>12 DEF TaskInv, Made
<1>14. Whole'
  <2>1. ASSUME NEW k \in DOMAIN plans, k # plan, Approved(k)'
        PROVE  /\ Approved(k) /\ plans'[k].ids = plans[k].ids /\ plans'[k].deps = plans[k].deps
    BY <1>6, <2>1 DEF SameRecord, Approved
  <2>2. ASSUME NEW k \in DOMAIN plans', Approved(k)'
        PROVE  /\ DOMAIN plans'[k].ids = DOMAIN plans'[k].deps
               /\ \A p \in DOMAIN plans'[k].deps :
                    LET t == plans'[k].ids[p] IN
                      /\ t \in Ids' /\ tasks'[t].plan = k /\ tasks'[t].prop = p
                      /\ tasks'[t].deps = {plans'[k].ids[d] : d \in plans'[k].deps[p]}
                      /\ \A d \in plans'[k].deps[p] : plans'[k].ids[d] < t
               /\ \A t \in Ids' : tasks'[t].plan = k =>
                    /\ tasks'[t].prop \in DOMAIN plans'[k].deps
                    /\ plans'[k].ids[tasks'[t].prop] = t
    <3>1. CASE k = plan
      <4>1. plans'[k].ids = ids /\ plans'[k].deps = g /\ tasks' = tasks /\ Ids' = Ids
        BY <1>2, <1>6, <1>7, <1>12, <3>1
      <4> QED
        BY <1>8, <1>10, <1>11, <3>1, <4>1
    <3>2. CASE k # plan
      <4>1. /\ k \in DOMAIN plans /\ Approved(k) /\ plans'[k].ids = plans[k].ids
            /\ plans'[k].deps = plans[k].deps /\ tasks' = tasks /\ Ids' = Ids
        BY <1>2, <1>6, <1>12, <2>1, <2>2, <3>2
      <4>2. /\ DOMAIN plans[k].ids = DOMAIN plans[k].deps
            /\ \A p \in DOMAIN plans[k].deps :
                 LET t == plans[k].ids[p] IN
                   /\ t \in Ids /\ tasks[t].plan = k /\ tasks[t].prop = p
                   /\ tasks[t].deps = {plans[k].ids[d] : d \in plans[k].deps[p]}
                   /\ \A d \in plans[k].deps[p] : plans[k].ids[d] < t
            /\ \A t \in Ids : tasks[t].plan = k =>
                 tasks[t].prop \in DOMAIN plans[k].deps /\ plans[k].ids[tasks[t].prop] = t
        BY <4>1 DEF TaskInv, Whole
      <4> QED
        BY <4>1, <4>2
    <3> QED
      BY <3>1, <3>2
  <2> QED
    BY <2>2 DEF Whole
<1>15. Leftover'
  <2> SUFFICES ASSUME NEW t \in Ids, ~Approved(tasks[t].plan)'
               PROVE  /\ tasks[t].status = "TODO"
                      /\ ~(plans'[tasks[t].plan].fresh \/ fails = 0)
    BY <1>2, <1>12 DEF Leftover, TaskInv
  <2>1. tasks[t].plan \in DOMAIN plans /\ tasks'[t].plan = tasks[t].plan
    BY <1>2 DEF TaskInv, Made
  <2>2. tasks[t].plan # plan
    BY <1>7, <1>8, <2>1 DEF Approved
  <2>3. ~Approved(tasks[t].plan) /\ plans'[tasks[t].plan].fresh = FALSE
    BY <1>6, <2>1, <2>2 DEF SameRecord, Approved
  <2> QED
    BY <2>2, <2>3 DEF TaskInv, Leftover
<1>16. InWork' /\ NoDoubleMaterialization'
  BY <1>2, <1>12 DEF InWork, At, TaskInv, NoDoubleMaterialization
<1> QED
  BY <1>13, <1>14, <1>15, <1>16 DEF TaskInv

\* Only approving a plan takes the command into the writing of files, and from
\* there nothing but an edit, a death or the approval's own steps follows.
LEMMA WritingMoves ==
  ASSUME ControlInv, WorkflowNext, fails \in Nat,
         ~(Approve \/ WriteTask \/ WriteTaskFails \/ RollbackFails \/ WriteApproval)
  PROVE  /\ fails' \in {fails, fails + 1}
         /\ \/ ~At("writing") /\ ~At("writing")'
            \/ Edit
            \/ At("writing") /\ Crash
<1> USE DEF disk, memory, bounds, At, Goto, Idle
<1>1. CASE Planning
  BY <1>1 DEF Planning, NextPhase, NoBudget, Launch, Current, Reenter, PlannerReturns, NoQuestions,
     Unanswered, Answer, PlanAnew, Ends
<1>2. CASE AlreadyApproved \/ Refuse \/ Stop
  BY <1>2 DEF AlreadyApproved, AfterApproval, Refuse, Stop, Ends
<1>3. CASE RunTask
  BY <1>3 DEF RunTask, Work, Ends
<1>4. CASE GoalKnown \/ ReviewGoal \/ GoalReviewed \/ GoalUnavailable
  BY <1>4 DEF GoalKnown, ReviewGoal, GoalReviewed, GoalUnavailable, Completed, Ends
<1>5. CASE NoTask \/ GoalMissed \/ GoalReplan
  BY <1>5 DEF NoTask, GoalMissed, GoalReplan, Ends
<1>6. CASE Done \/ ReplansUsedUp \/ Replan \/ DropTask \/ Superseded
  BY <1>6 DEF Done, ReplansUsedUp, Replan, DropTask, Superseded, PlanAnew, Ends
<1>7. CASE Command
  BY <1>7 DEF Command, Start, Plan, PlanApprove, ExecutePlan, Enter
<1>8. CASE Edit \/ Crash
  BY <1>8 DEF Edit, Crash, Ends
<1> QED
  BY <1>1, <1>2, <1>3, <1>4, <1>5, <1>6, <1>7, <1>8
  DEF WorkflowNext, Step, Approving, Executing, Closing

LEMMA TasksKeep ==
  ASSUME PhaseInv, PlanInv, KindInv, ControlInv, DropInv, TaskInv, WorkflowNext
  PROVE  TaskInv'
<1>1. fails \in Nat
  BY DEF TaskInv, Leftover
<1>2. CASE Approve \/ WriteTask \/ WriteApproval
  BY <1>2, ApproveKeeps, WriteTaskKeeps, WriteApprovalKeeps
<1>3. CASE WriteTaskFails
  <2>1. /\ At("writing") /\ ~At("writing")' /\ UNCHANGED <<plans, fails>>
        /\ tasks' = [t \in (Ids \ Written) \cup {} |-> tasks[t]]
    BY <1>3 DEF WriteTaskFails, Ends, At, bounds
  <2>2. ApprovalsStay
    BY <2>1 DEF ApprovalsStay
  <2>3. {} \in SUBSET Written /\ fails' \in Nat /\ (fails' = 0 => fails = 0)
    BY <1>1, <2>1
  <2> QED
    BY <2>1, <2>2, <2>3, RemovalKeeps
<1>4. CASE RollbackFails
  <2>1. /\ At("writing") /\ ~At("writing")' /\ Changed /\ fails' = fails + 1
    BY <1>4 DEF RollbackFails, Ends, At
  <2>2. PICK stuck \in SUBSET Written : tasks' = [t \in (Ids \ Written) \cup stuck |-> tasks[t]]
    BY <1>4 DEF RollbackFails
  <2>3. ApprovalsStay
    BY <2>1, Outdates DEF SamePlans, SameRecord, ApprovalsStay
  <2>4. plan \in DOMAIN plans
    BY <2>1 DEF ControlInv, OnPlan, At
  <2>5. plans'[plan].fresh = FALSE
    BY <2>1, <2>4, Outdates DEF Changed
  <2>6. fails' \in Nat /\ fails' # 0
    BY <1>1, <2>1
  <2> QED
    BY <2>1, <2>2, <2>3, <2>5, <2>6, RemovalKeeps
<1>5. CASE ~(Approve \/ WriteTask \/ WriteTaskFails \/ RollbackFails \/ WriteApproval)
  <2>1. SameTasks /\ ApprovalsStay
    BY <1>5, TasksMove, ApprovalsKept
  <2>2. fails' \in Nat /\ (fails' = 0 => fails = 0)
    BY <1>1, <1>5, WritingMoves
  <2>3. CASE ~At("writing") /\ ~At("writing")'
    BY <2>1, <2>2, <2>3, TaskInvStays
  <2>4. CASE At("writing") /\ Edit
    <3>1. plan \in DOMAIN plans /\ Changed /\ UNCHANGED <<tasks, at, plan, todo>>
      BY <2>4 DEF Edit, memory, At, ControlInv, OnPlan
    <3>2. plans'[plan].deps = plans[plan].deps
      BY <3>1, Outdates DEF SamePlans, SameRecord
    <3> QED
      BY <2>1, <2>2, <2>4, <3>1, <3>2, TaskInvStays
  <2>5. CASE At("writing") /\ Crash
    <3>1. /\ ~At("writing")' /\ fails' = fails + 1 /\ plan \in DOMAIN plans
          /\ Written # {} => Changed
      BY <2>5 DEF Crash, Ends, At, ControlInv, OnPlan
    <3>2. ASSUME NEW t \in Ids, tasks[t].plan = plan PROVE plans'[plan].fresh = FALSE
      <4>1. Written # {}
        BY <2>5, <3>2, UnderApproval
      <4> QED
        BY <3>1, <4>1, Outdates DEF Changed
    <3>3. fails' # 0
      BY <1>1, <3>1
    <3> QED
      BY <2>1, <2>2, <3>1, <3>2, <3>3, TaskInvStays
  <2>6. CASE ~At("writing") /\ Edit
    <3>1. ~At("writing")'
      BY <2>6 DEF Edit, memory, At
    <3> QED
      BY <2>3, <2>6, <3>1
  <2> QED
    BY <1>1, <1>5, <2>3, <2>4, <2>5, <2>6, WritingMoves
<1> QED
  BY <1>2, <1>3, <1>4, <1>5

LEMMA DropsKeep ==
  ASSUME PhaseInv, PlanInv, KindInv, ControlInv, DropInv, TaskInv, WorkflowNext
  PROVE  DropInv'
<1> USE DEF At, Goto, Idle, disk, memory, bounds
<1>1. ASSUME at = "superseding", UNCHANGED <<at, plan, todo>>,
             plans'[plan].ids = plans[plan].ids,
             \A t \in IdsOf(plan) : tasks[t].status \in Closed => tasks'[t].status \in Closed
      PROVE  DropInv'
  <2>1. IdsOf(plan)' = IdsOf(plan)
    BY <1>1 DEF IdsOf
  <2> QED
    BY <1>1, <2>1 DEF DropInv
<1>2. CASE Edit
  <2>1. at = "superseding" => plan \in DOMAIN plans
    BY DEF ControlInv, OnPlan
  <2>2. at = "superseding" => plans'[plan].ids = plans[plan].ids
    BY <1>2, <2>1, Outdates DEF Edit, SamePlans, SameRecord
  <2>3. UNCHANGED <<tasks, at, plan, todo>>
    BY <1>2 DEF Edit
  <2>4. CASE at = "superseding"
    BY <1>1, <2>2, <2>3, <2>4
  <2>5. CASE at # "superseding"
    BY <2>3, <2>5 DEF DropInv
  <2> QED
    BY <2>4, <2>5
<1>3. CASE Replan
  <2>1. plan \in DOMAIN plans /\ Approved(plan)
    BY <1>3 DEF Replan, ControlInv, OnPlan, Executed
  <2>2. LastId \in Nat /\ IdsOf(plan) \in SUBSET (1 .. LastId)
    BY <2>1, PlanTasks
  <2>3. /\ InOrder(IdsOf(plan)) \in Seq(IdsOf(plan))
        /\ \A t \in IdsOf(plan) :
             \E n \in 1 .. Len(InOrder(IdsOf(plan))) : InOrder(IdsOf(plan))[n] = t
    BY <2>2, InOrderAll
  <2>4. IdsOf(plan)' = IdsOf(plan) /\ todo' = InOrder(IdsOf(plan))
    BY <1>3 DEF Replan, IdsOf
  <2> QED
    BY <2>3, <2>4 DEF DropInv
<1>4. CASE DropTask
  <2>1. at = "superseding" /\ UNCHANGED <<at, plan>> /\ todo # << >>
    BY <1>4 DEF DropTask
  <2>2. PICK t \in IdsOf(plan) :
          /\ t = Head(todo) /\ t \in Ids /\ tasks[t].plan = plan
          /\ \/ tasks[t].status \in Closed /\ todo' = Tail(todo) /\ UNCHANGED <<plans, tasks>>
             \/ SetStatus(t, "BLOCKED") /\ UNCHANGED todo
                  /\ tasks[t].status \in {"IN_PROGRESS", "REVIEW"}
             \/ SetStatus(t, "DROPPED") /\ todo' = Tail(todo) /\ tasks[t].status \notin Closed
    BY <1>4, DropSets
  <2>3. plan \in DOMAIN plans /\ Approved(plan) /\ todo \in Seq(IdsOf(plan))
    BY <1>4, DropSets
  <2>4. IdsOf(plan)' = IdsOf(plan)
    <3>1. UNCHANGED plans \/ Changed
      BY <2>2 DEF SetStatus
    <3>2. plans'[plan].ids = plans[plan].ids
      BY <2>3, <3>1, Outdates DEF SamePlans, SameRecord
    <3> QED
      BY <2>1, <3>2 DEF IdsOf
  <2>5. Made /\ {"BLOCKED", "DROPPED"} \subseteq Statuses /\ IdsOf(plan) \subseteq Ids
    BY <2>3, PlanTasks DEF TaskInv, Statuses
  <2>6. ASSUME todo' = Tail(todo), tasks'[t].status \in Closed,
               \A u \in Ids : u # t => tasks'[u] = tasks[u]
        PROVE  DropInv'
    <3>1. /\ todo' \in Seq(IdsOf(plan)) /\ Len(todo') = Len(todo) - 1 /\ Len(todo) \in Nat
          /\ \A n \in 1 .. Len(todo') : todo'[n] = todo[n + 1]
          /\ Head(todo) = todo[1]
      BY <2>1, <2>3, <2>6, HeadTailProperties, LenProperties
    <3>2. ASSUME NEW u \in IdsOf(plan), tasks'[u].status \notin Closed
          PROVE  \E n \in 1 .. Len(todo') : todo'[n] = u
      <4>1. u # t /\ tasks'[u] = tasks[u]
        BY <2>5, <2>6, <3>2
      <4>2. PICK n \in 1 .. Len(todo) : todo[n] = u
        BY <2>1, <3>2, <4>1 DEF DropInv
      <4>3. n - 1 \in 1 .. Len(todo') /\ todo'[n - 1] = u
        <5>1. n # 1
          BY <2>2, <3>1, <4>1, <4>2
        <5>2. n - 1 \in 1 .. Len(todo') /\ (n - 1) + 1 = n
          BY <3>1, <4>2, <5>1
        <5> QED
          BY <3>1, <4>2, <5>2
      <4> QED
        BY <4>3
    <3> QED
      BY <2>4, <3>1, <3>2 DEF DropInv
  <2>7. CASE tasks[t].status \in Closed /\ todo' = Tail(todo) /\ UNCHANGED <<plans, tasks>>
    BY <2>6, <2>7
  <2>8. CASE SetStatus(t, "BLOCKED") /\ UNCHANGED todo
               /\ tasks[t].status \in {"IN_PROGRESS", "REVIEW"}
    <3>1. \A u \in Ids : u # t => tasks'[u] = tasks[u]
      BY <2>2, <2>3, <2>5, <2>8, StatusSet
    <3>2. tasks[t].status \notin Closed
      BY <2>8 DEF Closed
    <3>3. \A u \in IdsOf(plan) : tasks[u].status \in Closed => tasks'[u].status \in Closed
      BY <2>5, <3>1, <3>2
    <3> QED
      BY <2>1, <2>4, <2>8, <3>3 DEF DropInv
  <2>9. CASE SetStatus(t, "DROPPED") /\ todo' = Tail(todo)
    <3>1. tasks'[t].status = "DROPPED" /\ \A u \in Ids : u # t => tasks'[u] = tasks[u]
      BY <2>2, <2>3, <2>5, <2>9, StatusSet
    <3> QED
      BY <2>6, <2>9, <3>1 DEF Closed
  <2> QED
    BY <2>2, <2>7, <2>8, <2>9
<1>5. CASE ~(Edit \/ Replan \/ DropTask)
  <2>1. CASE at' # "superseding"
    BY <2>1 DEF DropInv
  <2>2. CASE at' = "superseding"
    <3>1. ~Planning
      BY <2>2 DEF Planning, NextPhase, NoBudget, Launch, Current, Reenter, PlannerReturns,
         NoQuestions, Unanswered, Answer, PlanAnew, Ends
    <3>2. ~Approving
      BY <2>2 DEF Approving, AlreadyApproved, AfterApproval, Refuse, Approve, WriteTask,
         WriteTaskFails, RollbackFails, WriteApproval, Ends
    <3>3. ~Executing
      BY <2>2 DEF Executing, RunTask, Work, NoTask, GoalKnown, ReviewGoal, GoalReviewed,
         GoalUnavailable, GoalMissed, GoalReplan, Completed, Ends
    <3>4. ~(Done \/ ReplansUsedUp \/ Superseded \/ Stop \/ Crash)
      BY <2>2 DEF Done, ReplansUsedUp, Superseded, PlanAnew, Stop, Crash, Ends
    <3>5. ~Command
      BY <2>2 DEF Command, Start, Plan, PlanApprove, ExecutePlan, Enter
    <3> QED
      BY <1>5, <3>1, <3>2, <3>3, <3>4, <3>5 DEF WorkflowNext, Step, Closing
  <2> QED
    BY <2>1, <2>2
<1> QED
  BY <1>2, <1>3, <1>4, <1>5

-----------------------------------------------------------------------------
(* A plan becomes Tasks, and is made Tasks once.                           *)

WorkflowInv == PhaseInv /\ PlanInv /\ KindInv /\ ControlInv /\ DropInv /\ TaskInv

LEMMA WorkflowKeeps ==
  ASSUME WorkflowInv, WorkflowNext
  PROVE  WorkflowInv'
BY PhaseKeeps, PlansKeep, KindsKeep, ControlKeeps, DropsKeep, TasksKeep DEF WorkflowInv

LEMMA WorkflowStarts ==
  ASSUME Init
  PROVE  KindInv /\ ControlInv /\ DropInv /\ TaskInv
<1> USE DEF Init
<1>1. DOMAIN plans = {} /\ DOMAIN tasks = {} /\ Ids = {}
  BY DEF Ids
<1>2. KindInv
  BY <1>1 DEF KindInv
<1>3. ControlInv
  <2>1. \A p \in 1 .. Phases : saved[p].plan = 0
    BY DEF NewPhase
  <2> QED
    BY <2>1 DEF ControlInv, OnPlan, Executed, Idle
<1>4. DropInv
  BY DEF DropInv, At
<1>5. Made /\ Whole /\ NoDoubleMaterialization
  <2>1. LastId = 0
    BY <1>1 DEF LastId
  <2>2. tasks = [t \in Ids |-> tasks[t]]
    BY <1>1
  <2> QED
    BY <1>1, <2>1, <2>2 DEF Made, Whole, NoDoubleMaterialization
<1>6. Leftover /\ InWork
  BY <1>1 DEF Leftover, InWork, At
<1> QED
  BY <1>2, <1>3, <1>4, <1>5, <1>6 DEF TaskInv

LEMMA WorkflowHolds == WorkflowSpec => []WorkflowInv
<1>1. KindInv /\ UNCHANGED workflowVars => KindInv'
  BY DEF KindInv, Approved, workflowVars, disk
<1>2. ControlInv /\ UNCHANGED workflowVars => ControlInv'
  BY DEF ControlInv, Idle, Approved, workflowVars, disk, memory
<1>3. DropInv /\ UNCHANGED workflowVars => DropInv'
  BY DEF DropInv, At, IdsOf, workflowVars, disk, memory
<1>4. TaskInv /\ UNCHANGED workflowVars => TaskInv'
  <2> SUFFICES ASSUME TaskInv, UNCHANGED workflowVars PROVE TaskInv'
    OBVIOUS
  <2>1. /\ UNCHANGED <<plans, tasks, at, plan, todo, fails>>
    BY DEF workflowVars, disk, memory, bounds
  <2>2. UNCHANGED <<Ids, LastId, Count, Base>>
    BY <2>1 DEF Ids, LastId, Count, Base
  <2>3. \A p : TaskOf(p)' = TaskOf(p)
    BY <2>1, <2>2 DEF TaskOf, IdOf
  <2>4. Made' /\ Whole' /\ NoDoubleMaterialization'
    BY <2>1, <2>2 DEF TaskInv, Made, Whole, NoDoubleMaterialization, IsTask, Approved
  <2>5. Leftover'
    BY <2>1, <2>2 DEF TaskInv, Leftover, Approved, At
  <2>6. InWork'
    BY <2>1, <2>2, <2>3 DEF TaskInv, InWork, At
  <2> QED
    BY <2>4, <2>5, <2>6 DEF TaskInv
<1>5. Init => KindInv /\ ControlInv /\ DropInv /\ TaskInv
  BY WorkflowStarts
<1>6. WorkflowInv /\ [WorkflowNext]_workflowVars
        => (PhaseInv /\ PlanInv => (KindInv /\ ControlInv /\ DropInv /\ TaskInv)')
  BY <1>1, <1>2, <1>3, <1>4, WorkflowKeeps DEF WorkflowInv
<1> QED
  BY <1>5, <1>6, PhasesHold, PlansHold, PTL DEF WorkflowSpec, WorkflowInv

\* A plan that is approved has one Task for each proposal, each after those it
\* depends on, and one that is not has none unless a death or a failure to undo
\* came, for any graph of proposals, and wherever an approval died.
THEOREM ApprovedWhole == WorkflowSpec => []AllOrNothing
<1>1. ASSUME WorkflowInv PROVE AllOrNothing
  <2>1. ASSUME NEW k \in DOMAIN plans, Approved(k)
        PROVE  LET ids == plans[k].ids IN
                 /\ DOMAIN ids = DOMAIN plans[k].deps
                 /\ \A p \in DOMAIN ids :
                      /\ tasks[ids[p]].plan = k /\ tasks[ids[p]].prop = p
                      /\ tasks[ids[p]].deps = {ids[d] : d \in plans[k].deps[p]}
                      /\ \A d \in plans[k].deps[p] : ids[d] < ids[p]
    BY <1>1, <2>1 DEF WorkflowInv, TaskInv, Whole
  <2>2. fails = 0 /\ ~At("writing") => \A t \in Ids : Approved(tasks[t].plan)
    BY <1>1 DEF WorkflowInv, TaskInv, Leftover
  <2> QED
    BY <2>1, <2>2 DEF AllOrNothing
<1> QED
  BY <1>1, WorkflowHolds, PTL

\* None of the proposals of a plan becomes two Tasks, however often it is
\* approved, by start or by hand, and wherever an approval failed or died.
THEOREM MaterializedOnce == WorkflowSpec => []NoDoubleMaterialization
<1>1. WorkflowInv => NoDoubleMaterialization
  BY DEF WorkflowInv, TaskInv
<1> QED
  BY <1>1, WorkflowHolds, PTL

-----------------------------------------------------------------------------
(* The order of the work.                                                  *)

\* A step that executes and drops nothing writes one Task, or removes what was written,
\* or leaves them alone.
Kept ==
  /\ \A u \in Ids' : \/ u \in Ids /\ tasks'[u] = tasks[u]
                     \/ /\ u \notin Ids /\ WriteTask /\ tasks'[u].plan = plan
                        /\ tasks'[u].status = "TODO"
  /\ \A u \in Ids \ Ids' : tasks[u].status = "TODO" /\ ~Approved(tasks[u].plan)

\* The Tasks that a step may change: one that is executed, one that is dropped,
\* and those of an approval.
LEMMA StatusMoves ==
  ASSUME WorkflowInv, WorkflowNext
  PROVE  \/ RunTask
         \/ DropTask
         \/ Kept
<1> USE DEF Kept
<1>1. CASE UNCHANGED tasks
  BY <1>1 DEF Ids
<1>2. CASE WriteTask
  <2>1. TaskOf(Head(todo)).plan = plan /\ TaskOf(Head(todo)).status = "TODO"
    BY DEF TaskOf
  <2>2. LastId + 1 \notin Ids
    BY DEF WorkflowInv, TaskInv, Made
  <2>3. tasks' = [t \in Ids \cup {LastId + 1} |->
                    IF t = LastId + 1 THEN TaskOf(Head(todo)) ELSE tasks[t]]
    BY <1>2 DEF WriteTask
  <2>4. /\ Ids' = Ids \cup {LastId + 1} /\ tasks'[LastId + 1] = TaskOf(Head(todo))
        /\ \A u \in Ids : tasks'[u] = tasks[u]
    BY <2>2, <2>3 DEF Ids
  <2> QED
    BY <1>2, <2>1, <2>2, <2>4
<1>3. CASE WriteTaskFails \/ RollbackFails
  <2>1. At("writing")
    BY <1>3 DEF WriteTaskFails, RollbackFails
  <2>2. ~Approved(plan) /\ Written = {t \in Ids : tasks[t].plan = plan}
    BY <2>1, UnderApproval DEF WorkflowInv
  <2>3. \E stuck \in SUBSET Written : tasks' = [t \in (Ids \ Written) \cup stuck |-> tasks[t]]
    <3>1. CASE WriteTaskFails
      BY <3>1 DEF WriteTaskFails
    <3>2. CASE RollbackFails
      BY <3>2 DEF RollbackFails
    <3> QED
      BY <1>3, <3>1, <3>2
  <2>4. /\ \A u \in Ids' : u \in Ids /\ tasks'[u] = tasks[u]
        /\ \A u \in Ids \ Ids' : tasks[u].plan = plan
    BY <2>2, <2>3 DEF Ids
  <2>5. \A u \in Ids : tasks[u].plan = plan => tasks[u].status = "TODO"
    BY <2>2 DEF WorkflowInv, TaskInv, Leftover
  <2> QED
    BY <2>2, <2>4, <2>5
<1> USE DEF disk, memory, bounds
<1>4. CASE Planning
  BY <1>1, <1>4 DEF Planning, NextPhase, NoBudget, Launch, Reenter, PlannerReturns, NoQuestions,
     Unanswered, Answer, PlanAnew
<1>5. CASE AlreadyApproved \/ Refuse \/ Approve \/ WriteApproval
  BY <1>1, <1>5 DEF AlreadyApproved, Refuse, Approve, WriteApproval
<1>6. CASE NoTask \/ GoalKnown \/ ReviewGoal \/ GoalReviewed \/ GoalUnavailable
           \/ GoalMissed \/ GoalReplan
  BY <1>1, <1>6 DEF NoTask, GoalKnown, ReviewGoal, GoalReviewed, GoalUnavailable, GoalMissed,
     GoalReplan
<1>7. CASE Done \/ ReplansUsedUp \/ Replan \/ Superseded \/ Stop \/ Edit \/ Crash
  BY <1>1, <1>7 DEF Done, ReplansUsedUp, Replan, Superseded, PlanAnew, Stop, Edit, Crash
<1>8. CASE Command
  BY <1>1, <1>8 DEF Command, Start, Plan, PlanApprove, ExecutePlan, Enter
<1> QED
  BY <1>2, <1>3, <1>4, <1>5, <1>6, <1>7, <1>8 DEF WorkflowNext, Step, Approving, Executing, Closing

\* A step sets the status of at most one Task, which is not finished.
Sets(t) ==
  /\ t \in Ids /\ Ids' = Ids /\ \A u \in Ids : u # t => tasks'[u] = tasks[u]
  /\ tasks'[t].plan = tasks[t].plan /\ tasks'[t].deps = tasks[t].deps
  /\ tasks[t].plan = plan /\ plan \in DOMAIN plans /\ Approved(plan)
  /\ tasks[t].status \notin Closed
  /\ \/ At("run") /\ tasks'[t].status # "DROPPED" /\ (DepsMet(t) \/ tasks[t].status = "BLOCKED")
     \/ /\ At("superseding") /\ At("superseding")'
        /\ \/ tasks'[t].status = "BLOCKED" /\ tasks[t].status \in {"IN_PROGRESS", "REVIEW"}
           \/ tasks'[t].status = "DROPPED"

LEMMA StatusChanges ==
  ASSUME WorkflowInv, WorkflowNext
  PROVE  Kept \/ \E t \in Ids : Sets(t)
<1>1. Made /\ TaskInv /\ ControlInv /\ DropInv
  BY DEF WorkflowInv, TaskInv
<1>2. CASE RunTask
  <2>1. PICK t \in Picked, s \in Statuses :
          /\ t \in IdsOf(plan) /\ t \in Ids /\ tasks[t].plan = plan /\ plan \in DOMAIN plans
          /\ Approved(plan) /\ SetStatus(t, s) /\ s # "DROPPED"
    BY <1>1, <1>2, RunSets
  <2>2. /\ tasks[t].status \in {"BLOCKED", "IN_PROGRESS", "REVIEW", "TODO"}
        /\ DepsMet(t) \/ tasks[t].status = "BLOCKED"
    BY <2>1 DEF Picked, Resumable, Ready, With
  <2>3. /\ SameTasks /\ tasks'[t].status = s
        /\ \A u \in Ids : u # t => tasks'[u] = tasks[u]
    BY <1>1, <2>1, StatusSet
  <2>4. At("run")
    BY <1>2 DEF RunTask
  <2> QED
    BY <2>1, <2>2, <2>3, <2>4 DEF Sets, SameTasks, Closed, Ids
<1>3. CASE DropTask
  <2>1. At("superseding") /\ At("superseding")' /\ plan \in DOMAIN plans /\ Approved(plan)
    BY <1>1, <1>3, DropSets DEF DropTask, At
  <2>2. PICK t \in IdsOf(plan) :
          /\ t = Head(todo) /\ t \in Ids /\ tasks[t].plan = plan
          /\ \/ tasks[t].status \in Closed /\ todo' = Tail(todo) /\ UNCHANGED <<plans, tasks>>
             \/ SetStatus(t, "BLOCKED") /\ UNCHANGED todo
                  /\ tasks[t].status \in {"IN_PROGRESS", "REVIEW"}
             \/ SetStatus(t, "DROPPED") /\ todo' = Tail(todo) /\ tasks[t].status \notin Closed
    BY <1>1, <1>3, DropSets
  <2>3. CASE UNCHANGED tasks
    BY <2>3 DEF Kept, Ids
  <2>4. {"BLOCKED", "DROPPED"} \subseteq Statuses
    BY DEF Statuses
  <2>5. ASSUME NEW s \in Statuses, SetStatus(t, s), tasks[t].status \notin Closed,
               \/ s = "BLOCKED" /\ tasks[t].status \in {"IN_PROGRESS", "REVIEW"}
               \/ s = "DROPPED"
        PROVE  Sets(t)
    <3>1. /\ SameTasks /\ tasks'[t].status = s
          /\ \A u \in Ids : u # t => tasks'[u] = tasks[u]
      BY <1>1, <2>1, <2>2, <2>5, StatusSet
    <3> QED
      BY <2>1, <2>2, <2>5, <3>1 DEF Sets, SameTasks, Ids
  <2>6. CASE SetStatus(t, "BLOCKED") /\ tasks[t].status \in {"IN_PROGRESS", "REVIEW"}
    BY <2>2, <2>4, <2>5, <2>6 DEF Closed
  <2>7. CASE SetStatus(t, "DROPPED") /\ tasks[t].status \notin Closed
    BY <2>2, <2>4, <2>5, <2>7
  <2> QED
    BY <2>2, <2>3, <2>6, <2>7
<1> QED
  BY <1>2, <1>3, StatusMoves DEF Kept

\* What is finished stays as it is.
LEMMA ClosedStays ==
  ASSUME WorkflowInv, WorkflowNext, NEW t \in Ids, tasks[t].status \in Closed
  PROVE  t \in Ids' /\ tasks'[t].status = tasks[t].status /\ tasks'[t].plan = tasks[t].plan
<1>1. CASE Kept
  BY <1>1 DEF Kept, Closed
<1>2. ASSUME NEW u \in Ids, Sets(u)
      PROVE  t \in Ids' /\ tasks'[t].status = tasks[t].status /\ tasks'[t].plan = tasks[t].plan
  BY <1>2 DEF Sets
<1> QED
  BY <1>1, <1>2, StatusChanges

\* A Task that was begun had all that it depends on done.
BegunInv == \A t \in Ids :
  tasks[t].status \in {"IN_PROGRESS", "REVIEW", "BLOCKED", "DONE"} => DepsMet(t)

LEMMA BegunKeeps ==
  ASSUME WorkflowInv, BegunInv, WorkflowNext
  PROVE  BegunInv'
<1>1. ASSUME NEW t \in Ids, NEW u \in Ids', DepsMet(t), tasks'[u].deps = tasks[t].deps
      PROVE  DepsMet(u)'
  <2> SUFFICES ASSUME NEW d \in tasks[t].deps PROVE d \in Ids' /\ tasks'[d].status = "DONE"
    BY <1>1 DEF DepsMet
  <2>1. d \in Ids /\ tasks[d].status = "DONE"
    BY <1>1 DEF DepsMet
  <2> QED
    BY <2>1, ClosedStays DEF Closed
<1>2. CASE Kept
  <2> SUFFICES ASSUME NEW u \in Ids',
                      tasks'[u].status \in {"IN_PROGRESS", "REVIEW", "BLOCKED", "DONE"}
               PROVE  DepsMet(u)'
    BY DEF BegunInv
  <2>1. u \in Ids /\ tasks'[u] = tasks[u]
    BY <1>2 DEF Kept
  <2> QED
    BY <1>1, <2>1 DEF BegunInv
<1>3. ASSUME NEW t \in Ids, Sets(t) PROVE BegunInv'
  <2> SUFFICES ASSUME NEW u \in Ids',
                      tasks'[u].status \in {"IN_PROGRESS", "REVIEW", "BLOCKED", "DONE"}
               PROVE  DepsMet(u)'
    BY DEF BegunInv
  <2>1. CASE u # t
    <3>1. u \in Ids /\ tasks'[u] = tasks[u]
      BY <1>3, <2>1 DEF Sets
    <3> QED
      BY <1>1, <3>1 DEF BegunInv
  <2>2. CASE u = t
    <3>1. DepsMet(t) \/ tasks[t].status \in {"IN_PROGRESS", "REVIEW", "BLOCKED"}
      BY <1>3, <2>2 DEF Sets
    <3>2. DepsMet(t) /\ tasks'[t].deps = tasks[t].deps
      BY <1>3, <3>1 DEF BegunInv, Sets
    <3> QED
      BY <1>1, <2>2, <3>2
  <2> QED
    BY <2>1, <2>2
<1> QED
  BY <1>2, <1>3, StatusChanges

\* No Task is begun before those it depends on are done, for any graph, any way
\* an execution may stop, and any interleaving of commands and deaths.
THEOREM DependenciesFirst == WorkflowSpec => []DependenciesDone
<1>1. Init => BegunInv
  BY DEF Init, BegunInv, Ids
<1>2. BegunInv /\ UNCHANGED workflowVars => BegunInv'
  BY DEF BegunInv, DepsMet, Ids, workflowVars, disk
<1>3. BegunInv => DependenciesDone
  BY DEF BegunInv, DependenciesDone
<1> QED
  BY <1>1, <1>2, <1>3, BegunKeeps, WorkflowHolds, PTL DEF WorkflowSpec

-----------------------------------------------------------------------------
(* One plan at a time.                                                     *)

\* What the steps do to the phases' plans.
LEMMA SavedMoves ==
  ASSUME WorkflowInv, WorkflowNext, NEW p \in 1 .. Phases
  PROVE  \/ saved'[p] = saved[p]
         \/ /\ Launch /\ p = i /\ saved[p].plan = 0 /\ saved'[p].plan = Len(plans')
            /\ saved'[p].done = saved[p].done
         \/ /\ Answer \/ Superseded
            /\ p = i /\ saved[p].plan = plan /\ saved'[p].plan = 0
            /\ saved'[p].done = saved[p].done
         \/ Done /\ p = i /\ saved[p].plan = plan /\ saved'[p].plan = saved[p].plan
<1> USE DEF disk, memory, bounds, At, Goto
<1>1. /\ IsPhase(saved[p]) /\ phases = saved
      /\ saved = [q \in 1 .. Phases |-> saved[q]]
  BY DEF WorkflowInv, PhaseInv
<1>2. cmd = "start" /\ at # "head" => saved[i].plan = plan
  BY DEF WorkflowInv, ControlInv
<1>3. at \in ByStart => cmd = "start"
  BY DEF WorkflowInv, PhaseInv
<1>4. ASSUME NEW r, saved' = [saved EXCEPT ![i] = r] PROVE saved'[p] = IF p = i THEN r ELSE saved[p]
  BY <1>1, <1>4
<1>5. CASE Launch
  <2>1. PICK r : r = [saved[i] EXCEPT !.plan = Len(plans')] /\ saved' = [saved EXCEPT ![i] = r]
    BY <1>1, <1>5 DEF Launch, Save
  <2>2. p = i => r.plan = Len(plans') /\ r.done = saved[p].done
    BY <1>1, <2>1 DEF IsPhase
  <2>3. saved[i].plan = 0
    BY <1>1, <1>5 DEF Launch
  <2> QED
    BY <1>4, <1>5, <2>1, <2>2, <2>3
<1>6. CASE Answer
  <2>1. PICK r : /\ r = [saved[i] EXCEPT !.plan = 0, !.answers = @ + 1]
                 /\ saved' = [saved EXCEPT ![i] = r]
    BY <1>1, <1>6 DEF Answer, PlanAnew, Save
  <2>2. p = i => r.plan = 0 /\ r.done = saved[p].done
    BY <1>1, <2>1 DEF IsPhase
  <2>3. saved[i].plan = plan
    BY <1>2, <1>3, <1>6 DEF Answer, ByStart
  <2> QED
    BY <1>4, <1>6, <2>1, <2>2, <2>3
<1>7. CASE Superseded
  <2>1. PICK r : /\ r = [saved[i] EXCEPT !.plan = 0, !.replans = @ + 1]
                 /\ saved' = [saved EXCEPT ![i] = r]
    BY <1>1, <1>7 DEF Superseded, PlanAnew, Save
  <2>2. p = i => r.plan = 0 /\ r.done = saved[p].done
    BY <1>1, <2>1 DEF IsPhase
  <2>3. saved[i].plan = plan
    BY <1>2, <1>3, <1>7 DEF Superseded, ByStart
  <2> QED
    BY <1>4, <1>7, <2>1, <2>2, <2>3
<1>8. CASE Done
  <2>1. PICK r : r = [saved[i] EXCEPT !.done = TRUE] /\ saved' = [saved EXCEPT ![i] = r]
    BY <1>1, <1>8 DEF Done, Save
  <2>2. p = i => r.plan = saved[p].plan
    BY <1>1, <2>1 DEF IsPhase
  <2>3. saved[i].plan = plan
    BY <1>2, <1>3, <1>8 DEF Done, ByStart
  <2> QED
    BY <1>4, <1>8, <2>1, <2>2, <2>3
<1>9. CASE PlannerReturns
  BY <1>1, <1>9 DEF PlannerReturns, Save
<1>10. CASE NextPhase \/ NoBudget \/ Reenter \/ NoQuestions \/ Unanswered
  BY <1>10 DEF NextPhase, NoBudget, Reenter, NoQuestions, Unanswered
<1>11. CASE Approving
  BY <1>11 DEF Approving, AlreadyApproved, Refuse, Approve, WriteTask, WriteTaskFails,
     RollbackFails, WriteApproval
<1>12. CASE Executing
  BY <1>12 DEF Executing, RunTask, Work, NoTask, GoalKnown, ReviewGoal, GoalReviewed,
     GoalUnavailable, GoalMissed, GoalReplan
<1>13. CASE ReplansUsedUp \/ Replan \/ DropTask \/ Stop \/ Edit \/ Crash
  BY <1>13 DEF ReplansUsedUp, Replan, DropTask, Stop, Edit, Crash
<1>14. CASE Command
  BY <1>14 DEF Command, Start, Plan, PlanApprove, ExecutePlan, Enter
<1> QED
  BY <1>5, <1>6, <1>7, <1>8, <1>9, <1>10, <1>11, <1>12, <1>13, <1>14
  DEF WorkflowNext, Step, Planning, Closing

\* What the steps do to the kinds of plans.
LEMMA KindMoves ==
  ASSUME WorkflowInv, WorkflowNext, NEW k \in DOMAIN plans'
  PROVE  \/ /\ k \in DOMAIN plans /\ plans'[k].phase = plans[k].phase
            /\ (plans'[k].kind = plans[k].kind \/ (PlannerReturns /\ k = plan))
         \/ k \notin DOMAIN plans /\ plans'[k].kind = "running"
<1>1. PlanInv /\ KindInv /\ ControlInv
  BY DEF WorkflowInv
<1>2. CASE SamePlans
  BY <1>2 DEF SamePlans, SameRecord
<1>3. ASSUME NEW p, plans' = Append(plans, Launched(p))
      PROVE  \/ k \in DOMAIN plans /\ plans'[k] = plans[k]
             \/ k \notin DOMAIN plans /\ plans'[k].kind = "running"
  BY <1>1, <1>3, PlanLaunched DEF Launched
<1>4. CASE Plan \/ Launch
  BY <1>3, <1>4 DEF Plan, Launch
<1>5. CASE PlannerReturns
  <2>1. plan \in DOMAIN plans /\ plans[plan].phase \in 0 .. Phases
    BY <1>1, <1>5 DEF PlannerReturns, At, ControlInv, OnPlan, KindInv
  <2> QED
    BY <1>1, <1>5, <2>1, ResultRecorded
<1>6. CASE WriteApproval
  <2>1. plan \in DOMAIN plans
    BY <1>1, <1>6 DEF WriteApproval, At, ControlInv, OnPlan
  <2> QED
    BY <1>1, <1>6, <2>1, ApprovalRecorded DEF SameRecord
<1> QED
  BY <1>1, <1>2, <1>4, <1>5, <1>6, PlansMove

\* An approval is for good, and its Tasks are no others afterwards.
LEMMA ApprovedStays ==
  ASSUME WorkflowInv, WorkflowNext, NEW k \in DOMAIN plans, Approved(k)
  PROVE  /\ k \in DOMAIN plans' /\ Approved(k)' /\ plans'[k].phase = plans[k].phase
         /\ \A t \in Ids' : tasks'[t].plan = k =>
              t \in Ids /\ tasks[t].plan = k /\ (tasks'[t] = tasks[t] \/ Sets(t))
<1>1. PhaseInv /\ PlanInv /\ KindInv /\ ControlInv /\ TaskInv
  BY DEF WorkflowInv
<1>2. k \in DOMAIN plans' /\ plans'[k].phase = plans[k].phase
  BY <1>1, PlansKeep DEF PlansStay
<1>3. Approved(k)'
  <2>1. CASE WriteApproval
    <3>1. plan \in DOMAIN plans /\ ~Approved(plan)
      BY <1>1, <2>1 DEF WriteApproval, At, ControlInv, OnPlan
    <3> QED
      BY <1>1, <2>1, <3>1, ApprovalRecorded DEF SameRecord, Approved
  <2>2. CASE ~WriteApproval
    BY <1>1, <2>2, ApprovalsKept DEF ApprovalsStay, Approved
  <2> QED
    BY <2>1, <2>2
<1>4. ASSUME NEW t \in Ids', tasks'[t].plan = k
      PROVE  t \in Ids /\ tasks[t].plan = k /\ (tasks'[t] = tasks[t] \/ Sets(t))
  <2>1. CASE Kept
    <3>1. WriteTask => ~Approved(plan)
      BY <1>1 DEF WriteTask, At, ControlInv
    <3> QED
      BY <1>4, <2>1, <3>1 DEF Kept
  <2>2. ASSUME NEW u \in Ids, Sets(u)
        PROVE  t \in Ids /\ tasks[t].plan = k /\ (tasks'[t] = tasks[t] \/ Sets(t))
    BY <1>4, <2>2 DEF Sets
  <2> QED
    BY <2>1, <2>2, StatusChanges
<1> QED
  BY <1>2, <1>3, <1>4

\* Every Task of the plan has one of these statuses.
All(k, S) == \A t \in Ids : tasks[t].plan = k => tasks[t].status \in S

LEMMA AllStay ==
  ASSUME WorkflowInv, WorkflowNext, NEW k \in DOMAIN plans, Approved(k),
         NEW S \in SUBSET Closed, All(k, S)
  PROVE  All(k, S)'
<1> SUFFICES ASSUME NEW t \in Ids', tasks'[t].plan = k PROVE tasks'[t].status \in S
  BY DEF All
<1>1. t \in Ids /\ tasks[t].plan = k
  BY ApprovedStays
<1>2. tasks[t].status \in S /\ tasks[t].status \in Closed
  BY <1>1 DEF All
<1> QED
  BY <1>1, <1>2, ClosedStays

\* When a plan is replaced all its Tasks are finished.
LEMMA SupersededOver ==
  ASSUME WorkflowInv, Superseded
  PROVE  plan \in DOMAIN plans /\ Approved(plan) /\ All(plan, Closed)
<1>1. At("superseding") /\ todo = << >>
  BY DEF Superseded
<1>2. plan \in DOMAIN plans /\ Approved(plan)
  BY <1>1 DEF WorkflowInv, ControlInv, At, OnPlan, Executed
<1>3. \A t \in IdsOf(plan) : tasks[t].status \in Closed
  <2>1. Len(todo) = 0
    BY <1>1, EmptySeq
  <2> QED
    BY <1>1, <2>1 DEF WorkflowInv, DropInv
<1>4. All(plan, Closed)
  BY <1>2, <1>3, PlanTasks DEF All, WorkflowInv
<1> QED
  BY <1>2, <1>4

\* A plan that its phase no longer has is finished.
PhasePlanInv == \A k \in DOMAIN plans :
  plans[k].kind = "proposed" /\ plans[k].phase # 0 /\ saved[plans[k].phase].plan # k
    => Approved(k) /\ All(k, Closed)

LEMMA PhasePlansKeep ==
  ASSUME WorkflowInv, PhasePlanInv, WorkflowNext
  PROVE  PhasePlanInv'
<1> SUFFICES ASSUME NEW k \in DOMAIN plans', plans'[k].kind = "proposed", plans'[k].phase # 0,
                    saved'[plans'[k].phase].plan # k
             PROVE  Approved(k)' /\ All(k, Closed)'
  BY DEF PhasePlanInv
<1>1. /\ k \in DOMAIN plans /\ plans'[k].phase = plans[k].phase
      /\ (plans[k].kind = "proposed" \/ (PlannerReturns /\ k = plan))
  BY KindMoves
<1>2. PICK p \in 1 .. Phases : p = plans[k].phase
  BY <1>1, WorkflowAssumption DEF WorkflowInv, KindInv
<1>3. Closed \in SUBSET Closed
  OBVIOUS
<1>4. CASE Approved(k) /\ All(k, Closed)
  BY <1>1, <1>3, <1>4, AllStay, ApprovedStays
<1>5. CASE plans[k].kind = "proposed" /\ saved[p].plan # k
  BY <1>1, <1>2, <1>4, <1>5 DEF PhasePlanInv
<1>6. CASE plans[k].kind = "proposed" /\ saved[p].plan = k
  <2>1. saved'[p].plan # saved[p].plan
    BY <1>1, <1>2, <1>6
  <2>2. k # 0
    BY <1>1 DEF WorkflowInv, PlanInv
  <2>3. (Answer \/ Superseded) /\ p = i /\ saved[p].plan = plan
    BY <1>6, <2>1, <2>2, SavedMoves
  <2>4. ~Answer
    BY <1>6, <2>3 DEF Answer, HasQuestions
  <2> QED
    BY <1>4, <1>6, <2>3, <2>4, SupersededOver
<1>7. CASE plans[k].kind # "proposed"
  <2>1. PlannerReturns /\ k = plan
    BY <1>1, <1>7
  <2>2. cmd = "start" /\ saved[i].plan = plan /\ plans[plan].phase = i
    <3>1. cmd \in {"start", "plan"} /\ at = "planning"
      BY <2>1 DEF PlannerReturns, At, WorkflowInv, PhaseInv
    <3>2. cmd # "plan"
      BY <1>1, <2>1 DEF WorkflowInv, ControlInv
    <3> QED
      BY <3>1, <3>2 DEF WorkflowInv, ControlInv
  <2>3. saved' = saved
    BY <2>1, <2>2 DEF PlannerReturns, Save, WorkflowInv, PhaseInv
  <2> QED
    BY <1>1, <2>1, <2>2, <2>3
<1> QED
  BY <1>5, <1>6, <1>7

\* A phase that gets another plan has none of the Tasks of the old one left to be
\* executed, whoever asks for it and wherever the command died meanwhile.
THEOREM OnePlanAtATime == WorkflowSpec => []OnePlanPerPhase
<1>1. Init => PhasePlanInv
  BY DEF Init, PhasePlanInv
<1>2. PhasePlanInv /\ UNCHANGED workflowVars => PhasePlanInv'
  BY DEF PhasePlanInv, Approved, All, Ids, workflowVars, disk
<1>3. WorkflowInv /\ PhasePlanInv => OnePlanPerPhase
  BY DEF WorkflowInv, TaskInv, Made, IsTask, PhasePlanInv, All, OnePlanPerPhase
<1> QED
  BY <1>1, <1>2, <1>3, PhasePlansKeep, WorkflowHolds, PTL DEF WorkflowSpec

-----------------------------------------------------------------------------
(* Nothing dropped is waited for, and nothing dropped is called done.      *)

HasDropped(k) == \E t \in Ids : tasks[t].plan = k /\ tasks[t].status = "DROPPED"

\* The plan is being replaced, or was and is finished.
Replaced(k) ==
  /\ plans[k].phase \in 1 .. Phases /\ Approved(k)
  /\ \/ At("superseding") /\ plan = k
     \/ All(k, Closed) /\ saved[plans[k].phase].plan # k

\* Unless a death may come between a drop and the save, only then it has dropped Tasks.
DroppedInv == \A k \in DOMAIN plans : HasDropped(k) => Replaced(k)

LEMMA Superseding ==
  ASSUME WorkflowInv, WorkflowNext, At("superseding")
  PROVE  Superseded \/ Crash \/ (At("superseding")' /\ plan' = plan)
<1> USE DEF At, Goto, Idle, disk, memory
<1>1. CASE Planning \/ Approving \/ Executing
  BY <1>1 DEF Planning, NextPhase, NoBudget, Launch, Reenter, PlannerReturns, NoQuestions,
     Unanswered, Answer, Current, Approving, AlreadyApproved, Refuse, Approve, WriteTask,
     WriteTaskFails, RollbackFails, WriteApproval, Executing, RunTask, NoTask, GoalKnown,
     ReviewGoal, GoalReviewed, GoalUnavailable, GoalMissed, GoalReplan
<1>2. CASE Closing \/ Edit \/ Stop
  BY <1>2 DEF Closing, Done, ReplansUsedUp, Replan, DropTask, Edit, Stop
<1>3. CASE Command
  BY <1>3 DEF Command, Start, Plan, PlanApprove, ExecutePlan, Enter
<1> QED
  BY <1>1, <1>2, <1>3 DEF WorkflowNext, Step

LEMMA DroppedKeeps ==
  ASSUME DropGap = FALSE, WorkflowInv, DroppedInv, WorkflowNext
  PROVE  DroppedInv'
<1> SUFFICES ASSUME NEW k \in DOMAIN plans', HasDropped(k)' PROVE Replaced(k)'
  BY DEF DroppedInv
<1>1. PICK t \in Ids' : tasks'[t].plan = k /\ tasks'[t].status = "DROPPED"
  BY DEF HasDropped
<1>2. ASSUME NEW u \in Ids, Sets(u), t = u PROVE Replaced(k)'
  <2>1. /\ k = plan /\ plan \in DOMAIN plans /\ Approved(plan)
        /\ At("superseding") /\ At("superseding")'
    BY <1>1, <1>2 DEF Sets
  <2>2. ~Superseded /\ ~Crash
    BY <2>1 DEF Superseded, PlanAnew, Crash, Ends, At, Goto
  <2>3. plan' = plan
    BY <2>1, <2>2, Superseding
  <2>4. plans[plan].phase \in 1 .. Phases
    <3>1. cmd = "start"
      BY <2>1 DEF WorkflowInv, PhaseInv, At, ByStart
    <3>2. plans[plan].phase = i /\ i \in 1 .. Phases + 1 /\ i # Phases + 1
      BY <2>1, <3>1 DEF WorkflowInv, PhaseInv, ControlInv, At
    <3> QED
      BY <3>2, WorkflowAssumption
  <2>5. Approved(k)' /\ plans'[k].phase = plans[k].phase
    BY <2>1, ApprovedStays
  <2> QED
    BY <2>1, <2>3, <2>4, <2>5 DEF Replaced
<1>3. CASE t \in Ids /\ tasks'[t] = tasks[t]
  <2>1. k \in DOMAIN plans
    BY <1>1, <1>3 DEF WorkflowInv, TaskInv, Made
  <2>2. HasDropped(k) /\ Replaced(k)
    BY <1>1, <1>3, <2>1 DEF HasDropped, DroppedInv
  <2>3. PICK p \in 1 .. Phases : p = plans[k].phase
    BY <2>2 DEF Replaced
  <2>4. Approved(k)' /\ plans'[k].phase = p
    BY <2>1, <2>2, <2>3, ApprovedStays DEF Replaced
  <2>5. k # 0
    BY <2>1 DEF WorkflowInv, PlanInv
  <2>6. Closed \in SUBSET Closed
    OBVIOUS
  <2>7. CASE At("superseding") /\ plan = k
    <3>1. CASE Superseded
      <4>1. All(k, Closed)'
        BY <2>1, <2>2, <2>6, <2>7, <3>1, SupersededOver, AllStay
      <4>2. cmd = "start" /\ at # "head"
        BY <2>7 DEF WorkflowInv, PhaseInv, At, ByStart
      <4>3. p = i /\ saved[p].plan = k
        BY <2>3, <2>7, <4>2 DEF WorkflowInv, ControlInv
      <4>4. saved'[p].plan # k
        <5>1. PICK r : /\ r = [saved[i] EXCEPT !.plan = 0, !.replans = @ + 1]
                       /\ saved' = [saved EXCEPT ![i] = r]
          BY <3>1 DEF Superseded, PlanAnew, Save, WorkflowInv, PhaseInv
        <5>2. r.plan = 0
          BY <4>3, <5>1 DEF WorkflowInv, PhaseInv, IsPhase
        <5>3. saved'[p] = r
          BY <4>3, <5>1 DEF WorkflowInv, PhaseInv
        <5> QED
          BY <2>5, <5>2, <5>3
      <4> QED
        BY <2>4, <4>1, <4>4 DEF Replaced
    <3>2. CASE Crash
      <4>1. t \in IdsOf(plan)
        BY <1>1, <1>3, <2>1, <2>2, <2>7, PlanTasks DEF Replaced, WorkflowInv
      <4>2. InDropGap
        BY <1>1, <1>3, <2>7, <4>1 DEF InDropGap, With
      <4> QED
        BY <3>2, <4>2 DEF Crash
    <3>3. CASE At("superseding")' /\ plan' = plan
      BY <2>4, <2>7, <3>3 DEF Replaced
    <3> QED
      BY <2>7, <3>1, <3>2, <3>3, Superseding
  <2>8. CASE All(k, Closed) /\ saved[p].plan # k
    <3>1. All(k, Closed)'
      BY <2>1, <2>2, <2>6, <2>8, AllStay DEF Replaced
    <3>2. Launch => Len(plans') # k
      <4>1. Launch => \E q : plans' = Append(plans, Launched(q))
        BY DEF Launch
      <4> QED
        BY <2>1, <4>1, PlanAdded DEF WorkflowInv, PlanInv
    <3>3. saved'[p].plan # k
      BY <2>5, <2>8, <3>2, SavedMoves
    <3> QED
      BY <2>4, <3>1, <3>3 DEF Replaced
  <2> QED
    BY <2>2, <2>3, <2>7, <2>8 DEF Replaced
<1>4. CASE Kept
  BY <1>1, <1>3, <1>4 DEF Kept
<1>5. ASSUME NEW u \in Ids, Sets(u) PROVE Replaced(k)'
  BY <1>1, <1>2, <1>3, <1>5 DEF Sets
<1> QED
  BY <1>4, <1>5, StatusChanges

LEMMA DroppedHolds ==
  ASSUME DropGap = FALSE
  PROVE  WorkflowSpec => []DroppedInv
<1>1. Init => DroppedInv
  BY DEF Init, DroppedInv
<1>2. DroppedInv /\ UNCHANGED workflowVars => DroppedInv'
  BY DEF DroppedInv, HasDropped, Replaced, Approved, All, At, Ids, workflowVars, disk, memory
<1>3. WorkflowInv /\ DroppedInv /\ WorkflowNext => DroppedInv'
  BY DroppedKeeps
<1> QED
  BY <1>1, <1>2, <1>3, WorkflowHolds, PTL DEF WorkflowSpec

\* Unless a death may come between a drop and the save, the execution of a plan never
\* waits for itself: while Tasks are left there is one to go on with, for any graph,
\* wherever the Tasks stopped.
THEOREM NeverWaitsForItself ==
  ASSUME DropGap = FALSE
  PROVE  WorkflowSpec => []NeverStuck
<1>1. ASSUME WorkflowInv, DroppedInv PROVE NeverStuck
  <2> SUFFICES ASSUME At("run"), Outstanding(plan) # {} PROVE Picked # {}
    BY DEF NeverStuck
  <2>1. plan \in DOMAIN plans /\ Approved(plan)
    BY <1>1 DEF WorkflowInv, ControlInv, At, OnPlan, Executed
  <2>2. /\ LastId \in Nat /\ IdsOf(plan) \in SUBSET (1 .. LastId) /\ IdsOf(plan) \subseteq Ids
        /\ \A t \in Ids : t \in IdsOf(plan) <=> tasks[t].plan = plan
    BY <1>1, <2>1, PlanTasks DEF WorkflowInv
  <2>3. Outstanding(plan) \in SUBSET Nat
    BY <2>2 DEF Outstanding, With
  <2>4. PICK t \in Outstanding(plan) : \A u \in Outstanding(plan) : t <= u
    BY <2>3, LeastMember
  <2>5. /\ t \in IdsOf(plan) /\ t \in Ids /\ tasks[t].plan = plan
        /\ tasks[t].status \in {"TODO", "IN_PROGRESS", "REVIEW", "BLOCKED"}
    BY <2>2, <2>4 DEF Outstanding, With
  <2>6. ~HasDropped(plan)
    <3>1. ~Replaced(plan)
      BY <2>5 DEF Replaced, All, Closed, At
    <3> QED
      BY <1>1, <2>1, <3>1 DEF DroppedInv
  <2>7. DepsMet(t)
    <3> SUFFICES ASSUME NEW d \in tasks[t].deps PROVE d \in Ids /\ tasks[d].status = "DONE"
      BY DEF DepsMet
    <3>1. PICK p \in DOMAIN plans[plan].deps : plans[plan].ids[p] = t
      BY <1>1, <2>1, <2>5 DEF WorkflowInv, TaskInv, Whole
    <3>2. /\ tasks[t].deps = {plans[plan].ids[e] : e \in plans[plan].deps[p]}
          /\ \A e \in plans[plan].deps[p] : plans[plan].ids[e] < t
      BY <1>1, <2>1, <3>1 DEF WorkflowInv, TaskInv, Whole
    <3>3. PICK e \in plans[plan].deps[p] : d = plans[plan].ids[e]
      BY <3>2
    <3>4. e \in DOMAIN plans[plan].deps
      <4>1. Sound(plans[plan].deps)
        BY <1>1, <2>1 DEF WorkflowInv, KindInv
      <4> QED
        BY <3>1, <3>3, <4>1 DEF Sound, ValidGraph
    <3>5. d \in Ids /\ tasks[d].plan = plan
      BY <1>1, <2>1, <3>3, <3>4 DEF WorkflowInv, TaskInv, Whole
    <3>6. d < t /\ d \in IdsOf(plan) /\ d \in Nat /\ t \in Nat
      BY <2>2, <2>5, <3>2, <3>3, <3>5
    <3>7. d \notin Outstanding(plan)
      BY <2>4, <3>6
    <3>8. tasks[d].status \in Closed
      BY <1>1, <3>5, <3>6, <3>7
      DEF Outstanding, With, Closed, Statuses, WorkflowInv, TaskInv, Made
    <3> QED
      BY <2>6, <3>5, <3>8 DEF HasDropped, Closed
  <2>8. CASE tasks[t].status = "BLOCKED"
    BY <2>5, <2>8 DEF Picked, With
  <2>9. CASE tasks[t].status = "TODO"
    BY <2>5, <2>7, <2>9 DEF Picked, Ready, With
  <2>10. CASE tasks[t].status \in {"IN_PROGRESS", "REVIEW"}
    BY <2>5, <2>7, <2>10 DEF Picked, Resumable, With
  <2> QED
    BY <2>5, <2>8, <2>9, <2>10
<1> QED
  BY <1>1, WorkflowHolds, DroppedHolds, PTL

\* Where a phase comes from before it is called done.
LEMMA ToDone ==
  ASSUME WorkflowInv, WorkflowNext, At("done")' \/ (At("reviewing")' /\ cmd' = "start")
  PROVE  /\ plan' = plan /\ cmd = "start"
         /\ \/ At("done") \/ At("reviewing")
            \/ At("run") /\ Outstanding(plan) = {}
<1> USE DEF At, Goto, Idle, disk, memory, Ends
<1>1. at \in ByStart => cmd = "start"
  BY DEF WorkflowInv, PhaseInv
<1>2. CASE Planning \/ Approving
  BY <1>2 DEF Planning, NextPhase, NoBudget, Launch, Reenter, PlannerReturns, NoQuestions,
     Unanswered, Answer, PlanAnew, Current, Approving, AlreadyApproved, AfterApproval, Refuse,
     Approve, WriteTask, WriteTaskFails, RollbackFails, WriteApproval
<1>3. CASE RunTask \/ NoTask \/ GoalUnavailable \/ GoalMissed \/ GoalReplan
  BY <1>1, <1>3 DEF RunTask, Work, NoTask, GoalUnavailable, GoalMissed, GoalReplan, Completed
<1>4. CASE GoalKnown \/ ReviewGoal
  BY <1>4 DEF GoalKnown, ReviewGoal, Completed
<1>5. CASE GoalReviewed
  <2>1. \E v \in {"PASS", "FAIL"} : Completed(v)
    BY <1>5 DEF GoalReviewed
  <2>2. At("reviewing")
    BY <1>5 DEF GoalReviewed
  <2> QED
    BY <2>1, <2>2 DEF Completed
<1>6. CASE Closing \/ Edit \/ Stop \/ Crash
  BY <1>1, <1>6 DEF Closing, Done, ReplansUsedUp, Replan, DropTask, Superseded, PlanAnew, Edit,
     Stop, Crash, ByStart
<1>7. CASE Command
  BY <1>7 DEF Command, Start, Plan, PlanApprove, ExecutePlan, Enter
<1> QED
  BY <1>2, <1>3, <1>4, <1>5, <1>6, <1>7 DEF WorkflowNext, Step, Executing

\* A plan whose phase has it and of which nothing is left is done, every Task of it.
LEMMA AllDone ==
  ASSUME WorkflowInv, DroppedInv, At("run"), cmd = "start", Outstanding(plan) = {}
  PROVE  All(plan, {"DONE"})
<1>1. plan \in DOMAIN plans /\ Approved(plan)
  BY DEF WorkflowInv, ControlInv, At, OnPlan, Executed
<1>2. saved[plans[plan].phase].plan = plan
  BY DEF WorkflowInv, ControlInv, At
<1>3. ~HasDropped(plan)
  BY <1>1, <1>2 DEF DroppedInv, Replaced, At
<1> SUFFICES ASSUME NEW t \in Ids, tasks[t].plan = plan PROVE tasks[t].status = "DONE"
  BY DEF All
<1>4. t \in IdsOf(plan) /\ tasks[t].status \in Statuses
  BY <1>1, PlanTasks DEF WorkflowInv, TaskInv, Made
<1> QED
  BY <1>3, <1>4 DEF HasDropped, Outstanding, With, Statuses

Worked(k) == k # 0 /\ k \in DOMAIN plans /\ Approved(k) /\ All(k, {"DONE"})

\* A phase that is done, or about to be called so, has a plan that is.
DoneInv ==
  /\ At("done") \/ (At("reviewing") /\ cmd = "start") => All(plan, {"DONE"})
  /\ \A p \in 1 .. Phases : saved[p].done => Worked(saved[p].plan)

LEMMA DoneKeeps ==
  ASSUME WorkflowInv, DroppedInv, DoneInv, WorkflowNext
  PROVE  DoneInv'
<1>1. {"DONE"} \in SUBSET Closed
  BY DEF Closed
<1>2. At("done") \/ At("reviewing") \/ At("run") => plan \in DOMAIN plans /\ Approved(plan)
  BY DEF WorkflowInv, ControlInv, At, OnPlan, Executed
<1>3. ASSUME At("done")' \/ (At("reviewing")' /\ cmd' = "start") PROVE All(plan, {"DONE"})'
  <2>1. /\ plan' = plan /\ cmd = "start"
        /\ \/ At("done") \/ At("reviewing")
           \/ At("run") /\ Outstanding(plan) = {}
    BY <1>3, ToDone
  <2>2. All(plan, {"DONE"})
    BY <2>1, AllDone DEF DoneInv
  <2>3. plan \in DOMAIN plans /\ Approved(plan)
    BY <1>2, <2>1
  <2>4. ASSUME NEW k, k = plan PROVE All(k, {"DONE"})'
    BY <1>1, <2>2, <2>3, <2>4, AllStay
  <2>5. ASSUME NEW t \in Ids', tasks'[t].plan = plan' PROVE tasks'[t].status \in {"DONE"}
    BY <2>1, <2>4, <2>5 DEF All
  <2> QED
    BY <2>5 DEF All
<1>4. ASSUME NEW k \in DOMAIN plans, Approved(k), All(k, {"DONE"}) PROVE Worked(k)'
  <2>1. k # 0
    BY DEF WorkflowInv, PlanInv
  <2> QED
    BY <1>1, <1>4, <2>1, AllStay, ApprovedStays DEF Worked
<1>5. ASSUME NEW p \in 1 .. Phases, saved'[p].done PROVE Worked(saved[p].plan)' 
  <2> DEFINE k == saved[p].plan
  <2>1. saved'[p].plan = k /\ Worked(k)
    <3>1. CASE saved[p].done
      BY <3>1, PhaseKeeps DEF DoneInv, Stays, WorkflowInv
    <3>2. CASE ~saved[p].done
      <4>1. saved'[p].done # saved[p].done
        BY <1>5, <3>2
      <4>2. Done /\ p = i /\ k = plan /\ saved'[p].plan = k
        BY <4>1, SavedMoves
      <4>3. At("done")
        BY <4>2 DEF Done
      <4>4. plan # 0
        BY <1>2, <4>3 DEF WorkflowInv, PlanInv
      <4> QED
        BY <1>2, <4>2, <4>3, <4>4 DEF DoneInv, Worked
    <3> QED
      BY <3>1, <3>2
  <2>2. ASSUME NEW q, q = k PROVE Worked(q)'
    BY <1>4, <2>1, <2>2 DEF Worked
  <2> QED
    BY <2>1, <2>2 DEF Worked, All
<1> QED
  BY <1>3, <1>5 DEF DoneInv

\* Unless a death may come between a drop and the save, a phase is called done only
\* when every Task of the plan it has is done: none was dropped and passed over.
THEOREM DoneOnlyIfWorked ==
  ASSUME DropGap = FALSE
  PROVE  WorkflowSpec => []DoneIsWorked
<1>1. Init => DoneInv
  BY DEF Init, DoneInv, NewPhase, At
<1>2. DoneInv /\ UNCHANGED workflowVars => DoneInv'
  BY DEF DoneInv, Worked, Approved, All, At, Ids, workflowVars, disk, memory
<1>3. ASSUME WorkflowInv, DoneInv PROVE DoneIsWorked
  <2> SUFFICES ASSUME NEW p \in 1 .. Phases, saved[p].done,
                      NEW t \in IdsOf(saved[p].plan)
               PROVE  Worked(saved[p].plan) /\ tasks[t].status = "DONE"
    BY <1>3 DEF DoneIsWorked, DoneInv, Worked
  <2>1. Worked(saved[p].plan)
    BY <1>3 DEF DoneInv
  <2>2. t \in Ids /\ tasks[t].plan = saved[p].plan
    BY <1>3, <2>1, PlanTasks DEF Worked, WorkflowInv
  <2> QED
    BY <2>1, <2>2 DEF Worked, All
<1>4. WorkflowInv /\ DroppedInv /\ DoneInv /\ WorkflowNext => DoneInv'
  BY DoneKeeps
<1> QED
  BY <1>1, <1>2, <1>3, <1>4, WorkflowHolds, DroppedHolds, PTL DEF WorkflowSpec

-----------------------------------------------------------------------------
(* The type of the state, and its bounds.                                  *)

LEMMA CountsMove ==
  ASSUME WorkflowInv, WorkflowNext, NEW p \in 1 .. Phases
  PROVE  \/ saved'[p].replans = saved[p].replans /\ saved'[p].answers = saved[p].answers
         \/ /\ Answer /\ p = i /\ saved[p].answers < MaxAnswers
            /\ saved'[p].replans = saved[p].replans /\ saved'[p].answers = saved[p].answers + 1
         \/ /\ Superseded /\ p = i
            /\ saved'[p].replans = saved[p].replans + 1 /\ saved'[p].answers = saved[p].answers
<1>1. IsPhase(saved[p]) /\ phases = saved /\ saved = [q \in 1 .. Phases |-> saved[q]]
  BY DEF WorkflowInv, PhaseInv
<1>2. ASSUME NEW r, saved' = [saved EXCEPT ![i] = r], p = i PROVE saved'[p] = r
  BY <1>1, <1>2
<1>3. CASE Launch /\ p = i
  <2>1. PICK r : r = [saved[i] EXCEPT !.plan = Len(plans')] /\ saved' = [saved EXCEPT ![i] = r]
    BY <1>1, <1>3 DEF Launch, Save
  <2>2. r.replans = saved[p].replans /\ r.answers = saved[p].answers
    BY <1>1, <1>3, <2>1 DEF IsPhase
  <2> QED
    BY <1>2, <1>3, <2>1, <2>2
<1>4. CASE Answer /\ p = i
  <2>1. PICK r : /\ r = [saved[i] EXCEPT !.plan = 0, !.answers = @ + 1]
                 /\ saved' = [saved EXCEPT ![i] = r]
    BY <1>1, <1>4 DEF Answer, PlanAnew, Save
  <2>2. r.replans = saved[p].replans /\ r.answers = saved[p].answers + 1
    BY <1>1, <1>4, <2>1 DEF IsPhase
  <2>3. saved[p].answers < MaxAnswers
    BY <1>1, <1>4 DEF Answer
  <2> QED
    BY <1>2, <1>4, <2>1, <2>2, <2>3
<1>5. CASE Superseded /\ p = i
  <2>1. PICK r : /\ r = [saved[i] EXCEPT !.plan = 0, !.replans = @ + 1]
                 /\ saved' = [saved EXCEPT ![i] = r]
    BY <1>1, <1>5 DEF Superseded, PlanAnew, Save
  <2>2. r.replans = saved[p].replans + 1 /\ r.answers = saved[p].answers
    BY <1>1, <1>5, <2>1 DEF IsPhase
  <2> QED
    BY <1>2, <1>5, <2>1, <2>2
<1>6. CASE Done /\ p = i
  <2>1. PICK r : r = [saved[i] EXCEPT !.done = TRUE] /\ saved' = [saved EXCEPT ![i] = r]
    BY <1>1, <1>6 DEF Done, Save
  <2>2. r.replans = saved[p].replans /\ r.answers = saved[p].answers
    BY <1>1, <1>6, <2>1 DEF IsPhase
  <2> QED
    BY <1>2, <1>6, <2>1, <2>2
<1> QED
  BY <1>3, <1>4, <1>5, <1>6, SavedMoves

LEMMA ToSuperseding ==
  ASSUME WorkflowInv, WorkflowNext, At("superseding")'
  PROVE  /\ saved' = saved /\ i' = i
         /\ At("superseding") \/ saved[i].replans < MaxReplans
<1> USE DEF At, Goto, Idle, disk, memory, Ends
<1>1. phases = saved
  BY DEF WorkflowInv, PhaseInv
<1>2. CASE Planning \/ Approving
  BY <1>2 DEF Planning, NextPhase, NoBudget, Launch, Reenter, PlannerReturns, NoQuestions,
     Unanswered, Answer, PlanAnew, Current, Approving, AlreadyApproved, AfterApproval, Refuse,
     Approve, WriteTask, WriteTaskFails, RollbackFails, WriteApproval
<1>3. CASE RunTask \/ NoTask \/ GoalKnown \/ ReviewGoal \/ GoalUnavailable \/ GoalMissed
           \/ GoalReplan
  BY <1>3 DEF RunTask, Work, NoTask, GoalKnown, ReviewGoal, GoalUnavailable, GoalMissed,
     GoalReplan, Completed
<1>4. CASE GoalReviewed
  <2>1. At("reviewing") /\ \E v \in {"PASS", "FAIL"} : Completed(v)
    BY <1>4 DEF GoalReviewed
  <2> QED
    BY <2>1 DEF Completed
<1>5. CASE Done \/ ReplansUsedUp \/ Superseded \/ Edit \/ Stop \/ Crash
  BY <1>5 DEF Done, ReplansUsedUp, Superseded, PlanAnew, Edit, Stop, Crash
<1>6. CASE Replan \/ DropTask
  BY <1>1, <1>6 DEF Replan, DropTask
<1>7. CASE Command
  BY <1>7 DEF Command, Start, Plan, PlanApprove, ExecutePlan, Enter
<1> QED
  BY <1>2, <1>3, <1>4, <1>5, <1>6, <1>7 DEF WorkflowNext, Step, Executing, Closing

\* The plans made by hand.
Handmade == {k \in DOMAIN plans : plans[k].phase = 0}

LEMMA HandmadeGrows ==
  ASSUME WorkflowInv, WorkflowNext
  PROVE  /\ Cardinality(Handmade) \in Nat
         /\ IF Plan THEN Cardinality(Handmade)' = Cardinality(Handmade) + 1
                    ELSE Handmade' = Handmade
<1>1. PlanInv /\ PlansStay /\ (DOMAIN plans' = DOMAIN plans \/ Launch \/ Plan)
  BY PlansKeep DEF WorkflowInv
<1>2. IsFiniteSet(Handmade) /\ Cardinality(Handmade) \in Nat
  <2>1. Len(plans) \in Nat /\ Handmade \subseteq 1 .. Len(plans)
    BY <1>1 DEF PlanInv, Handmade
  <2>2. IsFiniteSet(1 .. Len(plans))
    BY <2>1, FS_Interval
  <2> QED
    BY <2>1, <2>2, FS_Subset, FS_CardinalityType
<1>3. ASSUME NEW q, plans' = Append(plans, Launched(q))
      PROVE  Handmade' = IF q = 0 THEN Handmade \cup {Len(plans')} ELSE Handmade
  <2>1. /\ DOMAIN plans' = DOMAIN plans \cup {Len(plans')} /\ Len(plans') = Len(plans) + 1
        /\ plans'[Len(plans')].phase = q
    BY <1>1, <1>3, PlanAdded
  <2>2. Len(plans') \notin DOMAIN plans
    BY <1>1, <2>1 DEF PlanInv
  <2> QED
    BY <1>1, <2>1, <2>2 DEF PlansStay, Handmade
<1>4. CASE Plan
  <2>1. Handmade' = Handmade \cup {Len(plans')}
    BY <1>3, <1>4 DEF Plan
  <2>2. Len(plans') \notin Handmade
    <3>1. Len(plans') = Len(plans) + 1
      BY <1>1, <1>4, PlanAdded DEF Plan
    <3>2. Len(plans) \in Nat /\ DOMAIN plans = 1 .. Len(plans)
      BY <1>1 DEF PlanInv
    <3> QED
      BY <3>1, <3>2 DEF Handmade
  <2>3. Cardinality(Handmade \cup {Len(plans')}) = Cardinality(Handmade) + 1
    BY <1>2, <2>2, FS_AddElement
  <2>4. Cardinality(Handmade)' = Cardinality(Handmade')
    OBVIOUS
  <2> QED
    BY <1>2, <1>4, <2>1, <2>3, <2>4
<1>5. CASE Launch
  <2>1. ~Plan /\ i \in 1 .. Phases + 1
    BY <1>5 DEF Launch, Plan, Current, At, Idle, WorkflowInv, PhaseInv, ByStart
  <2>2. plans' = Append(plans, Launched(i)) /\ i # 0
    BY <1>5, <2>1, WorkflowAssumption DEF Launch
  <2> QED
    BY <1>2, <1>3, <2>1, <2>2
<1>6. CASE DOMAIN plans' = DOMAIN plans /\ ~Plan
  <2>1. Handmade' = Handmade
    BY <1>1, <1>6 DEF PlansStay, Handmade
  <2> QED
    BY <1>2, <1>6, <2>1
<1> QED
  BY <1>1, <1>4, <1>5, <1>6

BoundInv ==
  /\ \A p \in 1 .. Phases : saved[p].replans <= MaxReplans /\ saved[p].answers <= MaxAnswers
  /\ At("superseding") => saved[i].replans < MaxReplans
  /\ edits \in Nat /\ fails \in Nat
  /\ Cardinality(Handmade) + edits + fails <= MaxEvents

LEMMA BoundKeeps ==
  ASSUME WorkflowInv, BoundInv, WorkflowNext
  PROVE  BoundInv'
<1>1. \A p \in 1 .. Phases : saved[p].replans \in Nat /\ saved[p].answers \in Nat
  BY DEF WorkflowInv, PhaseInv, IsPhase
<1>2. MaxReplans \in Nat /\ MaxAnswers \in Nat /\ MaxEvents \in Nat
  BY WorkflowAssumption
<1>3. ASSUME NEW p \in 1 .. Phases
      PROVE  saved'[p].replans <= MaxReplans /\ saved'[p].answers <= MaxAnswers
  <2>1. Superseded /\ p = i => saved[p].replans < MaxReplans
    BY DEF Superseded, BoundInv
  <2> QED
    BY <1>1, <1>2, <2>1, CountsMove DEF BoundInv
<1>4. At("superseding")' => saved'[i'].replans < MaxReplans
  BY ToSuperseding DEF BoundInv
<1>5. /\ Cardinality(Handmade) \in Nat
      /\ IF Plan THEN Cardinality(Handmade)' = Cardinality(Handmade) + 1
                 ELSE Handmade' = Handmade
  BY HandmadeGrows
<1>6. Events = Cardinality(Handmade) + edits + fails
  BY DEF Events, Handmade
<1> DEFINE Bounded == /\ edits' \in Nat /\ fails' \in Nat
                      /\ Cardinality(Handmade)' + edits' + fails' <= MaxEvents
<1>7. CASE Plan
  <2>1. Events < MaxEvents /\ UNCHANGED bounds
    BY <1>7 DEF Plan
  <2>2. Bounded
    BY <1>2, <1>5, <1>6, <1>7, <2>1 DEF BoundInv, bounds
  <2> QED
    BY <1>3, <1>4, <2>2 DEF BoundInv
<1>8. CASE ~Plan
  <2>1. \/ UNCHANGED bounds
        \/ /\ Events < MaxEvents
           /\ \/ edits' = edits + 1 /\ fails' = fails
              \/ edits' = edits /\ fails' = fails + 1
    <3> USE DEF bounds
    <3>1. CASE Planning
      BY <3>1 DEF Planning, NextPhase, NoBudget, Launch, Reenter, PlannerReturns, NoQuestions,
         Unanswered, Answer, PlanAnew
    <3>2. CASE Approving
      BY <3>2 DEF Approving, AlreadyApproved, Refuse, Approve, WriteTask, WriteTaskFails,
         RollbackFails, WriteApproval
    <3>3. CASE Executing
      BY <3>3 DEF Executing, RunTask, NoTask, GoalKnown, ReviewGoal, GoalReviewed,
         GoalUnavailable, GoalMissed, GoalReplan
    <3>4. CASE Closing \/ Stop \/ Edit \/ Crash
      BY <3>4 DEF Closing, Done, ReplansUsedUp, Replan, DropTask, Superseded, PlanAnew, Stop,
         Edit, Crash
    <3>5. CASE Command
      BY <1>8, <3>5 DEF Command, Start, PlanApprove, ExecutePlan, Enter
    <3> QED
      BY <3>1, <3>2, <3>3, <3>4, <3>5 DEF WorkflowNext, Step
  <2>2. Cardinality(Handmade)' = Cardinality(Handmade)
    BY <1>5, <1>8
  <2>3. Bounded
    BY <1>2, <1>5, <1>6, <2>1, <2>2 DEF BoundInv, bounds
  <2> QED
    BY <1>3, <1>4, <2>3 DEF BoundInv
<1> QED
  BY <1>7, <1>8

\* The state has its type, and what is counted keeps to its bound: no phase is
\* planned anew, or has its questions answered, more often than the limits say.
THEOREM WorkflowTyped == WorkflowSpec => []WorkflowTypeOK
<1>1. ASSUME Init PROVE BoundInv
  <2>1. \A p \in 1 .. Phases : saved[p].replans = 0 /\ saved[p].answers = 0
    BY <1>1 DEF Init, NewPhase
  <2>2. Handmade = {}
    BY <1>1 DEF Init, Handmade
  <2>3. Cardinality(Handmade) = 0
    BY <2>2, FS_EmptySet
  <2>4. edits = 0 /\ fails = 0 /\ ~At("superseding")
    BY <1>1 DEF Init, At
  <2> QED
    BY <2>1, <2>3, <2>4, WorkflowAssumption DEF BoundInv
<1>2. BoundInv /\ UNCHANGED workflowVars => BoundInv'
  BY DEF BoundInv, Handmade, At, workflowVars, disk, memory, bounds
<1>3. ASSUME WorkflowInv, BoundInv PROVE WorkflowTypeOK
  <2> USE <1>3
  <2>1. PhaseInv /\ PlanInv /\ KindInv /\ ControlInv /\ TaskInv
    BY DEF WorkflowInv
  <2>2. saved \in [1 .. Phases -> [plan : 0 .. Len(plans), done : BOOLEAN,
                                   replans : 0 .. MaxReplans, answers : 0 .. MaxAnswers]]
    <3> SUFFICES ASSUME NEW p \in 1 .. Phases
                 PROVE  saved[p] \in [plan : 0 .. Len(plans), done : BOOLEAN,
                                      replans : 0 .. MaxReplans, answers : 0 .. MaxAnswers]
      BY <2>1 DEF PhaseInv
    <3>1. saved[p].plan \in 0 .. Len(plans)
      BY <2>1 DEF ControlInv, PlanInv
    <3>2. saved[p].replans \in 0 .. MaxReplans /\ saved[p].answers \in 0 .. MaxAnswers
      BY <2>1, WorkflowAssumption DEF BoundInv, PhaseInv, IsPhase
    <3> QED
      BY <2>1, <3>1, <3>2 DEF PhaseInv, IsPhase
  <2>3. ASSUME NEW k \in DOMAIN plans
        PROVE  /\ plans[k].phase \in 0 .. Phases
               /\ plans[k].kind \in {"running", "proposed", "asks", "questions", "invalid"}
               /\ plans[k].goal \in {"none", "started", "PASS", "FAIL"}
               /\ IdsOf(k) \subseteq Ids
    <3>1. IdsOf(k) \subseteq Ids
      <4>1. CASE Approved(k)
        BY <2>1, <4>1, PlanTasks
      <4>2. CASE ~Approved(k)
        BY <4>2 DEF Approved, NoIds, IdsOf
      <4> QED
        BY <4>1, <4>2
    <3> QED
      BY <2>1, <3>1 DEF KindInv, Accepted, PlanInv, Reviewed
  <2>4. \A t \in Ids : tasks[t].status \in Statuses /\ tasks[t].plan \in DOMAIN plans
    BY <2>1 DEF TaskInv, Made
  <2>5. /\ cmd = "none" <=> Idle
        /\ at \in ByStart => cmd = "start" /\ i \in 1 .. Phases + 1
        /\ at \in OnPlan => plan \in DOMAIN plans
        /\ Idle => phases = saved
    BY <2>1 DEF PhaseInv, ControlInv
  <2>6. edits \in Nat /\ fails \in Nat /\ Events <= MaxEvents
    BY DEF BoundInv, Events, Handmade
  <2> QED
    BY <2>2, <2>3, <2>4, <2>5, <2>6 DEF WorkflowTypeOK
<1>4. WorkflowInv /\ BoundInv /\ WorkflowNext => BoundInv'
  BY BoundKeeps
<1> QED
  BY <1>1, <1>2, <1>3, <1>4, WorkflowHolds, PTL DEF WorkflowSpec
=============================================================================
