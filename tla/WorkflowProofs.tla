---------------------------- MODULE WorkflowProofs ----------------------------
(***************************************************************************)
(* Proofs about Workflow, for any number of phases, any results of the     *)
(* planner and any bounds: what start writes into the workflow file, and   *)
(* how often planner and goal verifier are paid.                           *)
(***************************************************************************)
EXTENDS Workflow, TLAPS, FiniteSetTheorems, SequenceTheorems

-----------------------------------------------------------------------------
(* The phases.                                                             *)

IsPhase(r) ==
  /\ r = [plan |-> r.plan, done |-> r.done, replans |-> r.replans, answers |-> r.answers]
  /\ r.done \in BOOLEAN /\ r.replans \in Nat /\ r.answers \in Nat

\* What a replan or a round of answers makes of a phase that is not done.
LEMMA NextRound ==
  ASSUME NEW q, IsPhase(q), q.done = FALSE,
         NEW r, \/ r = [q EXCEPT !.plan = 0, !.answers = @ + 1]
                \/ r = [q EXCEPT !.plan = 0, !.replans = @ + 1]
  PROVE  /\ IsPhase(r) /\ r.done = FALSE /\ r.plan = 0
         /\ r.replans + r.answers = q.replans + q.answers + 1
<1>1. PICK a, n, m : /\ q = [plan |-> a, done |-> FALSE, replans |-> n, answers |-> m]
                     /\ n \in Nat /\ m \in Nat
  BY DEF IsPhase
<1>2. \/ r = [plan |-> 0, done |-> FALSE, replans |-> n, answers |-> m + 1]
      \/ r = [plan |-> 0, done |-> FALSE, replans |-> n + 1, answers |-> m]
  BY <1>1
<1>3. r.done = FALSE /\ r.replans \in Nat /\ r.answers \in Nat /\ r.plan = 0
  BY <1>1, <1>2
<1>4. r = [plan |-> r.plan, done |-> r.done, replans |-> r.replans, answers |-> r.answers]
  BY <1>2
<1>5. r.replans + r.answers = q.replans + q.answers + 1
  BY <1>1, <1>2
<1> QED
  BY <1>3, <1>4, <1>5 DEF IsPhase

\* What the command has in memory is what is saved; start is at a phase, not done
\* but when it is at the head of its loop, and all before it are done; and only
\* start, or plan as far as it goes, does what belongs to a phase.
PhaseInv ==
  /\ phases = saved
  /\ saved = [p \in 1 .. Phases |-> saved[p]]
  /\ \A p \in 1 .. Phases : IsPhase(saved[p])
  /\ at \in ByStart => cmd = "start"
  /\ at = "planning" => cmd \in {"start", "plan"}
  /\ cmd = "start" =>
       /\ i \in 1 .. Phases + 1
       /\ at # "head" => i # Phases + 1 /\ saved[i].done = FALSE
       /\ \A p \in 1 .. Phases : p < i => saved[p].done
  /\ \A p \in 2 .. Phases : saved[p].done => saved[p - 1].done

\* The phases of a step that leaves those alone that are done already.
Stays == \A p \in 1 .. Phases : saved[p].done => saved'[p] = saved[p]

\* Each step leads from such a state to another one, and leaves what is done.
LEMMA PhaseKeeps == PhaseInv /\ WorkflowNext => PhaseInv' /\ Stays
<1> SUFFICES ASSUME PhaseInv, WorkflowNext PROVE PhaseInv' /\ Stays
  OBVIOUS
<1> USE DEF disk, memory, bounds, At, Goto, Idle, ByStart
<1>0. Phases \in Nat \ {0}
  BY WorkflowAssumption
<1> USE <1>0
\* The command ends.
<1>1. CASE saved' = saved /\ Ends
  BY <1>1 DEF PhaseInv, Stays, Ends, IsPhase
\* It goes on within its phase.
<1>2. ASSUME UNCHANGED <<saved, cmd, phases, i>>, at # "head", at' # "head",
             at' = at \/ at' \in {"approve", "run", "writing", "reviewing", "goalFailed"}
               \/ cmd = "start"
      PROVE  PhaseInv' /\ Stays
  BY <1>2 DEF PhaseInv, Stays, IsPhase
\* What its phase is is written anew.
<1>3. ASSUME NEW r, Save(r), cmd = "start", cmd' = cmd, i' = i, IsPhase(r), r.done = FALSE,
             at # "head" \/ (i <= Phases /\ ~phases[i].done), at' \in {"head", "planning"}
      PROVE  PhaseInv' /\ Stays
  <2>1. i \in 1 .. Phases /\ saved[i].done = FALSE
    BY <1>3 DEF PhaseInv, IsPhase
  <2>2. saved' = [saved EXCEPT ![i] = r] /\ phases' = saved'
    BY <1>3 DEF PhaseInv, Save
  <2>3. /\ saved' = [p \in 1 .. Phases |-> saved'[p]] /\ saved'[i] = r
        /\ \A p \in 1 .. Phases : p # i => saved'[p] = saved[p]
    BY <2>1, <2>2 DEF PhaseInv
  <2>4. \A p \in 1 .. Phases : IsPhase(saved[p])' /\ saved'[p].done = saved[p].done
    BY <1>3, <2>1, <2>3 DEF PhaseInv, IsPhase
  <2>5. Stays
    BY <2>1, <2>3 DEF Stays
  <2>6. \A p \in 2 .. Phases : p \in 1 .. Phases /\ p - 1 \in 1 .. Phases
    OBVIOUS
  <2>7. \A p \in 2 .. Phases : saved'[p].done => saved'[p - 1].done
    BY <2>4, <2>6 DEF PhaseInv
  <2> QED
    BY <1>3, <2>1, <2>2, <2>3, <2>4, <2>5, <2>7 DEF PhaseInv
<1>4. CASE NextPhase
  <2>1. CASE i > Phases
    BY <1>1, <1>4, <2>1 DEF NextPhase
  <2>2. CASE ~(i > Phases)
    <3>1. cmd = "start" /\ i \in 1 .. Phases /\ saved[i].done
      BY <1>4, <2>2 DEF NextPhase, PhaseInv
    <3>2. UNCHANGED <<saved, cmd, at, phases>> /\ i' = i + 1 /\ at = "head"
      BY <1>4, <2>2 DEF NextPhase
    <3> QED
      BY <3>1, <3>2 DEF PhaseInv, Stays, IsPhase
  <2> QED
    BY <2>1, <2>2
<1>5. CASE Launch
  <2>1. cmd = "start" /\ i \in 1 .. Phases /\ ~phases[i].done
    BY <1>5 DEF Launch, Current, PhaseInv
  <2>2. PICK r : r = [phases[i] EXCEPT !.plan = plan'] /\ Save(r)
    BY <1>5 DEF Launch
  <2>3. IsPhase(r) /\ r.done = FALSE
    BY <2>1, <2>2 DEF PhaseInv, IsPhase
  <2>4. cmd' = cmd /\ i' = i /\ at' = "planning" /\ i <= Phases
    BY <1>5, <2>1 DEF Launch
  <2> QED
    BY <1>3, <2>1, <2>2, <2>3, <2>4
<1>6. CASE Reenter
  <2>1. cmd = "start" /\ i \in 1 .. Phases /\ saved[i].done = FALSE /\ at' = "examine"
    BY <1>6 DEF Reenter, Current, PhaseInv, IsPhase
  <2>2. UNCHANGED <<saved, cmd, phases, i>>
    BY <1>6 DEF Reenter
  <2>3. i \in 1 .. Phases + 1 /\ i # Phases + 1 /\ Stays
    BY <2>1, <2>2 DEF Stays
  <2>4. \A p \in 1 .. Phases : IsPhase(saved[p])' /\ (p < i => saved[p].done)
    BY <2>1, <2>2 DEF PhaseInv
  <2> QED
    BY <2>1, <2>2, <2>3, <2>4 DEF PhaseInv
<1>7. CASE PlannerReturns
  <2>1. CASE cmd = "plan"
    BY <1>1, <1>7, <2>1 DEF PlannerReturns
  <2>2. CASE cmd # "plan"
    <3>1. cmd = "start" /\ i \in 1 .. Phases /\ at' = "examine" /\ UNCHANGED <<cmd, i>>
      BY <1>7, <2>2 DEF PlannerReturns, PhaseInv
    <3>2. UNCHANGED <<saved, phases>>
      BY <1>7, <2>2, <3>1 DEF PlannerReturns, Save, PhaseInv
    <3> QED
      BY <1>2, <1>7, <3>1, <3>2 DEF PlannerReturns
  <2> QED
    BY <2>1, <2>2
<1>8. CASE NoQuestions \/ Approve \/ WriteTask \/ ReviewGoal
  BY <1>2, <1>8 DEF NoQuestions, Approve, WriteTask, ReviewGoal
<1>9. CASE NoBudget \/ Unanswered \/ Refuse \/ WriteTaskFails \/ RollbackFails
  BY <1>1, <1>9 DEF NoBudget, Unanswered, Refuse, WriteTaskFails, RollbackFails
<1>10. CASE Answer \/ Superseded
  <2>1. cmd = "start" /\ i \in 1 .. Phases /\ saved[i].done = FALSE
    BY <1>10 DEF Answer, Superseded, PhaseInv
  <2>2. PICK r : PlanAnew(r) /\ \/ r = [phases[i] EXCEPT !.plan = 0, !.answers = @ + 1]
                                \/ r = [phases[i] EXCEPT !.plan = 0, !.replans = @ + 1]
    BY <1>10 DEF Answer, Superseded
  <2>3. IsPhase(phases[i]) /\ phases[i].done = FALSE
    BY <2>1 DEF PhaseInv
  <2>4. IsPhase(r) /\ r.done = FALSE
    BY <2>2, <2>3, NextRound
  <2> QED
    BY <1>3, <1>10, <2>1, <2>2, <2>4 DEF Answer, Superseded, PlanAnew
<1>11. CASE AlreadyApproved \/ WriteApproval
  BY <1>1, <1>2, <1>11 DEF AlreadyApproved, WriteApproval, AfterApproval
<1>12. CASE RunTask
  <2>1. saved' = saved /\ \/ UNCHANGED memory
                          \/ Ends
                          \/ cmd = "start" /\ at' = "replan" /\ UNCHANGED <<cmd, phases, i>>
    BY <1>12 DEF RunTask, Work
  <2> QED
    BY <1>1, <1>2, <1>12, <2>1 DEF RunTask
<1>13. CASE GoalKnown \/ GoalReviewed \/ GoalUnavailable
  BY <1>1, <1>2, <1>13 DEF GoalKnown, GoalReviewed, GoalUnavailable, Completed
<1>14. CASE NoTask \/ GoalMissed \/ ReplansUsedUp \/ Stop \/ Crash
  BY <1>1, <1>14 DEF NoTask, GoalMissed, ReplansUsedUp, Stop, Crash
<1>15. CASE GoalReplan
  BY <1>2, <1>15 DEF GoalReplan
<1>16. CASE Replan \/ DropTask
  BY <1>2, <1>16 DEF Replan, DropTask, PhaseInv
<1>17. CASE Done
  <2>1. cmd = "start" /\ i \in 1 .. Phases /\ saved[i].done = FALSE /\ IsPhase(saved[i])
    BY <1>17 DEF Done, PhaseInv
  <2>2. PICK r : /\ r = [saved[i] EXCEPT !.done = TRUE]
                 /\ saved' = [saved EXCEPT ![i] = r] /\ phases' = saved'
    BY <1>17 DEF Done, Save, PhaseInv
  <2>3. IsPhase(r) /\ r.done
    BY <2>1, <2>2 DEF IsPhase
  <2>4. cmd' = "start" /\ at' = "head" /\ i' = i + 1
    BY <1>17, <2>1 DEF Done
  <2>5. /\ saved' = [p \in 1 .. Phases |-> saved'[p]] /\ saved'[i] = r
        /\ \A p \in 1 .. Phases : p # i => saved'[p] = saved[p]
    BY <2>1, <2>2 DEF PhaseInv
  <2>6. \A p \in 1 .. Phases : IsPhase(saved[p])'
    BY <2>3, <2>5 DEF PhaseInv
  <2>7. Stays
    BY <2>1, <2>5 DEF Stays
  <2>8. \A p \in 1 .. Phases : p < i + 1 => saved'[p].done
    BY <2>1, <2>3, <2>5 DEF PhaseInv
  <2>9. \A p \in 2 .. Phases : saved'[p].done => saved'[p - 1].done
    <3>1. SUFFICES ASSUME NEW p \in 2 .. Phases, saved'[p].done PROVE saved'[p - 1].done
      OBVIOUS
    <3>2. p \in 1 .. Phases /\ p - 1 \in 1 .. Phases
      OBVIOUS
    <3>3. CASE p <= i
      BY <2>1, <2>8, <3>2, <3>3
    <3>4. CASE ~(p <= i)
      <4>1. saved[p].done
        BY <2>1, <2>5, <3>1, <3>2, <3>4
      <4>2. saved[p - 1].done
        BY <4>1 DEF PhaseInv
      <4> QED
        BY <2>7, <3>2, <4>2 DEF Stays
    <3> QED
      BY <3>3, <3>4
  <2>10. i + 1 \in 1 .. Phases + 1
    BY <2>1
  <2> QED
    BY <2>2, <2>4, <2>5, <2>6, <2>7, <2>8, <2>9, <2>10 DEF PhaseInv
<1>18. CASE Command
  <2>1. saved' = saved /\ phases' = phases
    BY <1>18 DEF Command, Start, Plan, PlanApprove, ExecutePlan, Enter
  <2>2. \/ cmd' = "start" /\ at' = "head" /\ i' = 1
        \/ cmd' = "plan" /\ at' = "planning"
        \/ cmd' \in {"approve", "execute"} /\ at' \in {"approve", "run"}
    BY <1>18 DEF Command, Start, Plan, PlanApprove, ExecutePlan, Enter
  <2> QED
    BY <2>1, <2>2 DEF PhaseInv, Stays, IsPhase
<1>19. CASE Edit
  BY <1>19 DEF Edit, PhaseInv, Stays, IsPhase
<1> QED
  BY <1>4, <1>5, <1>6, <1>7, <1>8, <1>9, <1>10, <1>11, <1>12, <1>13, <1>14, <1>15,
     <1>16, <1>17, <1>18, <1>19
  DEF WorkflowNext, Step, Planning, Approving, Executing, Closing

LEMMA PhasesHold == WorkflowSpec => []PhaseInv
<1>1. ASSUME Init PROVE PhaseInv
  <2>1. \A p \in 1 .. Phases : saved[p] = NewPhase
    BY <1>1 DEF Init
  <2>2. IsPhase(NewPhase) /\ NewPhase.done = FALSE
    BY DEF IsPhase, NewPhase
  <2>3. \A p \in 1 .. Phases : IsPhase(saved[p]) /\ saved[p].done = FALSE
    BY <2>1, <2>2
  <2>4. \A p \in 2 .. Phases : saved[p].done => saved[p - 1].done
    BY <2>3, WorkflowAssumption
  <2> QED
    BY <1>1, <2>3, <2>4 DEF Init, PhaseInv, ByStart
<1>2. PhaseInv /\ UNCHANGED workflowVars => PhaseInv'
  BY DEF PhaseInv, IsPhase, ByStart, workflowVars, disk, memory
<1> QED
  BY <1>1, <1>2, PhaseKeeps, PTL DEF WorkflowSpec

\* Phases end in their order, and what is recorded of one that is done never
\* changes, whatever dies, is repeated or is done by hand.
THEOREM CompletedStay == WorkflowSpec => CompletedStays
<1>1. PhaseInv => \A p \in 2 .. Phases : saved[p].done => saved[p - 1].done
  BY DEF PhaseInv
<1>2. PhaseInv /\ [WorkflowNext]_workflowVars
        => [\A p \in 1 .. Phases : saved[p].done => saved'[p] = saved[p]]_workflowVars
  BY PhaseKeeps DEF Stays
<1> QED
  BY <1>1, <1>2, PhasesHold, PTL DEF WorkflowSpec, CompletedStays

-----------------------------------------------------------------------------
(* The plans.                                                              *)

IsPlan(r) ==
  r = [phase |-> r.phase, kind |-> r.kind, deps |-> r.deps, fresh |-> r.fresh,
       ids |-> r.ids, goal |-> r.goal, reviews |-> r.reviews]

\* A plan's goal was not reviewed in this repository, or once.
Reviewed(r) ==
  /\ r.goal \in {"none", "started", "PASS", "FAIL"}
  /\ r.reviews \in {0, 1} /\ (r.goal = "none" => r.reviews = 0)

\* What the steps do to the record of a plan.
LEMMA PlanEdited ==
  ASSUME NEW q, IsPlan(q), Reviewed(q), NEW r,
         \/ \E x, y : r = [q EXCEPT !.kind = x, !.deps = y]
         \/ \E x : r = [q EXCEPT !.ids = x]
         \/ \E x \in {"PASS", "FAIL"} : r = [q EXCEPT !.goal = x]
         \/ r = [q EXCEPT !.goal = "started", !.reviews = @ + 1] /\ q.goal = "none"
         \/ r = [q EXCEPT !.fresh = FALSE, !.goal = "none", !.reviews = 0]
  PROVE  IsPlan(r) /\ Reviewed(r) /\ r.phase = q.phase
<1> DEFINE Goal == IsPlan(r) /\ Reviewed(r) /\ r.phase = q.phase
<1>1. ASSUME NEW x, NEW y, r = [q EXCEPT !.kind = x, !.deps = y] PROVE Goal
  <2>1. IsPlan(r)
    BY <1>1 DEF IsPlan
  <2>2. r.phase = q.phase /\ r.goal = q.goal /\ r.reviews = q.reviews
    BY <1>1 DEF IsPlan
  <2> QED
    BY <2>1, <2>2 DEF Reviewed
<1>2. ASSUME NEW x, r = [q EXCEPT !.ids = x] PROVE Goal
  <2>1. IsPlan(r)
    BY <1>2 DEF IsPlan
  <2>2. r.phase = q.phase /\ r.goal = q.goal /\ r.reviews = q.reviews
    BY <1>2 DEF IsPlan
  <2> QED
    BY <2>1, <2>2 DEF Reviewed
<1>3. ASSUME NEW x \in {"PASS", "FAIL"}, r = [q EXCEPT !.goal = x] PROVE Goal
  <2>1. IsPlan(r)
    BY <1>3 DEF IsPlan
  <2>2. r.phase = q.phase /\ r.goal = x /\ r.reviews = q.reviews
    BY <1>3 DEF IsPlan
  <2> QED
    BY <1>3, <2>1, <2>2 DEF Reviewed
<1>4. CASE r = [q EXCEPT !.goal = "started", !.reviews = @ + 1] /\ q.goal = "none"
  <2>1. IsPlan(r)
    BY <1>4 DEF IsPlan
  <2>2. r.phase = q.phase /\ r.goal = "started" /\ r.reviews = q.reviews + 1
    BY <1>4 DEF IsPlan
  <2> QED
    BY <1>4, <2>1, <2>2 DEF Reviewed
<1>5. CASE r = [q EXCEPT !.fresh = FALSE, !.goal = "none", !.reviews = 0]
  <2>1. IsPlan(r)
    BY <1>5 DEF IsPlan
  <2>2. r.phase = q.phase /\ r.goal = "none" /\ r.reviews = 0
    BY <1>5 DEF IsPlan
  <2> QED
    BY <2>1, <2>2 DEF Reviewed
<1> QED
  BY <1>1, <1>2, <1>3, <1>4, <1>5

PlanInv ==
  /\ Len(plans) \in Nat /\ plans = [k \in 1 .. Len(plans) |-> plans[k]]
  /\ \A k \in 1 .. Len(plans) : IsPlan(plans[k]) /\ Reviewed(plans[k])

\* The plans that are there stay, each of the phase it was made for.
PlansStay == /\ DOMAIN plans \subseteq DOMAIN plans'
             /\ \A k \in DOMAIN plans : plans'[k].phase = plans[k].phase

\* One more plan.
LEMMA PlanAdded ==
  ASSUME PlanInv, NEW p, plans' = Append(plans, Launched(p))
  PROVE  /\ PlanInv' /\ PlansStay
         /\ Len(plans') = Len(plans) + 1
         /\ DOMAIN plans' = DOMAIN plans \cup {Len(plans')}
         /\ plans'[Len(plans')].phase = p
<1> DEFINE S == {plans[k] : k \in 1 .. Len(plans)} \cup {Launched(p)}
<1>1. plans \in Seq(S) /\ Launched(p) \in S
  BY SeqDef DEF PlanInv
<1> HIDE DEF S
<1>2. /\ plans' \in Seq(S) /\ Len(plans') = Len(plans) + 1
      /\ plans'[Len(plans) + 1] = Launched(p)
      /\ \A k \in 1 .. Len(plans) : plans'[k] = plans[k]
  BY <1>1, AppendProperties
<1>3. IsPlan(Launched(p)) /\ Reviewed(Launched(p)) /\ Launched(p).phase = p
  BY DEF IsPlan, Reviewed, Launched
<1>4. /\ DOMAIN plans = 1 .. Len(plans) /\ DOMAIN plans' = 1 .. Len(plans')
      /\ Len(plans) \in Nat
  BY <1>1, <1>2
<1>5. 1 .. Len(plans') = (1 .. Len(plans)) \cup {Len(plans')}
  BY <1>2, <1>4
<1>6. \A k \in 1 .. Len(plans') : \/ k \in 1 .. Len(plans) /\ plans'[k] = plans[k]
                                 \/ plans'[k] = Launched(p)
  BY <1>2, <1>5
<1>7. \A k \in 1 .. Len(plans') : IsPlan(plans[k])' /\ Reviewed(plans[k])'
  BY <1>3, <1>6 DEF PlanInv
<1>8. plans' = [k \in 1 .. Len(plans') |-> plans'[k]] /\ Len(plans') \in Nat
  BY <1>2, LenProperties
<1>9. PlanInv'
  BY <1>7, <1>8 DEF PlanInv
<1>10. PlansStay
  BY <1>2, <1>4, <1>5 DEF PlansStay
<1> QED
  BY <1>2, <1>3, <1>4, <1>5, <1>9, <1>10

\* The plans change, but not their phases.
LEMMA PlansChanged ==
  ASSUME PlanInv,
         plans' = [k \in DOMAIN plans |-> plans'[k]],
         \A k \in DOMAIN plans : /\ IsPlan(plans[k])' /\ Reviewed(plans[k])'
                                 /\ plans'[k].phase = plans[k].phase
  PROVE  PlanInv' /\ PlansStay /\ DOMAIN plans' = DOMAIN plans
<1>1. DOMAIN plans = 1 .. Len(plans) /\ DOMAIN plans' = 1 .. Len(plans)
  BY DEF PlanInv
<1> DEFINE S == {plans'[k] : k \in 1 .. Len(plans)}
<1>2. plans' \in [1 .. Len(plans) -> S]
  BY <1>1
<1> HIDE DEF S
<1>3. plans' \in Seq(S)
  BY <1>2, SeqDef DEF PlanInv
<1>4. Len(plans') = Len(plans)
  BY <1>1, <1>3, LenProperties DEF PlanInv
<1> QED
  BY <1>1, <1>4 DEF PlanInv, PlansStay, IsPlan, Reviewed

\* Every step keeps the plans, and only plan and start add one.
LEMMA PlansKeep ==
  PlanInv /\ WorkflowNext
    => PlanInv' /\ PlansStay /\ (DOMAIN plans' = DOMAIN plans \/ Launch \/ Plan)
<1> SUFFICES ASSUME PlanInv, WorkflowNext
             PROVE  PlanInv' /\ PlansStay /\ (DOMAIN plans' = DOMAIN plans \/ Launch \/ Plan)
  OBVIOUS
<1> DEFINE Kept == PlanInv' /\ PlansStay /\ DOMAIN plans' = DOMAIN plans
<1> USE DEF disk, memory, bounds
<1>1. CASE plans' = plans
  BY <1>1 DEF PlanInv, PlansStay, IsPlan, Reviewed
<1>2. \A k \in DOMAIN plans : IsPlan(plans[k]) /\ Reviewed(plans[k])
  BY DEF PlanInv
<1>3. \A k \in DOMAIN plans : /\ IsPlan(Outdated(k)) /\ Reviewed(Outdated(k))
                              /\ Outdated(k).phase = plans[k].phase
  BY <1>2, PlanEdited DEF Outdated
\* The repository changed.
<1>4. CASE Changed
  <2>1. /\ plans' = [k \in DOMAIN plans |-> plans'[k]]
        /\ \A k \in DOMAIN plans : plans'[k] = Outdated(k)
    BY <1>4 DEF Changed
  <2>2. \A k \in DOMAIN plans : /\ IsPlan(plans[k])' /\ Reviewed(plans[k])'
                                /\ plans'[k].phase = plans[k].phase
    BY <1>3, <2>1
  <2> QED
    BY <2>1, <2>2, PlansChanged
\* The plan at hand changed.
<1>5. ASSUME NEW r, SetPlan(r),
             plan \in DOMAIN plans => IsPlan(r) /\ Reviewed(r) /\ r.phase = plans[plan].phase
      PROVE  Kept
  <2>1. /\ plans' = [k \in DOMAIN plans |-> plans'[k]]
        /\ \A k \in DOMAIN plans : plans'[k] = IF k = plan THEN r ELSE plans[k]
    BY <1>5 DEF SetPlan
  <2>2. \A k \in DOMAIN plans : /\ IsPlan(plans[k])' /\ Reviewed(plans[k])'
                                /\ plans'[k].phase = plans[k].phase
    BY <1>2, <1>5, <2>1
  <2> QED
    BY <2>1, <2>2, PlansChanged
<1>6. plan \in DOMAIN plans => IsPlan(plans[plan]) /\ Reviewed(plans[plan])
  BY <1>2
<1>7. CASE Plan \/ Launch
  BY <1>7, PlanAdded DEF Plan, Launch
<1>8. CASE PlannerReturns
  <2>1. PICK a, d : SetPlan([plans[plan] EXCEPT !.kind = a, !.deps = d])
    BY <1>8 DEF PlannerReturns
  <2>2. PICK r : r = [plans[plan] EXCEPT !.kind = a, !.deps = d] /\ SetPlan(r)
    BY <2>1
  <2>3. plan \in DOMAIN plans => IsPlan(r) /\ Reviewed(r) /\ r.phase = plans[plan].phase
    BY <1>6, <2>2, PlanEdited
  <2> QED
    BY <1>5, <2>2, <2>3
<1>9. CASE ReviewGoal
  <2>1. PICK r : r = [plans[plan] EXCEPT !.goal = "started", !.reviews = @ + 1] /\ SetPlan(r)
    BY <1>9 DEF ReviewGoal
  <2>2. plans[plan].goal = "none"
    BY <1>9 DEF ReviewGoal
  <2>3. plan \in DOMAIN plans => IsPlan(r) /\ Reviewed(r) /\ r.phase = plans[plan].phase
    BY <1>6, <2>1, <2>2, PlanEdited
  <2> QED
    BY <1>5, <2>1, <2>3
<1>10. CASE GoalReviewed
  <2>1. CASE plans[plan].goal # "started"
    BY <1>1, <1>10, <2>1 DEF GoalReviewed
  <2>2. CASE plans[plan].goal = "started"
    <3>1. PICK v \in {"PASS", "FAIL"} : SetPlan([plans[plan] EXCEPT !.goal = v])
      BY <1>10, <2>2 DEF GoalReviewed
    <3>2. PICK r : r = [plans[plan] EXCEPT !.goal = v] /\ SetPlan(r)
      BY <3>1
    <3>3. plan \in DOMAIN plans => IsPlan(r) /\ Reviewed(r) /\ r.phase = plans[plan].phase
      BY <1>6, <3>2, PlanEdited
    <3> QED
      BY <1>5, <3>2, <3>3
  <2> QED
    BY <2>1, <2>2
<1>11. CASE WriteApproval
  <2>1. /\ plans' = [k \in DOMAIN plans |-> plans'[k]]
        /\ \A k \in DOMAIN plans :
             \/ plans'[k] = Outdated(k)
             \/ \E s : plans'[k] = [Outdated(k) EXCEPT !.ids = s]
    BY <1>11 DEF WriteApproval
  <2>2. ASSUME NEW k \in DOMAIN plans
        PROVE  /\ IsPlan(plans[k])' /\ Reviewed(plans[k])'
               /\ plans'[k].phase = plans[k].phase
    <3>1. CASE plans'[k] = Outdated(k)
      BY <1>3, <3>1
    <3>2. ASSUME NEW s, plans'[k] = [Outdated(k) EXCEPT !.ids = s]
          PROVE  /\ IsPlan(plans[k])' /\ Reviewed(plans[k])'
                 /\ plans'[k].phase = plans[k].phase
      <4>1. \E x : plans'[k] = [Outdated(k) EXCEPT !.ids = x]
        BY <3>2
      <4>2. IsPlan(Outdated(k)) /\ Reviewed(Outdated(k)) /\ Outdated(k).phase = plans[k].phase
        BY <1>3
      <4>3. IsPlan(plans'[k]) /\ Reviewed(plans'[k]) /\ plans'[k].phase = Outdated(k).phase
        BY ONLY <4>1, <4>2, PlanEdited
      <4> QED
        BY <4>2, <4>3
    <3> QED
      BY <2>1, <3>1, <3>2
  <2> QED
    BY <2>1, <2>2, PlansChanged
<1>12. CASE RunTask \/ DropTask
  BY <1>1, <1>4, <1>12 DEF RunTask, Work, SetStatus, DropTask
<1>13. CASE RollbackFails \/ Edit \/ Crash
  BY <1>1, <1>4, <1>13 DEF RollbackFails, Edit, Crash
<1>14. CASE NextPhase \/ NoBudget \/ Reenter \/ NoQuestions \/ Unanswered \/ Answer
  BY <1>1, <1>14 DEF NextPhase, NoBudget, Reenter, NoQuestions, Unanswered, Answer, PlanAnew
<1>15. CASE AlreadyApproved \/ Refuse \/ Approve \/ WriteTask \/ WriteTaskFails
  BY <1>1, <1>15 DEF AlreadyApproved, Refuse, Approve, WriteTask, WriteTaskFails
<1>16. CASE NoTask \/ GoalKnown \/ GoalUnavailable \/ GoalMissed \/ GoalReplan
  BY <1>1, <1>16 DEF NoTask, GoalKnown, GoalUnavailable, GoalMissed, GoalReplan
<1>17. CASE Done \/ ReplansUsedUp \/ Replan \/ Superseded \/ Stop
  BY <1>1, <1>17 DEF Done, ReplansUsedUp, Replan, Superseded, PlanAnew, Stop
<1>18. CASE Start \/ \E k \in DOMAIN plans : PlanApprove(k) \/ ExecutePlan(k)
  BY <1>1, <1>18 DEF Start, PlanApprove, ExecutePlan, Enter
<1> QED
  BY <1>7, <1>8, <1>9, <1>10, <1>11, <1>12, <1>13, <1>14, <1>15, <1>16, <1>17, <1>18
  DEF WorkflowNext, Step, Planning, Approving, Executing, Closing, Command

LEMMA PlansHold == WorkflowSpec => []PlanInv
<1>1. Init => PlanInv
  BY DEF Init, PlanInv
<1>2. PlanInv /\ UNCHANGED workflowVars => PlanInv'
  BY DEF PlanInv, IsPlan, Reviewed, workflowVars, disk
<1> QED
  BY <1>1, <1>2, PlansKeep, PTL DEF WorkflowSpec

\* However often a plan's execution is repeated, and wherever it died, the review
\* of its goal is paid once for a state of the repository.
THEOREM GoalsReviewedOnce == WorkflowSpec => []GoalReviewedOnce
<1>1. PlanInv => GoalReviewedOnce
  BY DEF PlanInv, GoalReviewedOnce, Reviewed
<1> QED
  BY <1>1, PlansHold, PTL

-----------------------------------------------------------------------------
(* The planner's calls.                                                    *)

Calls(p) == {k \in DOMAIN plans : plans[k].phase = p}

\* What the workflow file allows for a phase.
Allowance(p) == saved[p].replans + saved[p].answers + (IF saved[p].plan = 0 THEN 0 ELSE 1)

CountInv == \A p \in 1 .. Phases :
  IsFiniteSet(Calls(p)) /\ Cardinality(Calls(p)) <= Allowance(p)

\* What is allowed grows with a launch, and never shrinks.
LEMMA AllowanceGrows ==
  ASSUME PhaseInv, PlanInv, WorkflowNext, NEW p \in 1 .. Phases
  PROVE  /\ Allowance(p) \in Nat /\ Allowance(p)' \in Nat
         /\ Allowance(p) <= Allowance(p)'
         /\ Launch /\ p = i => Allowance(p)' = Allowance(p) + 1
<1> USE DEF At, Goto, ByStart
<1>1. IsPhase(saved[p]) /\ Allowance(p) \in Nat
  BY DEF PhaseInv, IsPhase, Allowance
<1>2. CASE saved'[p] = saved[p] /\ ~(Launch /\ p = i)
  BY <1>1, <1>2 DEF Allowance
<1>3. CASE saved' = saved /\ ~Launch
  BY <1>2, <1>3
<1>4. CASE Launch
  <2>1. /\ i \in 1 .. Phases /\ saved[i].plan = 0
        /\ saved' = [saved EXCEPT ![i] = [saved[i] EXCEPT !.plan = plan']]
        /\ plan' = Len(plans')
    <3>1. /\ at = "head" /\ i <= Phases /\ phases[i].plan = 0 /\ plan' = Len(plans')
          /\ Save([phases[i] EXCEPT !.plan = plan'])
      BY <1>4 DEF Launch, Current
    <3>2. phases = saved /\ i \in 1 .. Phases + 1
      BY <3>1 DEF PhaseInv
    <3>3. i \in 1 .. Phases
      BY <3>1, <3>2, WorkflowAssumption
    <3> QED
      BY <3>1, <3>2, <3>3 DEF Save
  <2>2. plan' # 0
    BY <1>4, <2>1, PlanAdded DEF Launch, PlanInv
  <2>3. CASE p = i
    <3>1. PICK r : r = [saved[i] EXCEPT !.plan = plan'] /\ saved' = [saved EXCEPT ![i] = r]
      BY <2>1
    <3>2. r.plan = plan' /\ r.replans = saved[i].replans /\ r.answers = saved[i].answers
      BY <1>1, <2>3, <3>1 DEF IsPhase
    <3>3. saved'[p] = r
      BY <2>3, <3>1 DEF PhaseInv
    <3> QED
      BY <1>1, <2>1, <2>2, <2>3, <3>2, <3>3 DEF Allowance, IsPhase
  <2>4. CASE p # i
    BY <1>2, <2>1, <2>4 DEF PhaseInv
  <2> QED
    BY <2>3, <2>4
<1>5. CASE Answer \/ Superseded
  <2>1. ~Launch /\ i \in 1 .. Phases /\ saved[i].done = FALSE /\ IsPhase(saved[i])
    <3>1. at \in {"examine", "superseding"}
      BY <1>5 DEF Answer, Superseded
    <3>2. ~Launch
      BY <3>1 DEF Launch, Current
    <3>3. i \in 1 .. Phases + 1 /\ i # Phases + 1 /\ saved[i].done = FALSE
      BY <3>1 DEF PhaseInv
    <3>4. i \in 1 .. Phases
      BY <3>3, WorkflowAssumption
    <3> QED
      BY <3>2, <3>3, <3>4 DEF PhaseInv
  <2>2. PICK r : /\ saved' = [saved EXCEPT ![i] = r]
                 /\ \/ r = [saved[i] EXCEPT !.plan = 0, !.answers = @ + 1]
                    \/ r = [saved[i] EXCEPT !.plan = 0, !.replans = @ + 1]
    BY <1>5 DEF Answer, Superseded, PlanAnew, Save, PhaseInv
  <2>3. CASE p = i
    <3>1. /\ IsPhase(r) /\ r.plan = 0
          /\ r.replans + r.answers = saved[p].replans + saved[p].answers + 1
      BY <2>1, <2>2, <2>3, NextRound
    <3>2. saved'[p] = r
      BY <2>2, <2>3 DEF PhaseInv
    <3> QED
      BY <1>1, <2>1, <3>1, <3>2 DEF Allowance, IsPhase
  <2>4. CASE p # i
    BY <1>2, <2>1, <2>2, <2>4 DEF PhaseInv
  <2> QED
    BY <2>3, <2>4
<1>6. CASE Done
  <2>1. ~Launch /\ saved' = [saved EXCEPT ![i] = [saved[i] EXCEPT !.done = TRUE]]
    BY <1>6 DEF Done, Launch, Current, Save, PhaseInv
  <2>2. PICK r : r = [saved[i] EXCEPT !.done = TRUE] /\ saved' = [saved EXCEPT ![i] = r]
    BY <2>1
  <2>3. CASE p = i
    <3>1. r.plan = saved[p].plan /\ r.replans = saved[p].replans /\ r.answers = saved[p].answers
      BY <1>1, <2>2, <2>3 DEF IsPhase
    <3>2. saved'[p] = r
      BY <2>2, <2>3 DEF PhaseInv
    <3> QED
      BY <1>1, <2>1, <3>1, <3>2 DEF Allowance, IsPhase
  <2>4. CASE p # i
    BY <1>2, <2>1, <2>2, <2>4 DEF PhaseInv
  <2> QED
    BY <2>3, <2>4
<1>7. CASE PlannerReturns
  <2>1. saved' = saved
    BY <1>7 DEF PlannerReturns, Save, PhaseInv
  <2> QED
    BY <1>3, <1>7, <2>1 DEF PlannerReturns, Launch, Current
<1>8. CASE ~(Launch \/ Answer \/ Superseded \/ Done \/ PlannerReturns)
  <2> USE DEF disk, bounds
  <2>1. Command \/ Edit \/ Crash \/ Stop => saved' = saved
    BY DEF Command, Start, Plan, PlanApprove, ExecutePlan, Enter, Edit, Crash, Stop
  <2>2. NextPhase \/ NoBudget \/ Reenter \/ NoQuestions \/ Unanswered => saved' = saved
    BY DEF NextPhase, NoBudget, Reenter, NoQuestions, Unanswered
  <2>3. Approving => saved' = saved
    BY DEF Approving, AlreadyApproved, Refuse, Approve, WriteTask, WriteTaskFails,
           RollbackFails, WriteApproval
  <2>4. Executing => saved' = saved
    BY DEF Executing, RunTask, Work, NoTask, GoalKnown, ReviewGoal, GoalReviewed,
           GoalUnavailable, GoalMissed, GoalReplan
  <2>5. ReplansUsedUp \/ Replan \/ DropTask => saved' = saved
    BY DEF ReplansUsedUp, Replan, DropTask
  <2> QED
    BY <1>3, <1>8, <2>1, <2>2, <2>3, <2>4, <2>5 DEF WorkflowNext, Step, Planning, Closing
<1> QED
  BY <1>4, <1>5, <1>6, <1>7, <1>8

\* A launch adds one plan to its phase, and nothing else adds one to a phase.
LEMMA CallsGrow ==
  ASSUME PhaseInv, PlanInv, WorkflowNext, NEW p \in 1 .. Phases
  PROVE  \/ Calls(p)' = Calls(p)
         \/ Launch /\ p = i /\ Calls(p)' = Calls(p) \cup {Len(plans')}
<1>1. CASE DOMAIN plans' = DOMAIN plans
  <2>1. PlansStay
    BY PlansKeep
  <2> QED
    BY <1>1, <2>1 DEF PlansStay, Calls
<1>2. ASSUME NEW q, plans' = Append(plans, Launched(q))
      PROVE  Calls(p)' = IF p = q THEN Calls(p) \cup {Len(plans')} ELSE Calls(p)
  <2>1. /\ PlansStay /\ DOMAIN plans' = DOMAIN plans \cup {Len(plans')}
        /\ plans'[Len(plans')].phase = q /\ Len(plans') \notin DOMAIN plans
    BY <1>2, PlanAdded DEF PlanInv
  <2> QED
    BY <2>1 DEF PlansStay, Calls
<1>3. CASE Launch
  BY <1>2, <1>3 DEF Launch
<1>4. CASE Plan
  BY <1>2, <1>4, WorkflowAssumption DEF Plan
<1> QED
  BY <1>1, <1>3, <1>4, PlansKeep

\* The planner is paid once for a phase, and once more for each replan and each
\* round of answers that the workflow file counts, for any number of stops, deaths
\* and plans made by hand.
THEOREM PlannerPaidOnce == WorkflowSpec => []PlannerCallsCounted
<1>1. Init => CountInv
  <2> SUFFICES ASSUME Init, NEW p \in 1 .. Phases
               PROVE  IsFiniteSet(Calls(p)) /\ Cardinality(Calls(p)) <= Allowance(p)
    BY DEF CountInv
  <2>1. Calls(p) = {}
    BY DEF Init, Calls
  <2>2. Allowance(p) = 0
    BY DEF Init, Allowance, NewPhase
  <2> QED
    BY <2>1, <2>2, FS_EmptySet
<1>2. PhaseInv /\ PlanInv /\ CountInv /\ WorkflowNext => CountInv'
  <2> SUFFICES ASSUME PhaseInv, PlanInv, CountInv, WorkflowNext, NEW p \in 1 .. Phases
               PROVE  (IsFiniteSet(Calls(p)) /\ Cardinality(Calls(p)) <= Allowance(p))'
    BY DEF CountInv
  <2>1. IsFiniteSet(Calls(p)) /\ Cardinality(Calls(p)) <= Allowance(p)
    BY DEF CountInv
  <2>2. Cardinality(Calls(p)) \in Nat
    BY <2>1, FS_CardinalityType
  <2>3. /\ Allowance(p) \in Nat /\ Allowance(p)' \in Nat /\ Allowance(p) <= Allowance(p)'
        /\ Launch /\ p = i => Allowance(p)' = Allowance(p) + 1
    BY AllowanceGrows
  <2>4. CASE Calls(p)' = Calls(p)
    BY <2>1, <2>2, <2>3, <2>4
  <2>5. CASE Launch /\ p = i /\ Calls(p)' = Calls(p) \cup {Len(plans')}
    <3>1. /\ IsFiniteSet(Calls(p) \cup {Len(plans')})
          /\ Cardinality(Calls(p) \cup {Len(plans')}) <= Cardinality(Calls(p)) + 1
      BY <2>1, <2>2, FS_AddElement
    <3> QED
      BY <2>1, <2>2, <2>3, <2>5, <3>1, FS_CardinalityType
  <2> QED
    BY <2>4, <2>5, CallsGrow
<1>3. CountInv /\ UNCHANGED workflowVars => CountInv'
  BY DEF CountInv, Calls, Allowance, workflowVars, disk
<1>4. CountInv => PlannerCallsCounted
  BY DEF CountInv, Calls, Allowance, PlannerCallsCounted
<1> QED
  BY <1>1, <1>2, <1>3, <1>4, PhasesHold, PlansHold, PTL DEF WorkflowSpec
=============================================================================
