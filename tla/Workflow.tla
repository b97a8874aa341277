------------------------------- MODULE Workflow -------------------------------
(***************************************************************************)
(* start: goal files, one per phase, are planned, approved and executed in *)
(* their order (runWorkflow with runPlannerOnce, approvePlan, executePlan, *)
(* checkPlanGoal and the triage of questions and goals), together with the *)
(* commands that do one of these steps by hand (plan, plan-approve,        *)
(* execute-plan).  The operation lock lets one command run at a time; the  *)
(* user may edit the repository, and the command may die, at any moment.   *)
(* What a planner, an execution of a Task or triage says is chosen freely, *)
(* and so is, step by step, whether triage is switched on.                 *)
(***************************************************************************)
EXTENDS Naturals, Sequences, FiniteSets

CONSTANTS Phases,       \* goal files
          Results,      \* for each phase (0: none) what the planner may say: a kind and
                        \* a graph, that is, for each proposal those it depends on
          GoalOn,       \* efficiency.goal_verification
          Stopped,      \* in which states an execution of a Task may stop
          MaxReplans,   \* limits.triage.max_replans_per_plan
          MaxAnswers,   \* limits.triage.max_answers_per_plan
          DropGap,      \* may a command die after it dropped a Task, before the save?
          MaxPlans,     \* bound: plans
          MaxEvents     \* bound: plans made by hand, edits by the user, deaths, and
                        \* failures to undo, all together

ASSUME WorkflowAssumption ==
  /\ Phases \in Nat \ {0}
  /\ \A p \in 0 .. Phases : \A r \in Results[p] :
       r.kind \in {"proposed", "asks", "questions"} /\ r.deps \in Seq(SUBSET (Nat \ {0}))
  /\ Stopped \subseteq {"IN_PROGRESS", "REVIEW", "BLOCKED"}
  /\ {GoalOn, DropGap} \subseteq BOOLEAN
  /\ {MaxReplans, MaxAnswers, MaxPlans, MaxEvents} \subseteq Nat

VARIABLES
  saved,   \* workflows/<hash>.json: for each phase its plan (0: none), done, replans, answers
  plans,   \* the directories of plans, in the order of their creation
  tasks,   \* the Task files, by number
  \* The running command:
  cmd,     \* "start", "plan", "approve", "execute", or "none"
  at,      \* what it does next
  phases,  \* its copy of saved
  i,       \* the phase it is at
  plan,    \* the plan it works on
  todo,    \* what it has still to write: proposals to approve, or Tasks to drop
  edits, fails

disk   == <<saved, plans, tasks>>
memory == <<cmd, at, phases, i, plan, todo>>
bounds == <<edits, fails>>
workflowVars == <<disk, memory, bounds>>

NewPhase == [plan |-> 0, done |-> FALSE, replans |-> 0, answers |-> 0]
NoIds    == << >>

\* A file that does not exist yet says what the first save writes.
Init ==
  /\ saved = [p \in 1 .. Phases |-> NewPhase]
  /\ plans = << >> /\ tasks = << >>
  /\ cmd = "none" /\ at = "idle" /\ phases = saved /\ i = 0 /\ plan = 0 /\ todo = << >>
  /\ edits = 0 /\ fails = 0

-----------------------------------------------------------------------------
(* The graph of the proposals.                                             *)

Least(S) == CHOOSE x \in S : \A y \in S : x <= y

\* topoOrder: one after the other, of the proposals that are not placed and whose
\* prerequisites are, the first one.
Open(g, S) == {p \in DOMAIN g \ S : g[p] \subseteq S}
Orders(g) == {o \in [DOMAIN g -> DOMAIN g] :
                \A n \in DOMAIN g : LET open == Open(g, {o[m] : m \in 1 .. n - 1})
                                    IN  o[n] \in open /\ \A p \in open : o[n] <= p}
Order(g)  == CHOOSE o \in Orders(g) : TRUE

\* validateProposalGraph: no unknown proposal, and no cycle, of one node or more.
ValidGraph(g) == (\A p \in DOMAIN g : g[p] \subseteq DOMAIN g) /\ Orders(g) # {}

-----------------------------------------------------------------------------
(* Plans and Tasks.                                                        *)

Ids == DOMAIN tasks
Closed == {"DONE", "DROPPED"}
Approved(k) == plans[k].ids # NoIds
IdsOf(k)    == {plans[k].ids[p] : p \in DOMAIN plans[k].ids}
With(k, s)  == {t \in IdsOf(k) : tasks[t].status \in s}

\* checkDependencies.
DepsMet(t) == \A d \in tasks[t].deps : d \in Ids /\ tasks[d].status = "DONE"

\* Mutant: a blocked Task counts as finished.
OutstandingUnblocked(k) == With(k, {"TODO", "IN_PROGRESS", "REVIEW"})

\* The Tasks of the plan that are not finished.
Outstanding(k) == With(k, {"TODO", "IN_PROGRESS", "REVIEW", "BLOCKED"})

\* Mutant: a Task that waits for its review is not gone on with.
ResumableUnreviewed(k) == {t \in With(k, {"IN_PROGRESS"}) : DepsMet(t)}

Resumable(k) == {t \in With(k, {"IN_PROGRESS", "REVIEW"}) : DepsMet(t)}

\* readyTasks.
Ready(k) == {t \in With(k, {"TODO"}) : DepsMet(t)}

\* The repository is another one: no plan is made for it, no goal reviewed in it.
Outdated(k) == [plans[k] EXCEPT !.fresh = FALSE, !.goal = "none", !.reviews = 0]
Changed == plans' = [k \in DOMAIN plans |-> Outdated(k)]
SetPlan(r) == plans' = [plans EXCEPT ![plan] = r]

\* A change of one Task's status, which changes the repository.
SetStatus(t, s) == tasks' = [tasks EXCEPT ![t].status = s] /\ Changed

-----------------------------------------------------------------------------
(* The commands.                                                           *)

Idle == at = "idle"
At(a) == at = a
Goto(a) == at' = a
Events == Cardinality({k \in DOMAIN plans : plans[k].phase = 0}) + edits + fails
\* The command ends; what it had in memory is of no account.
Ends == /\ at' = "idle" /\ cmd' = "none" /\ i' = 0 /\ plan' = 0 /\ todo' = << >>
        /\ phases' = saved'

Enter(c, a, k) ==
  /\ Idle
  /\ cmd' = c /\ at' = a /\ plan' = k
  /\ UNCHANGED <<disk, phases, todo, bounds>>

Start          == Enter("start", "head", 0) /\ i' = 1
PlanApprove(k) == Enter("approve", "approve", k) /\ UNCHANGED i
\* resolveExecutablePlan refuses a plan that is not approved.
ExecutePlan(k) == Approved(k) /\ Enter("execute", "run", k) /\ UNCHANGED i

Launched(p) == [phase |-> p, kind |-> "running", deps |-> << >>, fresh |-> TRUE,
                ids |-> NoIds, goal |-> "none", reviews |-> 0]

Plan ==
  /\ Idle /\ Events < MaxEvents /\ Len(plans) < MaxPlans
  /\ plans' = Append(plans, Launched(0))
  /\ cmd' = "plan" /\ at' = "planning" /\ plan' = Len(plans')
  /\ UNCHANGED <<saved, tasks, phases, i, todo, bounds>>

Save(r) == phases' = [phases EXCEPT ![i] = r] /\ saved' = phases'

\* A pause, an interrupt or a budget stops a command between two steps.
Stop == at \in {"head", "run"} /\ UNCHANGED <<disk, bounds>> /\ Ends

-----------------------------------------------------------------------------
(* A phase: its plan.                                                      *)

\* Phases that are done are passed over; after the last the work is done.
NextPhase ==
  /\ At("head")
  /\ UNCHANGED <<disk, bounds>>
  /\ IF i > Phases THEN Ends
     ELSE /\ phases[i].done
          /\ i' = i + 1
          /\ UNCHANGED <<cmd, at, phases, plan, todo>>

\* Mutant: what is done is looked at again.
CurrentAgain == At("head") /\ i <= Phases

Current == At("head") /\ i <= Phases /\ ~phases[i].done

\* Mutant: the plan is noted when it is there.
LaunchUnsaved ==
  /\ Current /\ phases[i].plan = 0 /\ Len(plans) < MaxPlans
  /\ plans' = Append(plans, Launched(i))
  /\ plan' = Len(plans') /\ Goto("planning")
  /\ phases' = [phases EXCEPT ![i].plan = plan']
  /\ UNCHANGED <<saved, tasks, cmd, i, todo, bounds>>

\* onLaunch: the plan is noted before the planner is paid.
Launch ==
  /\ Current /\ phases[i].plan = 0 /\ Len(plans) < MaxPlans
  /\ plans' = Append(plans, Launched(i))
  /\ plan' = Len(plans') /\ Goto("planning")
  /\ Save([phases[i] EXCEPT !.plan = plan'])
  /\ UNCHANGED <<tasks, cmd, i, todo, bounds>>

\* The budget is used up (of plans, here): the planner is not called.
NoBudget ==
  /\ Current /\ phases[i].plan = 0 /\ Len(plans) = MaxPlans
  /\ UNCHANGED <<disk, bounds>> /\ Ends

\* A plan that was launched, whatever became of it, is never asked for again.
Reenter ==
  /\ Current /\ phases[i].plan # 0
  /\ plan' = phases[i].plan /\ Goto("examine")
  /\ UNCHANGED <<disk, cmd, phases, i, todo, bounds>>

\* validatePlannerResult: proposals, or none and questions.  What it asks of texts,
\* roles, gates and paths has the same outcome as a graph that cannot be ordered:
\* there is no plan.
Valid(r) == (r.kind = "questions" <=> r.deps = << >>) /\ ValidGraph(r.deps)

\* The result and the report: what fails validation is no plan.  A planner that
\* exits badly, or changes the repository, is reported as a failure, but only its
\* result counts in what follows (see the README).
PlannerReturns ==
  /\ At("planning")
  /\ \E r \in Results[plans[plan].phase] :
       SetPlan([plans[plan] EXCEPT
         !.kind = IF Valid(r) THEN r.kind ELSE "invalid",
         !.deps = IF Valid(r) THEN r.deps ELSE << >>])
  /\ IF cmd = "plan" THEN UNCHANGED saved /\ Ends
     ELSE Save(phases[i]) /\ Goto("examine") /\ UNCHANGED <<cmd, i, plan, todo>>
  /\ UNCHANGED <<tasks, bounds>>

HasQuestions == plans[plan].kind \in {"asks", "questions"}

NoQuestions ==
  /\ At("examine") /\ ~HasQuestions
  /\ Goto("approve")
  /\ UNCHANGED <<disk, cmd, phases, i, plan, todo, bounds>>

\* Nobody answers: triage is off, does not know, or has no answers left.
Unanswered == At("examine") /\ HasQuestions /\ UNCHANGED <<disk, bounds>> /\ Ends

\* The phase is planned again.
PlanAnew(r) ==
  /\ Save(r)
  /\ Goto("head") /\ plan' = 0
  /\ UNCHANGED <<plans, tasks, cmd, i, todo, bounds>>

\* Triage answers.
Answer ==
  /\ At("examine") /\ HasQuestions
  /\ phases[i].answers < MaxAnswers
  /\ PlanAnew([phases[i] EXCEPT !.plan = 0, !.answers = @ + 1])

-----------------------------------------------------------------------------
(* approvePlan.                                                            *)

AfterApproval == IF cmd = "start" THEN Goto("run") /\ UNCHANGED <<cmd, phases, i, plan, todo>>
                 ELSE Ends

AlreadyApproved ==
  /\ At("approve") /\ Approved(plan)
  /\ UNCHANGED disk /\ AfterApproval /\ UNCHANGED bounds

\* Mutant: the repository may have changed since the plan was made.
ApprovableStale(k) == plans[k].kind \in {"proposed", "asks"}

\* The result is there and valid, and the repository is the one it was made for.
Approvable(k) == plans[k].kind \in {"proposed", "asks"} /\ plans[k].fresh

\* Mutant: it is tried again.
RefuseAndRetry ==
  /\ At("approve") /\ ~Approved(plan) /\ ~Approvable(plan)
  /\ IF cmd = "start" THEN Goto("head") ELSE Goto("approve")
  /\ UNCHANGED <<disk, cmd, phases, i, plan, todo, bounds>>

Refuse ==
  /\ At("approve") /\ ~Approved(plan) /\ ~Approvable(plan)
  /\ UNCHANGED disk /\ Ends /\ UNCHANGED bounds

\* The Tasks are made one file after the other, in topological order.
Approve ==
  /\ At("approve") /\ ~Approved(plan) /\ Approvable(plan)
  /\ Goto("writing") /\ todo' = Order(plans[plan].deps)
  /\ UNCHANGED <<disk, cmd, phases, i, plan, bounds>>

LastId  == IF Ids = {} THEN 0 ELSE CHOOSE x \in Ids : \A y \in Ids : y <= x
\* The files this approval has written so far: the highest numbers.
Count   == Len(Order(plans[plan].deps)) - Len(todo)
Written == {t \in Ids : t > LastId - Count}

\* allocateTaskIds: the numbers after the last one, in topological order.
IdOf(p) ==
  LET order == Order(plans[plan].deps)
  IN  LastId - Count + (CHOOSE n \in DOMAIN order : order[n] = p)

TaskOf(p) == [plan |-> plan, prop |-> p, deps |-> {IdOf(d) : d \in plans[plan].deps[p]},
              status |-> "TODO"]

WriteTask ==
  /\ At("writing") /\ todo # << >>
  /\ LET p == Head(todo)
     IN  tasks' = [t \in Ids \cup {LastId + 1} |-> IF t = LastId + 1 THEN TaskOf(p) ELSE tasks[t]]
  /\ todo' = Tail(todo)
  /\ UNCHANGED <<saved, plans, cmd, at, phases, i, plan, bounds>>

\* Mutant: the files that were written stay.
WriteTaskFailsKept ==
  /\ At("writing") /\ todo # << >>
  /\ Changed /\ UNCHANGED <<saved, tasks, bounds>> /\ Ends

\* A write fails, and the files written before it are removed; with that the
\* repository is what it was.
WriteTaskFails ==
  /\ At("writing") /\ todo # << >>
  /\ tasks' = [t \in Ids \ Written |-> tasks[t]]
  /\ UNCHANGED <<saved, plans, bounds>> /\ Ends

\* Some of them cannot be removed (RECOVERY_AMBIGUOUS).
RollbackFails ==
  /\ At("writing") /\ todo # << >> /\ Events < MaxEvents
  /\ fails' = fails + 1
  /\ \E stuck \in SUBSET Written \ {{}} :
       tasks' = [t \in (Ids \ Written) \cup stuck |-> tasks[t]]
  /\ Changed /\ UNCHANGED saved /\ Ends
  /\ UNCHANGED edits

\* approval.json comes last.
WriteApproval ==
  /\ At("writing") /\ todo = << >>
  /\ plans' = [k \in DOMAIN plans |->
       IF k = plan THEN [Outdated(k) EXCEPT !.ids = [p \in DOMAIN plans[k].deps |-> IdOf(p)]]
       ELSE Outdated(k)]
  /\ UNCHANGED <<saved, tasks>> /\ AfterApproval /\ UNCHANGED bounds

-----------------------------------------------------------------------------
(* executePlan.                                                            *)

\* executeTask for t, with TaskLifecycle's outcomes: it is done, or it stops in
\* some state, or triage wants the rest of the plan replaced.
Work(t) ==
  /\ UNCHANGED saved
  /\ \/ SetStatus(t, "DONE") /\ UNCHANGED memory
     \/ \E s \in Stopped : SetStatus(t, s) /\ Ends
     \/ tasks[t].status = "BLOCKED" /\ SetStatus(t, "TODO") /\ Ends
     \/ /\ cmd = "start"
        /\ \E s \in Stopped : SetStatus(t, s)
        /\ Goto("replan") /\ UNCHANGED <<cmd, phases, i, plan, todo>>

\* Mutant: a Task that is stuck is passed over, in the order of the plan.
PickedPast ==
  IF Resumable(plan) # {} THEN Resumable(plan)
  ELSE IF With(plan, {"TODO"}) # {} THEN With(plan, {"TODO"})
  ELSE With(plan, {"BLOCKED"})

\* selectNextPlanTask: a blocked Task first, for triage alone; then one that can
\* be resumed; then one that is ready.
Picked ==
  IF With(plan, {"BLOCKED"}) # {} THEN With(plan, {"BLOCKED"})
  ELSE IF Resumable(plan) # {} THEN Resumable(plan)
  ELSE Ready(plan)

RunTask ==
  /\ At("run") /\ Outstanding(plan) # {} /\ Picked # {}
  /\ Work(Least(Picked))
  /\ UNCHANGED bounds

\* PLAN_TASK_BLOCKED without triage, PLAN_NO_READY_TASK.
NoTask ==
  /\ At("run") /\ Outstanding(plan) # {}
  /\ With(plan, {"BLOCKED"}) # {} \/ Picked = {}
  /\ UNCHANGED disk /\ Ends /\ UNCHANGED bounds

\* PLAN_COMPLETE, without or with a goal check.
Completed(verdict) ==
  IF verdict = "PASS"
  THEN IF cmd = "start" THEN Goto("done") /\ UNCHANGED <<cmd, phases, i, plan, todo>> ELSE Ends
  ELSE Goto("goalFailed") /\ UNCHANGED <<cmd, phases, i, plan, todo>>

\* checkPlanGoal with a report for this repository; a review that was begun and
\* has none is not begun again.
GoalKnown ==
  /\ At("run") /\ Outstanding(plan) = {}
  /\ GoalOn => plans[plan].goal # "none"
  /\ UNCHANGED disk
  /\ Completed(IF GoalOn THEN plans[plan].goal ELSE "PASS")
  /\ UNCHANGED bounds

\* Mutant: only a report counts.
ReviewGoalAgain ==
  /\ At("run") /\ Outstanding(plan) = {} /\ GoalOn
  /\ plans[plan].goal \in {"none", "started"}
  /\ SetPlan([plans[plan] EXCEPT !.goal = "started", !.reviews = @ + 1])
  /\ Goto("reviewing")
  /\ UNCHANGED <<saved, tasks, cmd, phases, i, plan, todo, bounds>>

\* verifier-started.json, and then the paid call.
ReviewGoal ==
  /\ At("run") /\ Outstanding(plan) = {} /\ GoalOn
  /\ plans[plan].goal = "none"
  /\ SetPlan([plans[plan] EXCEPT !.goal = "started", !.reviews = @ + 1])
  /\ Goto("reviewing")
  /\ UNCHANGED <<saved, tasks, cmd, phases, i, plan, todo, bounds>>

\* The verdict; a repository that changed meanwhile makes it FAIL, of the old one.
GoalReviewed ==
  /\ At("reviewing")
  /\ IF plans[plan].goal = "started"
     THEN \E v \in {"PASS", "FAIL"} :
            SetPlan([plans[plan] EXCEPT !.goal = v]) /\ UNCHANGED saved /\ Completed(v)
     ELSE UNCHANGED <<plans, saved>> /\ Completed("FAIL")
  /\ UNCHANGED <<tasks, bounds>>

\* The budget is used up, or there is no verifier.
GoalUnavailable ==
  /\ At("run") /\ Outstanding(plan) = {} /\ GoalOn /\ plans[plan].goal = "none"
  /\ UNCHANGED disk /\ Completed("FAIL") /\ UNCHANGED bounds

\* A human sees to it ...
GoalMissed == At("goalFailed") /\ UNCHANGED disk /\ Ends /\ UNCHANGED bounds

\* Mutant: a command that may not plan asks for a replan too.
GoalReplanAnyone ==
  /\ At("goalFailed")
  /\ Goto("replan")
  /\ UNCHANGED <<disk, cmd, phases, i, plan, todo, bounds>>

\* ... or triage wants a replan.
GoalReplan ==
  /\ At("goalFailed") /\ cmd = "start"
  /\ Goto("replan")
  /\ UNCHANGED <<disk, cmd, phases, i, plan, todo, bounds>>

-----------------------------------------------------------------------------
(* A phase: its end, or another plan for it.                               *)

Done ==
  /\ At("done")
  /\ Save([phases[i] EXCEPT !.done = TRUE])
  /\ Goto("head") /\ i' = i + 1 /\ plan' = 0
  /\ UNCHANGED <<plans, tasks, cmd, todo, bounds>>

ReplansUsedUp ==
  /\ At("replan") /\ phases[i].replans >= MaxReplans
  /\ UNCHANGED disk /\ Ends /\ UNCHANGED bounds

\* The Tasks of the plan in its order, which is that of their numbers.
InOrder(S) == [n \in 1 .. Cardinality(S) |-> CHOOSE t \in S : Cardinality({u \in S : u < t}) = n - 1]

\* Mutant: the phase forgets its plan first.
ReplanSaved ==
  /\ At("replan") /\ phases[i].replans < MaxReplans
  /\ Goto("superseding") /\ todo' = InOrder(IdsOf(plan))
  /\ saved' = [phases EXCEPT ![i].plan = 0, ![i].replans = @ + 1]
  /\ UNCHANGED <<plans, tasks, cmd, phases, i, plan, bounds>>

Replan ==
  /\ At("replan") /\ phases[i].replans < MaxReplans
  /\ Goto("superseding") /\ todo' = InOrder(IdsOf(plan))
  /\ UNCHANGED <<disk, cmd, phases, i, plan, bounds>>

\* supersedePlanTasks: what is not finished is dropped, by way of BLOCKED if the
\* table of transitions wants it so.
DropTask ==
  /\ At("superseding") /\ todo # << >>
  /\ LET t == Head(todo)
         s == tasks[t].status
     IN  IF s \in Closed THEN todo' = Tail(todo) /\ UNCHANGED <<plans, tasks>>
         ELSE IF s \in {"IN_PROGRESS", "REVIEW"} THEN SetStatus(t, "BLOCKED") /\ UNCHANGED todo
         ELSE SetStatus(t, "DROPPED") /\ todo' = Tail(todo)
  /\ UNCHANGED <<saved, cmd, at, phases, i, plan, bounds>>

Superseded ==
  /\ At("superseding") /\ todo = << >>
  /\ PlanAnew([phases[i] EXCEPT !.plan = 0, !.replans = @ + 1])

-----------------------------------------------------------------------------
(* The user and the machine.                                               *)

Edit ==
  /\ Events < MaxEvents
  /\ edits' = edits + 1
  /\ Changed
  /\ UNCHANGED <<saved, tasks, memory, fails>>

\* The command has dropped a Task of the plan that its phase still has.
InDropGap == At("superseding") /\ With(plan, {"DROPPED"}) # {}

\* The command dies, or a write of its own fails and it ends with an exception.
\* Files of an approval that it leaves behind make the repository another one.
Crash ==
  /\ ~Idle /\ Events < MaxEvents
  /\ DropGap \/ ~InDropGap
  /\ fails' = fails + 1
  /\ IF At("writing") /\ Written # {} THEN Changed ELSE UNCHANGED plans
  /\ UNCHANGED <<saved, tasks, edits>> /\ Ends

Planning  == NextPhase \/ NoBudget \/ Launch \/ Reenter \/ PlannerReturns
             \/ NoQuestions \/ Unanswered \/ Answer
Approving == AlreadyApproved \/ Refuse \/ Approve
             \/ WriteTask \/ WriteTaskFails \/ RollbackFails \/ WriteApproval
Executing == RunTask \/ NoTask \/ GoalKnown \/ ReviewGoal \/ GoalReviewed
             \/ GoalUnavailable \/ GoalMissed \/ GoalReplan
Closing   == Done \/ ReplansUsedUp \/ Replan \/ DropTask \/ Superseded

Step == Planning \/ Approving \/ Executing \/ Closing

Command == Start \/ Plan \/ \E k \in DOMAIN plans : PlanApprove(k) \/ ExecutePlan(k)

WorkflowNext == Step \/ Stop \/ Command \/ Edit \/ Crash

WorkflowSpec == Init /\ [][WorkflowNext]_workflowVars

\* A running command goes on: the calls it waits for have timeouts.
WorkflowFairSpec == WorkflowSpec /\ WF_workflowVars(Step)

-----------------------------------------------------------------------------
(* Properties.                                                             *)

ByStart == {"head", "examine", "done", "replan", "superseding"}
OnPlan  == {"planning", "examine", "approve", "writing", "run", "reviewing",
            "goalFailed", "done", "replan", "superseding"}
Statuses == {"TODO", "IN_PROGRESS", "REVIEW", "BLOCKED", "DONE", "DROPPED"}

WorkflowTypeOK ==
  /\ saved \in [1 .. Phases -> [plan : 0 .. Len(plans), done : BOOLEAN,
                                replans : 0 .. MaxReplans, answers : 0 .. MaxAnswers]]
  /\ \A k \in DOMAIN plans :
       /\ plans[k].phase \in 0 .. Phases
       /\ plans[k].kind \in {"running", "proposed", "asks", "questions", "invalid"}
       /\ plans[k].goal \in {"none", "started", "PASS", "FAIL"}
       /\ IdsOf(k) \subseteq Ids
  /\ \A t \in Ids : tasks[t].status \in Statuses /\ tasks[t].plan \in DOMAIN plans
  /\ cmd = "none" <=> Idle
  /\ at \in ByStart => cmd = "start" /\ i \in 1 .. Phases + 1
  /\ at \in OnPlan => plan \in DOMAIN plans
  /\ Idle => phases = saved
  /\ edits \in Nat /\ fails \in Nat /\ Events <= MaxEvents

\* However often a plan is approved, by start or by hand, with a death or a
\* failing write at any point of it, none of its proposals becomes two Tasks.
NoDoubleMaterialization ==
  \A t, u \in Ids : tasks[t].plan = tasks[u].plan /\ tasks[t].prop = tasks[u].prop => t = u

\* A plan that is approved has one Task for each proposal, which depends on the
\* Tasks of the proposals it depended on, each with a lower number; of one that
\* is not approved there is none, unless a death or a failure to undo came
\* ("the whole set is validated first"; "partial approval is no success").
AllOrNothing ==
  /\ \A k \in DOMAIN plans : Approved(k) =>
       LET ids == plans[k].ids IN
         /\ DOMAIN ids = DOMAIN plans[k].deps
         /\ \A p \in DOMAIN ids :
              /\ tasks[ids[p]].plan = k /\ tasks[ids[p]].prop = p
              /\ tasks[ids[p]].deps = {ids[d] : d \in plans[k].deps[p]}
              /\ \A d \in plans[k].deps[p] : ids[d] < ids[p]
  /\ fails = 0 /\ ~At("writing") => \A t \in Ids : Approved(tasks[t].plan)

\* No Task is begun before all that it depends on are done, in whatever order
\* stops, triage and re-entries come.
DependenciesDone ==
  \A t \in Ids : tasks[t].status \in {"IN_PROGRESS", "REVIEW", "DONE"} => DepsMet(t)

\* A plan that was accepted never makes its execution wait for itself: while
\* Tasks are left there is one to go on with.
NeverStuck ==
  At("run") /\ Outstanding(plan) # {} => Picked # {}

\* Whatever is repeated after a stop or a death, the planner is paid once for a
\* phase, and once more for each replan and each round of answers, of which the
\* workflow file keeps the count.
PlannerCallsCounted ==
  \A p \in 1 .. Phases :
    Cardinality({k \in DOMAIN plans : plans[k].phase = p})
      <= saved[p].replans + saved[p].answers + (IF saved[p].plan = 0 THEN 0 ELSE 1)

\* The review of the goal is paid once for a plan and a state of the repository
\* (checkPlanGoal: "no duplicate paid invocation").
GoalReviewedOnce == \A k \in DOMAIN plans : plans[k].reviews <= 1

\* A phase has one plan at a time: when it gets another one, no Task of the old
\* one is left to be executed, whenever the command died.  (A plan that came
\* with questions is excepted: see the README.)
OnePlanPerPhase ==
  \A t \in Ids :
    LET k == tasks[t].plan IN
      plans[k].kind = "proposed" /\ plans[k].phase # 0 /\ saved[plans[k].phase].plan # k
      => tasks[t].status \in Closed

\* A phase is called done when all Tasks of its plan are.
DoneIsWorked ==
  \A p \in 1 .. Phases : saved[p].done =>
    LET k == saved[p].plan IN
      k # 0 /\ Approved(k) /\ \A t \in IdsOf(k) : tasks[t].status = "DONE"

\* A phase that is done stays as it is, and comes after those before it ("never
\* replans completed phases").
CompletedStays ==
  /\ [](\A p \in 2 .. Phases : saved[p].done => saved[p - 1].done)
  /\ [][\A p \in 1 .. Phases : saved[p].done => saved'[p] = saved[p]]_workflowVars

\* Every command ends: no replan, answer or review makes another one forever.
WorkflowEnds == ~Idle ~> Idle
=============================================================================
