# Verification of molt-loop's Loop Runtime

`loopctl` (tools/loop-runtime) drives AI processes - Planner, Worker, Verifier,
Triage - through the life of a Task. Only the runtime writes a Task's status, and it
writes DONE only on the evidence of gate exit codes and an independent verifier.
Everything it knows is in files, so that it can be stopped or die at any point and be
started again. These modules model that machine, TLC checks them on small instances
and TLAPS proves what matters most for every instance.

## 1. Inventory

State is files; a `loopctl` invocation is a process that reads them, acts and ends.

| Component | Source (tools/loop-runtime) | State | Operations | What makes it correct |
|---|---|---|---|---|
| Task state machine | transitions.mjs | - | checkTransition | no status outside the table |
| Task store | task-store.mjs | `.loop/tasks/*.yaml`, `PAUSE` | loadTask, writeStatus | one writer; each write checked against the table |
| Stages | stages.mjs, loopctl.mjs | run directories | startFirstAttempt, startRetryAttempt, stageWorker, stageGate, stageVerify | artifacts in an order a crash cannot make wrong |
| Task loop | loop/orchestrator, next-action, stop-evaluator | memory of one execution | executeTask, resolveNextAction, applyTriageDecision | every step from the disk alone; ends; no paid call twice |
| Diagnosis, limits, retry | recovery/diagnose, limits, retry, resume, integration-subject, failure-memo | `recovery/` of a run | getDiagnosis, checkRetryBudget, checkRetryEligibility | retry only a diagnosed failure on an unchanged tree, within limits.yaml |
| Triage | recovery/triage.mjs | `triage/NN/` | runTriageOnce, triageMenu | chooses from a menu, counted, never stale |
| Gates | gate/ | `gate-report.json`, `gates/`, history | checkEligibility, executeGateSuite, completeGateOnly, executeGate | exit codes decide; bound to one subject |
| Verifier | verifier/ | `verification/` | checkVerifierEligibility, runVerifierOnce | PASS only for a tree that did not move |
| Subject | subject.mjs | - | computeSubject | covers everything git sees but `.loop-local/` |
| Operation lock | operation-lock.mjs | `operation.lock` | acquire, release | mutual exclusion of the commands that change something |
| Execution claim | loop/orchestrator, execution-report, reconcile | `executions/active/<task>.json` | claimExecution, heartbeat | no two executions of a Task |
| Bounded concurrency | concurrency.mjs | - | mapLimit | at most n at once; started work awaited; results by position |
| Isolation | worker/isolation.mjs | `workspaces/`, `integration.json` | runIsolatedWorker, integrateWorkspace | integration can be resumed, conflicts change nothing unnoticed |
| Plan executor | loop/plan-executor, goal-check, task-resources | - | selectNextPlanTask, executePlan | dependencies, budget, termination |
| Workflow | loop/workflow.mjs | `workflows/*.json` | runWorkflow, supersedePlanTasks | a phase's plan and its Tasks agree, replans bounded |
| Planner, approval | planner/ | `plans/` | runPlannerOnce, approvePlan, validators | all Tasks of a plan or none; acyclic |
| Usage ledger | usage-ledger.mjs, efficiency.mjs | usage files | checkBudget | spending caps |
| Adapters, config, YAML, self-check | adapters/, config.mjs, yaml-lite.mjs, gate/self-check.mjs | - | - | I/O and parsing |

How they interact: `main` takes the operation lock (except for read-only commands and
`diagnose`) and calls one command. `execute` claims the Task and loops: resolve the next
action from the disk, run one stage, repeat. A stage calls an adapter (worker, verifier)
or spawns gates, then writes its artifact, then the status. On a stop the loop asks the
Triage, whose decision starts another stage. `start` and `quick` put a workflow over
plans, and a plan executor over Tasks, each ending in `executeTask`; with isolated workers
the plan executor starts the first attempts of several Tasks at once and integrates what
they changed.

Hard behaviours: a crash between any two files of a stage; the working tree changing
under a running gate, verifier, triage or integration; commands on older runs; budgets
counted from directories; the same failure again after a retry; two processes at the lock;
a subprocess whose exit, pipes and timers come in any order; parallel workers that change
the same files; a plan whose Tasks are half made or half dropped. They are listed line by
line, with the properties that catch them, in `PROJECT.json` under `hazards`.

## 2. Modules

| Module | Models | Uses |
|---|---|---|
| `Transitions` | transitions.mjs | |
| `TaskPromise` | abstract specification: what a Task's status and its PASS report promise | Transitions |
| `Recovery` | what is concluded from the artifacts: diagnosis, budgets, next action, triage menu (pure operators) | |
| `TaskLifecycle` | one Task: loop, stages, triage, commands, crashes | Transitions, Recovery, TaskPromise |
| `MCTaskLifecycle` | outcome sets for TLC | TaskLifecycle |
| `RecoveryProofs` | lemmas about Recovery: the newest run, what a next action implies | Recovery, TLAPS |
| `TaskLifecycleProofs` | type correctness of TaskLifecycle | TaskLifecycle, RecoveryProofs |
| `PromiseProofs` | evidence of DONE, refinement of TaskPromise, what a PASS report ends | TaskLifecycleProofs |
| `BudgetProofs` | retry budgets, paid workers, the bound on transitions, the loop guard | TaskLifecycleProofs |
| `OperationLock` | operation-lock.mjs, one file system call per step | |
| `GateProcess` | executeGate: one gate as a subprocess, its pipes, timers and events | |
| `CommandRun` | composition: commands under the lock, the marker of an execution, a gate | OperationLock, GateProcess |
| `CommandRunProofs` | theorems about the lock and the composition | CommandRun, TLAPS |
| `IsolatedBatch` | a plan's parallel batch: pool, isolated workers, integration, budget | |
| `MCIsolatedBatch` | files and outcomes for TLC | IsolatedBatch |
| `IsolatedBatchProofs` | theorems about it: integration, order, the cap | IsolatedBatch, TLAPS |
| `Workflow` | start, plan, plan-approve, execute-plan: phases, plans, approval, goal review | |
| `MCWorkflow` | planner results for TLC; topoOrder against its definition | Workflow |
| `WorkflowProofs` | theorems about Workflow: phases, plans, paid calls | Workflow, TLAPS |
| `PlanProofs` | theorems about Workflow: approval, Tasks, what done means | WorkflowProofs |

### TaskLifecycle and Recovery

`status` is the status line of the Task file, `tree` everything else git sees (the
verification subject is the pair of both), `runs` the run directories in the order of
their ids, each a record of the artifacts in it (`env`, `gate`, `ver`, `diag`, lineage),
`triage` the recorded decisions, `paused` the PAUSE file. These survive a crash. `pc`,
`exec` and `stop` are the memory of the process that holds the operation lock: `pc` is
`"loop"` at the head of executeTask's loop, otherwise the stage, cut where files are
written or somebody else runs:

    snapshot -> worker -> requested        stageWorker: run directory, AI call, envelope, status
    gate                                   executeGateSuite up to its report
    verify -> verdict                      runVerifierOnce up to its report, then DONE
    triage -> apply                        the AI call, then applyTriageDecision

One iteration (`Step(action)`) reads the disk, resolves the action with
`resolveNextAction` - a pure operator of Recovery - and takes the stage's first step; the
diagnosis that resolving writes (`Resolved`) is part of it. `Return` goes back to the loop
under `execute` and ends the process under a single command. The environment chooses what
an AI process or a gate suite answers (`WorkerOutcomes`, `GateOutcomes`,
`VerifierOutcomes`), edits the tree, toggles PAUSE, kills the process (`Crash`) and types
commands. The command `diagnose` takes no lock and interleaves with everything.

What is abstracted: a tree is a model value; two failures of a kind differ by a member of
`Details`; pairs of trees say whether a change is covered by `recovery_paths` (`Approved`)
or touches the control plane (`Protected`). Budgets, interrupts, deadlines, a missing
adapter and snapshot errors are `CallsCanFail`. Assumed of the rest: dependencies are met,
workers are not isolated and do not write their own status line (a policy violation leaves
it alone), an edit does not touch the Task's body, a failure memo can be distilled, the two
renames of an archive and the writing of a snapshot are one step each, and a crash in the
middle of `applyTriageDecision`'s archiving is not a step of its own.

### OperationLock, GateProcess and CommandRun

Each process is one command: open with O_EXCL, write the pid, or read the owner, probe it
with signal 0, read again, unlink, try again once; then the command, then the two steps of
the release. A member of `CanCrash` may die anywhere, and its write of the pid may fail
(`WriteFails`), in which case it lives on, ends with the error and leaves an empty lock that
every later command refuses. No pid is used twice.

GateProcess is the event machine of `executeGate`: the shell, what it leaves behind holding
a pipe (`holders`), the two artifact streams, the three timers (timeout, SIGKILL, giving up)
and the close events are independent of each other; `settle` is called from each handler and
decides once. CommandRun puts it under the lock: while a process is `"holding"`, `work` says
what its command does - look at the marker or not, write it (a truncation, then the content),
run a gate, report, remove it - and a process that dies leaves the lock and the marker. While
the stage runs its heartbeat may begin at any moment (`Beat`), and truncates and writes the
marker once more. `Forget` is what becomes of a gate whose listener is gone. The age of a
heartbeat is a free choice; that the marker cannot be written for another reason than a death
is left out.

### IsolatedBatch

The runtime is one event loop. `turn` is the Task whose synchronous section runs; a section
is cut where a file is written, since the user may edit (`Edit`) and the process may die
(`Crash`) in between. `stage` is the progress of each item of the pool:

    admitted -> child -> ended -> collected -> journaled -> installing -> sealed -> over

`tree[f]` is the set of changes in file f, so that a lost change is visible: an integration
replaces a file by the worker's copy, `base[t][f]` with t added. `env` and `journal` are what
survives of an item; `Verify`, `ResumeIntegration`, `ApplyWorkerResult` and `Ambiguous` are
what `executeTask` does with them, right after the batch for its first Task (mode `"first"`), and
then, in this or a later execution, for the Task that selection finds.

The batch is as wide as its pool, so mapLimit begins every item before it can note that one has
thrown: an item that throws (`AdmitFails`) ends the plan's execution after the batch, and does not
keep the other Tasks from being claimed, copied and paid. An item whose copy fails
(`LaunchFails`) or whose worker asks for nothing ends quietly. A worker may ask for BLOCKED,
and the plan then waits for a person. At most `MaxFaults` installations fail in the middle
(`InstallFails`): the journal stays open.

Abstracted: the batch is the first `Width` ready Tasks; each costs 1; a file's comparison and
its rename are one step (the code compares hashes immediately before it renames); the check
that a workspace was not changed after its worker ended, symbolic links and path checks are
left out; Tasks of the batch do not depend on each other (those that do are not ready). Left out
as well: PAUSE, an interrupt or a deadline that makes an item of the pool return without a call,
Triage for a blocked Task (TaskLifecycle has it), the temporary file of a copy that failed, and the
markers the items write.

### Workflow

`saved` is the workflow file, `plans` the plan directories, `tasks` the Task files; `cmd`,
`at`, `phases`, `i`, `plan`, `todo` are the memory of the one command that runs. Between
two steps the command may die (`Crash`) and the user may edit (`Edit`), after which no open plan is fresh
and no goal report counts. approvePlan writes one Task file per step and its record last;
supersedePlanTasks drops one Task per step and the workflow file forgets the plan afterwards.
Abstracted: what a planner says is a kind and a graph (`Results`), a Task is worked on in one
step with the outcomes of TaskLifecycle (`Work`), Triage may be there or not at each step and
its own count of decisions for a plan is left out, so that the model can do more than the
code. A budget is a number of plans (`MaxPlans`). An edit that is undone again is not
modelled, nor is a death between making a plan's directory and `onLaunch`. A status set by
hand is in TaskLifecycle.

Three behaviours that the model has because the code does, and that no property forbids:
the branch that answers questions gives the phase another plan without dropping Tasks of the
old one, which exist when it was approved by hand (hence the exception in `OnePlanPerPhase`);
a planner that exits badly after a valid result is reported as not approvable, but approvePlan
looks only at the result; and a phase whose planner or approval died half way is refused by
every later `start`, the Task files of the half approval staying where they are.

## 3. Runs

| Run | Question | Bounds and why they are enough |
|---|---|---|
| `auto` | What may `execute` and `resume` do to a Task, with triage and replans? | Two trees and one edit: every freshness test sees equal and different. Retry 1, hint 1, triage 2, attempts 3: every limit is reached and each blocks at least once. One crash, between a PASS report and its DONE write. Outcomes: a worker that asks for REVIEW or BLOCKED or fails, gates and a verifier that pass or fail. |
| `manual` | Can any row of the diagnosis tables, a failed call, PAUSE, a crash or a person's command break the table, the promise, the limits or the evidence of DONE? | All outcomes of workers, gates and verifiers; two attempts, so that each is met by a first attempt and by a retry; one command anywhere (on any run), one crash at any step, one PAUSE. One tree: the status line is part of the verification subject, so staleness still occurs. |
| `gate_only` | Gates-only completion; does the loop guard hold when no limit does? | Eight triage decisions against a guard at 16. |
| `stops` | Does every execution end? | Liveness; a moving tree, calls that fail, triage. |
| `resume` | Does running `execute` again reach DONE after crashes? | Liveness; three crashes at any point but inside a worker attempt. |
| `lock` | Do the lock, the marker and the gate keep their promises together, and do commands end? | Three processes, one of which may die anywhere or fail to write the lock: owner, recoverer and newcomer. Every order of exit, pipes, write errors, timers and heartbeats. |
| `batch` | Does isolation lose, halve, abandon or overspend anything, and is what a good worker did integrated in the end? | Two Tasks, side by side without a cap and one after the other, in two batches, under one; two files, so that an integration has a middle; caps below and at what the batch wants; one edit, one crash, one failing installation. The theorems have every number of Tasks. Also liveness. |
| `workflow` | Do phases, plans and Tasks agree, whatever is repeated, edited or dies? | Two phases; a plan of two Tasks, one depending on the other, and a cyclic one; a replan, an answer; three plans; one event (plan by hand, edit, death or failing rollback) at any step; two events in one history are not explored. |
| `stale_request`, `lock_crash`, `lost_changes`, `workflow_crash` | Statements of the documents that the code does not keep (section 6). | One crash or command each. |

`CHECK_DEADLOCK FALSE` stands where the system really stops: in `manual` a DROPPED Task,
in the lock runs processes that have all ended, in the batch runs a plan that is done or waits
for a person, in `workflow` bounds that are used up.

What the properties say:

- `DoneByLatest` - a Task driven by `execute` is DONE only by the PASS report of its newest
  attempt, whose gates passed on the very same tree. `EvidencedDone` is the weaker form that
  holds with any run.
- `RetryBudget`, `WorkersBounded` - paid attempts stay within limits.yaml whichever command,
  loop or triage started them, and whatever crashed.
- `GuardNeverNeeded`, `TicksBounded` - the loop guard is a last line of defence, and a line.
- `PassIsFinal` - once a PASS report exists it is neither archived nor paid for again.
- `StageStatus` - no other command moves the Task under a running stage.
- `KeepsPromise` - TaskLifecycle implements TaskPromise: the refinement mapping takes
  `passed` to "some run has a PASS report".
- `ExecutionStops`, `EventuallyDone` - liveness.
- `MutualExclusion`, `LockFreed` - the lock: one holder, and every command that does not die
  ends, also one whose gate hangs, ignores SIGTERM or leaves a child behind.
- `PassIsEarned` - a gate has PASS only for exit code 0, in time, with its whole output on
  disk. `MarkerIsOwn`, `OnlyTornRefuses` - an execution never has another's marker under it,
  and only a marker that a death tore makes a command refuse.
- `NothingLost`, `ReviewIsWhole`, `NoHalves`, `Integrated` - integration overwrites nobody,
  is complete before a review begins, leaves no half of itself without an edit, a death or a
  file system error, and comes to its end when execute-plan is run again.
- `BatchAwaited`, `CapRespected` - no item of a batch is abandoned when another throws: before
  anything else goes on each has ended, and what a paid worker brought is with its run, unless
  the runtime died; with a cap, a paid call is over before the next is admitted.
- `NoDoubleMaterialization`, `AllOrNothing` - the Tasks of a plan are made once and whole.
- `DependenciesDone`, `NeverStuck`, `DoneIsWorked`, `OnePlanPerPhase`, `CompletedStays` -
  the order of Tasks and phases, and what a phase that is done means.
- `PlannerCallsCounted`, `GoalReviewedOnce` - paid calls of planner and goal verifier.
- `WorkflowEnds` - every command ends.

The topological order of proposals is compared with its definition (a permutation in which
everything follows what it depends on, the least of them) by an `ASSUME` of MCWorkflow, on all
512 graphs of three proposals.

Fairness: `WF_vars(Runtime)` - a started process keeps running, because every AI call and
every gate has a timeout. `resume` adds `WF_vars(Execute(FALSE))`: the user keeps typing the
command, which is what the README tells them to do. In `lock` some process that can go on does,
which is weaker than fairness for each; the timers of a gate are strongly fair, because Node fires
them and a heartbeat, which disables them for the two steps of its write, begins again and again.
Nothing is assumed of the gate's shell or of what it leaves behind. In `batch` the event loop
is fair, with execute-plan typed again after a stop, and so is the end of a child, which its timeout
enforces. In `workflow` only the steps of a running command are. Nothing is assumed of edits, PAUSE
or other commands.

## 4. Proofs

TLAPS checks these for every value of the constants that the `ASSUME`s of the modules
allow: any limits, any sets of outcomes, any number of edits, crashes and commands.

| Theorem | Says | Assumes |
|---|---|---|
| `TypeCorrect` | `TypeOK` always | |
| `DoneIsEvidenced` | `EvidencedDone` always | nobody types DONE |
| `PromiseKept` | `KeepsPromise`: every step is a step or a stutter of TaskPromise | nobody types DONE |
| `StageStatusHolds` | `StageStatus` always | nobody types DONE |
| `DoneIsByLatest` | `DoneByLatest` always | nobody types a command but execute and resume |
| `PassStaysFinal` | `PassIsFinal` | nobody types a command but execute and resume |
| `RetriesWithinBudget` | `RetryBudget` always | |
| `WorkersAreBounded` | `WorkersBounded` always | nobody types a command but execute and resume |
| `TransitionsBounded` | `TicksBounded` always | |
| `GuardIsNeverNeeded` | `GuardNeverNeeded` always | the guard is larger than what the limits pay for |
| `LockTypeCorrect` | the lock's `TypeOK` always | |
| `LockExcludes` | `MutualExclusion` whoever dies or cannot write | recoveries do not overlap (`Sole`) |
| `LockExcludesTheLiving` | `MutualExclusion` | nobody dies or fails to write |
| `RunTypeCorrect` | `RunTypeOK` always | recoveries do not overlap |
| `NoPassMadeUp` | `PassIsEarned` always | recoveries do not overlap |
| `MarkersAreOwn`, `TornMarkersOnly` | `MarkerIsOwn`, `OnlyTornRefuses` | recoveries do not overlap |
| `BatchTypeCorrect` | `BatchTypeOK` always | |
| `ChangesKept` | `NothingLost` | |
| `BatchesAreAwaited` | `BatchAwaited` always | |
| `ReviewsAreWhole` | `ReviewIsWhole` always | no death between a result and its journal |
| `NothingByHalves` | `NoHalves` always | |
| `CapIsRespected` | `CapRespected` always | |
| `CompletedStay` | `CompletedStays` | |
| `GoalsReviewedOnce` | `GoalReviewedOnce` always | |
| `PlannerPaidOnce` | `PlannerCallsCounted` always | |
| `WorkflowTyped` | `WorkflowTypeOK` always | |
| `ApprovedWhole` | `AllOrNothing` always | |
| `MaterializedOnce` | `NoDoubleMaterialization` always | |
| `DependenciesFirst` | `DependenciesDone` always | |
| `OnePlanAtATime` | `OnePlanPerPhase` always | |
| `NeverWaitsForItself` | `NeverStuck` always | no death between a drop and the save |
| `DoneOnlyIfWorked` | `DoneIsWorked` always | no death between a drop and the save |

"Nobody types DONE" is `DoneIsNotTyped`: either the command `transition` does not name it
(`"DONE" \notin OperatorTargets`), or nobody types any command but execute and resume
(`MaxOps = 0`). It may be written without a report (section 6). `MaxOps = 0` is also what the
three theorems assume that are about a Task left to the loop: `run`, `retry`, `gate --rerun` and
`snapshot` typed by hand do start attempts, archive reports and make runs that they exclude;
edits, PAUSE, deaths and any number of executions stay. The guard's assumption is
`6 + 5 * (RetryMax + HintMax) + 6 * TriageMax < loopGuardLimit`, 33 against 34 in the shipped
.loop/policies/limits.yaml; `manual` and `resume` have limits that satisfy it too; `auto` is at
equality, and there TLC finds that `GuardNeverNeeded` still holds. The runs `lock_crash`, `lost_changes` and `workflow_crash` show
that `Sole`, `~CrashUnjournaled` and, for `DoneOnlyIfWorked`, `~DropGap` cannot be dropped
either.

*Types.* `TypeOK` is not inductive: a stage that ends writes to `runs[exec.run]`, which must
exist. `TypeInv` adds `AtHand`, which says that it does, and that the run an attempt starts
from is older than the new one. That the loop works on an existing run follows from
`NextActionMeans` (RecoveryProofs): the actions that need a completed run are chosen only
when there is one.

*Evidence.* `EvidencedDone` says nothing of the moments before DONE, so `SafeInv` carries
them: a running verifier's subject is a REVIEW tree and the one the gates were bound to; at
`verdict` the report on disk is a PASS; at `requested` the request is one a worker may make,
so it cannot be DONE; a Triage is never asked about a DONE Task, so that no decision can
archive the report of one; every PASS report is evidence (`PassedIsEvidence`). Each step then
is a `LegalMove` - it keeps the status and all verdicts, or judges a Task that is not DONE,
or moves it along the table, to DONE only with a PASS report - and a legal move maps to a
step of TaskPromise (`MoveRefines`). The command `diagnose`, which takes no lock, is shown to
write nothing that a running stage relies on.

*What a PASS report ends.* That DONE rests on the newest attempt is a matter of what nobody does
between the report and the DONE write. `ReadyInv`: gates, verifier and Triage work on the newest
completed run, and a verifier runs on gates that passed. `FinalInv`: once a report is PASS it is
that run's, its gates are the ones it was built on, the Task is in REVIEW or DONE, no stage is at
work but the write itself, and a Triage that is asked - the tree may have moved since - may choose
nothing but a replan, which changes neither report nor run (`PassedChoices`). Before there is a
PASS report `ReadyInv` is kept by what resolving chooses; the step that makes one (`JudgedFinal`)
establishes `FinalInv`, and `PassedStep` shows that no later step leaves it. `DoneByLatest` and
`PassIsFinal` follow.

*Budgets.* The budget is checked when an attempt is decided on; its run directory, which is
what later checks count, appears only with the next step. `BudgetInv` remembers at `snapshot`
that one more attempt is affordable. Every step has one of four shapes (`StepShape`): keep
the act and attempt number of every run, decide on an attempt, create the run decided on
(these three are `BudgetShape`), or create a run for the command `snapshot`. For `TicksBounded`
the invariant adds that a Triage was asked below the guard, because its decision is applied
without consulting it.

Attempts that are not retries of the ladder - the first one, another first one after UNBLOCK, one
with a lesson - are not in these budgets. `CountInv` counts every run for one of the four acts.
`DueInv` says that first attempts and lessons, with the one that is `Due` - the Task is TODO, or
the attempt is decided on and has no run yet - are at most one more than the decisions of the
Triage: an attempt becomes due only by a decision (`DueStep`), and creating its run uses it up.
Adding this to the budgets of the ladder gives `WorkersBounded`.

*The guard.* `TallyInv` compares the transitions an execution has counted, and those still ahead of
it, with what its limits have paid for (`PaidOf`): five for an attempt, one for the one automatic
rerun of the gates, five more for each retry and six for each decision of the Triage. What is ahead
is read off the files: the gates and the verdict of the newest run (`ReviewAhead`), where a verifier
that broke may be called once more unless that was done (`verHistory`); a pending request
(`ProgressAhead`); for a worker at work, the larger of what it may leave and what lies there
already, since a worker that could not be called leaves the loop with the older run
(`WorkerAhead`). Each iteration takes from what is ahead at least what it counts. The budgets bound
what is paid for, so a loop at the guard would have counted more than that.

*Lock.* `LockInv` says what each point between two file system calls knows about the file:
who created it, whether its pid is written, and that a process about to unlink it is removing
a dead owner's file. `Sole` (recoveries do not overlap) is a part of the specification that
the first lock theorem is about, not a consequence of the code.

*Commands.* `GateInv` says of a gate that the close event of its child means drained pipes,
that only the timeout arms the timers that give up, and that a settled gate has no timer left:
with it, whatever event settles the gate, PASS needs exit code 0, both artifacts and no
timeout (`SettleKeeps`, used for each handler). `MarkerInv` relates marker and lock: a
marker that is there belongs to a process that has died, or that holds the lock and is between
writing and removing it. Every step of the composition is a step of the lock or a stutter for
it (`RunIsLock`), so that the theorems about the lock are theorems about the composition.

*Batches.* `InstallInv`: during an installation what is not left to do is in the tree. With it
`TreeGrows` shows that no step takes a change out of a file. `WorkInv` ties a Task's status to
its stage - what waits in the pool is TODO, what is at work is IN_PROGRESS and has no envelope
before its worker was heard of, and outside a batch nothing is under way but one section.
`SealInv` is `ReviewIsWhole` with what it needs before: a result without a journal is one
whose journal is being written at this moment, and a journal is closed only when every changed
file is in the tree. A death at that moment is what the assumption excludes. For `NoHalves`,
`HeardInv` says that nothing of a Task is in the tree before its envelope is there, and `HalvesInv`
that what a section has compared stays as it found it until it is installed: sections do not
interleave, and only an edit, a death or an installation that fails comes between two steps of one. `CapInv` is `CapRespected`
with the moments before: under a cap what is selected, admitted or running is one Task, and it
was admitted below the cap, with no unknown cost beside it when that must stop the plan.
For `BatchAwaited`, `PaidInv` says that, while the runtime has not died, a worker that was not
launched or still runs has no result, that one that was paid and has ended has an envelope as soon as
the runtime has heard of it, and that an envelope has a journal once the section that took it is over
(`Kept`); with `WorkInv`, a batch is left only when nobody is at work.

*Workflow.* `PhaseInv` says that the phases in memory are those of the file (a death forgets
nothing that a step relies on), and that `start` is at a phase that is not done after phases
that all are; it is inductive and gives `CompletedStay`. `PlanInv` carries `Reviewed`: a plan
whose goal has no result on disk has not been reviewed since it last changed. For
`PlannerPaidOnce` the calls of a phase are compared with its `Allowance`, what the workflow
file counts: only a launch adds a call, and the same save takes the plan number that makes the
allowance one larger; a replan or an answer gives the plan number back and counts one round
more (`AllowanceGrows`), so the allowance never shrinks.

*Plans and Tasks.* None of the properties of approval is inductive: they speak of plans that
are approved, while what could go wrong happens before. `WorkflowInv` therefore describes every
state: `ControlInv` says for each place of the command which plan it is at and what holds of it
(while it is written it is not approved; what is executed is; `start` is at the plan its phase
has); `KindInv` that only accepted graphs are approved; `Whole` that an approved plan's Tasks are
its proposals and nothing else; `Leftover` that the Tasks of one that is not approved are
untouched, and that such a plan is being written just now or is not fresh, and so can no more be
approved: that is what keeps a half approval from being completed by a second one; `InWork` that
the Task files written so far are those of the first proposals in topological order, with the
highest numbers, so that the next number is right, a rollback removes exactly these, and the
numbers in the approval are theirs; `DropInv` that while a plan is replaced what is not finished
is still to be dropped. These parts need each other and are kept together. About the order:
`OrderSound` shows, with no induction, that whatever order `Order` chooses for an accepted graph
has each proposal once and after those it depends on; the numbers inherit that.

Three more invariants rest on it. `BegunInv`: a Task that was begun, BLOCKED included, has its
dependencies done; what is finished stays as it is (`ClosedStays`), since only `RunTask` and
`DropTask` change a status, of a Task that is not finished (`StatusChanges`). `PhasePlanInv`: an
accepted plan that its phase no longer has is approved and finished; the only way to lose it is
`Superseded`, when `DropInv` has nothing left. `DroppedInv`, which assumes that no death comes
between a drop and the save: a plan with a dropped Task is being replaced or was. So a plan at
which `start` works has none, and when nothing of it is left all is done (`AllDone`); and the
least Task that is left has all it depends on done, since these have lower numbers, which is
`NeverStuck`. For `WorkflowTypeOK`, `BoundInv` adds that a plan is replaced only below the limit
and counts the events.

Only model-checked: liveness (`ExecutionStops`, `EventuallyDone`, `LockFreed`, `Integrated`,
`WorkflowEnds`), which is out of the prover's reach. Every invariant and every action property
that a passing run checks is the property of one of the theorems above, under the assumption named
there. That every graph without a cycle has an order, so that none is refused wrongly, needs an
induction over the graph; the `ASSUME` of MCWorkflow checks it on all graphs of three proposals.

## 5. Not modelled

- Adapters, YAML, prompts, the context of the calls, validation of texts and paths, report
  layout: I/O and text. They are seen through their outcomes.
- Execution reports, `reconcile` and the self-check: read-only findings.
- Read-only leftovers. A crash in a verifier call (verifier/context-builder.mjs:241) or
  between two gates (gate/runner.mjs:342) leaves files of mode 0444 where the next call
  writes; they are archived only with a report. For a user other than root the Task does not
  get past them until somebody removes them. The constant `ReadOnlyEnforced` of TaskLifecycle
  has this on, and off in `resume`, which asks whether everything else leads to DONE.
- Usage: tokens, the caps of a single Task, the sums that are printed. A spent budget is one of
  the reasons of `CallsCanFail`, of `GoalUnavailable` and of `Stop`.
- Tasks with `auto_dispatch: false`, Task files that disappear, directories of plans that a
  death leaves without `onLaunch`.
- A completion policy that changes between two executions of a Task. Gates-only completion and the
  verifier write the same report file, and next-action.mjs:165 compares the method in it with the
  policy (`AuthorizedMethod`); each run has one policy throughout, so that no property would notice
  the comparison missing.
- The gate suite's order. Neighbouring gates that are `parallel_safe` go through mapLimit with fewer
  lanes than gates, where an error does keep the rest from beginning; a suite is one step of
  TaskLifecycle, and CommandRun has one gate.
- In isolation: a workspace changed after its worker ended, links, and the moment between the
  comparison of a file and its rename.

What would come next: an abstract specification of a plan that Workflow implements, as TaskPromise
is of a Task, the suite of several gates over GateProcess, and a composition of Workflow with
TaskLifecycle in place of `Work`.

## 6. What the runs found

- `stale_request`: the loop applies the request of the newest *complete* run, which after a
  died attempt is an earlier one. An unblocked Task becomes BLOCKED again by the old request.
- `lock_crash`: two recoveries of one dead owner's lock can both end up holding it.
- `lost_changes`: an isolated worker's envelope reaches the run before the journal of its
  integration. After a crash in between, the result is accepted as if nothing were to be
  integrated: the Task is under review without its worker's changes.
- `workflow_crash`: a replan drops the Tasks of the plan before the workflow file forgets the
  plan. After a crash in between, the next `start` finds nothing left to do in it and calls the
  phase done, unless a goal review objects.

The passing runs say what remains true next to these: `MutualExclusion` when recoveries do not
overlap, `ReviewIsWhole` and `DoneIsWorked` when no crash falls into those two gaps
(`CrashUnjournaled`, `DropGap`).

Two more behaviours are in the models without a run of their own. A PASS report that a crash
kept from the Task file is applied later even if its gates were rerun by hand in between and
failed, as next-action.mjs:163 looks only at the report. And `loopctl transition <task> DONE`
needs no report (loopctl.mjs:264), while tools/loop-runtime/README.md:601 says that one
line of loopctl makes this transition, after a report that is PASS; `EvidencedDone` therefore assumes that nobody types it.
