---------------------------- MODULE IsolatedBatch ----------------------------
(***************************************************************************)
(* Isolated workers (efficiency.isolate_workers): execute-plan starts the  *)
(* first attempts of several ready Tasks in a bounded pool, each in a copy *)
(* of the repository, and integrates what each changed into the one tree   *)
(* (executePlan, mapLimit, runIsolatedWorker, integrateWorkspace).         *)
(*                                                                         *)
(* The runtime is one event loop: between two awaits it works for one Task *)
(* (turn).  Such a section is cut here wherever a file is written, since   *)
(* the user may edit and the process may die in between.  A file's content *)
(* is the set of changes that are in it, so a lost change is visible.      *)
(***************************************************************************)
EXTENDS Naturals, FiniteSets

CONSTANTS N,           \* Tasks of the plan, in its order; none depends on another
          Files,
          MaxParallel, \* efficiency.max_parallel_workers
          Caps, NoCap, \* plan_usd: the caps to begin with; NoCap is none
          Results,     \* how a worker may end
          Changes,     \* the sets of files a worker may change
          CrashUnjournaled, \* may the runtime die between a result and its journal?
          MaxEdits,    \* bound: edits by the user
          MaxCrashes,  \* bound: deaths of the runtime
          MaxFaults    \* bound: file system errors during installations

Tasks == 1 .. N
User  == 0

ASSUME BatchAssumption ==
  /\ N \in Nat /\ MaxParallel \in Nat \ {0}
  /\ Caps \subseteq Nat \cup {NoCap} /\ NoCap \notin Nat
  /\ Results \subseteq {"ok", "blocked", "failed", "policy", "protected", "none"}
  /\ Changes \subseteq SUBSET Files
  /\ CrashUnjournaled \in BOOLEAN
  /\ MaxEdits \in Nat /\ MaxCrashes \in Nat /\ MaxFaults \in Nat

VARIABLES
  tree,     \* the repository: the changes in each file
  status,   \* of each Task
  receipt,  \* worker-started.json: a paid call was made
  env,      \* the envelope in the run's directory, "none" before it is copied
  journal,  \* integration.json: "none", "rejected", "pending", "integrated"
  base,     \* the files each workspace was copied from, the journal's "before"
  result,   \* how each worker ended, in its workspace
  changed,  \* the files it changed there
  \* The running execute-plan:
  mode,     \* "idle", "batch", "first" (executeTask after the batch), "loop"
  cap,      \* efficiency.budget.plan_usd
  strict,   \* on_unknown_cost: stop, rather than continue?
  stage,    \* how far the work on each Task is, in this process
  turn,     \* the Task whose synchronous section runs; 0 for none
  todo,     \* the files that section has still to install
  queue,    \* mapLimit: the Tasks of the batch not started yet
  errors,   \* mapLimit: has an item thrown?
  edits, crashes, faults

disk   == <<tree, status, receipt, env, journal>>
space  == <<base, result, changed>>
memory == <<mode, stage, turn, todo, queue, errors>>
bounds == <<cap, strict, edits, crashes, faults>>
batchVars == <<disk, space, memory, bounds>>

Init ==
  /\ tree = [f \in Files |-> {}]
  /\ status = [t \in Tasks |-> "TODO"]
  /\ receipt = [t \in Tasks |-> FALSE]
  /\ env = [t \in Tasks |-> "none"]
  /\ journal = [t \in Tasks |-> "none"]
  /\ base = [t \in Tasks |-> [f \in Files |-> {}]]
  /\ result = [t \in Tasks |-> "none"]
  /\ changed = [t \in Tasks |-> {}]
  /\ mode = "idle" /\ cap \in Caps
  /\ strict \in (IF cap = NoCap THEN {FALSE} ELSE BOOLEAN)  \* of no account without a cap
  /\ stage = [t \in Tasks |-> "none"] /\ turn = 0 /\ todo = {}
  /\ queue = {} /\ errors = FALSE
  /\ edits = 0 /\ crashes = 0 /\ faults = 0

-----------------------------------------------------------------------------
(* Budget and selection.                                                   *)

With(s) == {t \in Tasks : status[t] \in s}
Resumable == With({"IN_PROGRESS", "REVIEW"})
Ready     == With({"TODO"})
FirstOf(S) == CHOOSE t \in S : \A u \in S : t <= u
\* The first n of S.
Slice(S, n) == {t \in S : Cardinality({u \in S : u < t}) < n}

\* The ledger: a completed call costs 1, one without an envelope nobody knows.
Spent   == Cardinality({t \in Tasks : env[t] # "none"})
Unknown == {t \in Tasks : receipt[t] /\ env[t] = "none"}

\* checkBudget.
Allowed == cap # NoCap => Spent < cap /\ (strict => Unknown = {})

\* Mutant: a cap does not narrow the pool.
WidthAlways == MaxParallel

\* With a cap one paid call is finished before another one is admitted.
Width == IF cap = NoCap THEN MaxParallel ELSE 1

Active == {t \in Tasks : stage[t] \notin {"none", "over"}}
Stage(t, s) == stage' = [stage EXCEPT ![t] = s]
\* The synchronous section of t goes on with s, or ends with t at s.
GoesOn(t, s) == Stage(t, s) /\ turn' = t
Ends(t, s)   == Stage(t, s) /\ turn' = 0
During(t, s) == turn = t /\ stage[t] = s

Stops == mode' = "idle" /\ UNCHANGED <<disk, space, stage, turn, todo, queue, errors>>

\* execute-plan is invoked, for the first time or again.
Invoke ==
  /\ mode = "idle" /\ With({"DONE"}) # Tasks
  /\ mode' = "loop"
  /\ UNCHANGED <<disk, space, stage, turn, todo, queue, errors, bounds>>

\* The plan is complete.
Complete ==
  /\ mode = "loop" /\ turn = 0 /\ With({"DONE"}) = Tasks
  /\ Stops /\ UNCHANGED bounds

\* selectNextPlanTask: a blocked Task waits for a person, and the plan with it.
StopBlocked ==
  /\ mode = "loop" /\ turn = 0 /\ With({"BLOCKED"}) # {}
  /\ Stops /\ UNCHANGED bounds

\* Nothing to resume: a slice of the ready Tasks goes through the pool.
StartBatch ==
  /\ mode = "loop" /\ turn = 0 /\ With({"BLOCKED"}) = {} /\ Resumable = {} /\ Ready # {}
  /\ IF Allowed
     THEN /\ mode' = "batch"
          /\ queue' = Slice(Ready, Width)
          /\ errors' = FALSE
          /\ stage' = [t \in Tasks |-> "none"]
          /\ UNCHANGED <<disk, space, turn, todo>>
     ELSE Stops
  /\ UNCHANGED bounds

-----------------------------------------------------------------------------
(* The pool.  It is as wide as the slice is long, so that mapLimit begins   *)
(* every item in one go, before it notes that one of them has thrown and    *)
(* before any event of a child is handled.                                  *)

Starting == queue # {}

\* startFirstAttempt: the Task is claimed and its snapshot written.
Admit(t) ==
  /\ mode = "batch" /\ turn = 0 /\ Starting /\ t = FirstOf(queue) /\ Allowed
  /\ queue' = queue \ {t}
  /\ status' = [status EXCEPT ![t] = "IN_PROGRESS"]
  /\ GoesOn(t, "admitted")
  /\ UNCHANGED <<tree, receipt, env, journal, space, mode, todo, errors, bounds>>

\* It fails, before or after the claim, and the item throws.
AdmitFails(t) ==
  /\ mode = "batch" /\ turn = 0 /\ Starting /\ t = FirstOf(queue) /\ Allowed
  /\ queue' = queue \ {t}
  /\ status' \in {status, [status EXCEPT ![t] = "IN_PROGRESS"]}
  /\ errors' = TRUE
  /\ UNCHANGED <<tree, receipt, env, journal, space, mode, stage, turn, todo, bounds>>

\* The copy or its git repository cannot be made: the item ends without a call.
LaunchFails(t) ==
  /\ During(t, "admitted")
  /\ Ends(t, "over")
  /\ UNCHANGED <<disk, space, mode, todo, queue, errors, bounds>>

\* Mutant: the event loop waits for the child.
LaunchBlocking(t) ==
  /\ During(t, "admitted")
  /\ base' = [base EXCEPT ![t] = tree]
  /\ receipt' = [receipt EXCEPT ![t] = TRUE]
  /\ GoesOn(t, "child")
  /\ UNCHANGED <<tree, status, env, journal, result, changed, mode, todo, queue, errors, bounds>>

\* The workspace is copied, the receipt written and the child launched.
Launch(t) ==
  /\ During(t, "admitted")
  /\ base' = [base EXCEPT ![t] = tree]
  /\ receipt' = [receipt EXCEPT ![t] = TRUE]
  /\ Ends(t, "child")
  /\ UNCHANGED <<tree, status, env, journal, result, changed, mode, todo, queue, errors, bounds>>

\* The child ends, whenever it does, having changed some files of its own copy.
ChildEnds(t) ==
  /\ stage[t] = "child"
  /\ \E r \in Results, c \in Changes :
       /\ result' = [result EXCEPT ![t] = r]
       /\ changed' = [changed EXCEPT ![t] = IF r = "none" THEN {} ELSE c]
  /\ Stage(t, "ended")
  /\ UNCHANGED <<disk, base, mode, turn, todo, queue, errors, bounds>>

\* The runtime hears of it and copies the artifacts; without an envelope it throws.
Collect(t) ==
  /\ mode = "batch" /\ turn = 0 /\ ~Starting /\ stage[t] = "ended"
  /\ IF result[t] = "none"
     THEN Ends(t, "over") /\ UNCHANGED env
     ELSE /\ env' = [env EXCEPT ![t] = IF result[t] = "protected" THEN "ok" ELSE result[t]]
          /\ GoesOn(t, "collected")
  /\ UNCHANGED <<tree, status, receipt, journal, space, mode, todo, queue, errors, bounds>>

\* The journal says what to integrate; nothing, after a violation of the policy.
WriteJournal(t) ==
  /\ During(t, "collected")
  /\ \/ env[t] = "policy" /\ Ends(t, "over") /\ UNCHANGED journal
     \/ /\ env[t] # "policy" /\ result[t] = "protected"
        /\ journal' = [journal EXCEPT ![t] = "rejected"] /\ Ends(t, "over")
     \/ /\ env[t] # "policy" /\ result[t] # "protected"
        /\ journal' = [journal EXCEPT ![t] = "pending"] /\ GoesOn(t, "journaled")
  /\ UNCHANGED <<tree, status, receipt, env, space, mode, todo, queue, errors, bounds>>

\* Mutant: the first item that throws ends the batch.
BatchEndsEarly ==
  /\ mode = "batch" /\ turn = 0 /\ ~Starting /\ (errors \/ Active = {})
  /\ mode' = IF errors THEN "idle" ELSE "first"
  /\ UNCHANGED <<disk, space, stage, turn, todo, queue, errors, bounds>>

\* Promise.all: the batch is over when every item that began is.
BatchEnds ==
  /\ mode = "batch" /\ turn = 0 /\ ~Starting /\ Active = {}
  /\ mode' = IF errors THEN "idle" ELSE "first"
  /\ UNCHANGED <<disk, space, stage, turn, todo, queue, errors, bounds>>

-----------------------------------------------------------------------------
(* integrateWorkspace, from the batch or from a later execution.           *)

Before(t, f) == base[t][f]
After(t, f)  == base[t][f] \cup {t}
Conflicts(t) == {f \in changed[t] : tree[f] \notin {Before(t, f), After(t, f)}}

\* A conflict is a failure of the worker in a batch, and a stop otherwise.
Refuse(t) == Ends(t, "over") /\ mode' = (IF mode = "batch" THEN mode ELSE "idle")

\* Mutant: the files are checked one by one only.
CheckNothing(t) ==
  /\ During(t, "journaled")
  /\ todo' = changed[t] /\ GoesOn(t, "installing") /\ UNCHANGED mode
  /\ UNCHANGED <<disk, space, queue, errors, bounds>>

\* All files are compared before any is written.
Check(t) ==
  /\ During(t, "journaled")
  /\ IF Conflicts(t) # {} THEN Refuse(t) /\ UNCHANGED todo
     ELSE todo' = changed[t] /\ GoesOn(t, "installing") /\ UNCHANGED mode
  /\ UNCHANGED <<disk, space, queue, errors, bounds>>

\* Mutant: no second look at the file.
InstallOver(t, f) ==
  /\ During(t, "installing") /\ f \in todo
  /\ tree' = [tree EXCEPT ![f] = After(t, f)]
  /\ todo' = todo \ {f}
  /\ UNCHANGED <<status, receipt, env, journal, space, mode, stage, turn, queue, errors, bounds>>

\* Each is compared once more and renamed into place; one that has the change
\* already is left.
Install(t, f) ==
  /\ During(t, "installing") /\ f \in todo
  /\ IF f \in Conflicts(t)
     THEN Refuse(t) /\ todo' = {} /\ UNCHANGED tree
     ELSE /\ tree' = [tree EXCEPT ![f] = After(t, f)]
          /\ todo' = todo \ {f}
          /\ UNCHANGED <<mode, stage, turn>>
  /\ UNCHANGED <<status, receipt, env, journal, space, queue, errors, bounds>>

\* A file cannot be copied or renamed: the error ends the item, or the plan, with
\* what is installed so far in place and the journal open.
InstallFails(t) ==
  /\ During(t, "installing") /\ todo # {} /\ faults < MaxFaults
  /\ faults' = faults + 1
  /\ Refuse(t) /\ todo' = {}
  /\ UNCHANGED <<disk, space, queue, errors, cap, strict, edits, crashes>>

\* Mutant: the journal is closed before all files are in.
SealEarly(t) ==
  /\ During(t, "installing")
  /\ journal' = [journal EXCEPT ![t] = "integrated"]
  /\ GoesOn(t, "sealed")
  /\ UNCHANGED <<tree, status, receipt, env, space, mode, todo, queue, errors, bounds>>

\* The journal is closed ...
Seal(t) ==
  /\ During(t, "installing") /\ todo = {}
  /\ journal' = [journal EXCEPT ![t] = "integrated"]
  /\ GoesOn(t, "sealed")
  /\ UNCHANGED <<tree, status, receipt, env, space, mode, todo, queue, errors, bounds>>

\* What a worker without failures asked for; "failed" is also one without a wish.
Requests(t) == env[t] \in {"ok", "blocked"}
Requested(t) == IF env[t] = "ok" THEN "REVIEW" ELSE "BLOCKED"

\* ... and the transition applied.
Apply(t) ==
  /\ During(t, "sealed")
  /\ status' = IF Requests(t) THEN [status EXCEPT ![t] = Requested(t)] ELSE status
  /\ Ends(t, "over")
  /\ UNCHANGED <<tree, receipt, env, journal, space, mode, todo, queue, errors, bounds>>

-----------------------------------------------------------------------------
(* executeTask: for the first Task of the batch that has just ended, then    *)
(* for the one that selection finds.                                        *)

Chosen(t) ==
  \/ mode = "first" /\ t = FirstOf({u \in Tasks : stage[u] = "over"})
  \/ /\ mode = "loop" /\ With({"BLOCKED"}) = {}
     /\ Resumable # {} /\ t = FirstOf(Resumable)

Resumes(t) == turn = 0 /\ Chosen(t) /\ status[t] \in {"IN_PROGRESS", "REVIEW"}

\* The first Task of the batch is blocked: its execution stops.
FirstBlocked(t) ==
  /\ mode = "first" /\ turn = 0 /\ Chosen(t) /\ status[t] = "BLOCKED"
  /\ Stops /\ UNCHANGED bounds

\* Gates and verification, which TaskLifecycle models; they may stop.
Verify(t) ==
  /\ Resumes(t) /\ status[t] = "REVIEW"
  /\ \/ /\ status' = [status EXCEPT ![t] = "DONE"]
        /\ mode' = "loop"
        /\ UNCHANGED <<tree, receipt, env, journal, space, stage, turn, todo, queue, errors>>
     \/ Stops
  /\ UNCHANGED bounds

\* Mutant: only a process that ran the batch resumes its integrations.
ResumeOwnIntegration(t) ==
  /\ Resumes(t) /\ status[t] = "IN_PROGRESS" /\ env[t] # "none" /\ journal[t] = "pending"
  /\ stage[t] = "over"
  /\ GoesOn(t, "journaled")
  /\ UNCHANGED <<disk, space, mode, todo, queue, errors, bounds>>

\* INTEGRATE_WORKER: a pending journal.
ResumeIntegration(t) ==
  /\ Resumes(t) /\ status[t] = "IN_PROGRESS" /\ env[t] # "none" /\ journal[t] = "pending"
  /\ GoesOn(t, "journaled")
  /\ UNCHANGED <<disk, space, mode, todo, queue, errors, bounds>>

\* APPLY_WORKER_RESULT: a good envelope, and no journal that is open.
ApplyWorkerResult(t) ==
  /\ Resumes(t) /\ status[t] = "IN_PROGRESS" /\ Requests(t)
  /\ journal[t] \in {"none", "integrated"}
  /\ status' = [status EXCEPT ![t] = Requested(t)]
  /\ UNCHANGED <<tree, receipt, env, journal, space, memory, bounds>>

\* No completed run, a rejected journal, or a failure (TaskLifecycle retries it).
Ambiguous(t) ==
  /\ Resumes(t) /\ status[t] = "IN_PROGRESS"
  /\ \/ env[t] = "none"
     \/ env[t] # "none" /\ journal[t] = "rejected"
     \/ env[t] \in {"failed", "policy"} /\ journal[t] \in {"none", "integrated"}
  /\ Stops /\ UNCHANGED bounds

-----------------------------------------------------------------------------
(* The user and the machine.                                               *)

\* Somebody edits a file of the repository.
Edit(f) ==
  /\ edits < MaxEdits
  /\ edits' = edits + 1
  /\ tree' = [tree EXCEPT ![f] = @ \cup {User}]
  /\ UNCHANGED <<status, receipt, env, journal, space, memory, cap, strict, crashes, faults>>

\* The runtime dies; the children are on their own, nobody collects from them.
Crash ==
  /\ mode # "idle" /\ crashes < MaxCrashes
  /\ CrashUnjournaled \/ \A t \in Tasks : stage[t] # "collected"
  /\ crashes' = crashes + 1
  /\ mode' = "idle" /\ stage' = [t \in Tasks |-> "none"]
  /\ turn' = 0 /\ todo' = {} /\ queue' = {} /\ errors' = FALSE
  /\ UNCHANGED <<disk, space, cap, strict, edits, faults>>

Integrate(t) ==
  Check(t) \/ (\E f \in Files : Install(t, f)) \/ InstallFails(t) \/ Seal(t) \/ Apply(t)

Runtime ==
  \/ Invoke \/ Complete \/ StopBlocked \/ StartBatch \/ BatchEnds
  \/ \E t \in Tasks :
       \/ Admit(t) \/ AdmitFails(t) \/ Launch(t) \/ LaunchFails(t)
       \/ Collect(t) \/ WriteJournal(t) \/ Integrate(t)
       \/ FirstBlocked(t) \/ Verify(t) \/ ResumeIntegration(t) \/ ApplyWorkerResult(t) \/ Ambiguous(t)

Child == \E t \in Tasks : ChildEnds(t)

BatchNext == Runtime \/ Child \/ Crash \/ \E f \in Files : Edit(f)

BatchSpec == Init /\ [][BatchNext]_batchVars

\* The event loop runs, execute-plan is invoked again after a stop, and a
\* worker ends (its own timeout sees to that).
BatchFairSpec == BatchSpec /\ WF_batchVars(Runtime) /\ WF_batchVars(Child)

-----------------------------------------------------------------------------
(* Properties.                                                             *)

BatchTypeOK ==
  /\ tree \in [Files -> SUBSET (Tasks \cup {User})]
  /\ status \in [Tasks -> {"TODO", "IN_PROGRESS", "REVIEW", "BLOCKED", "DONE"}]
  /\ receipt \in [Tasks -> BOOLEAN]
  /\ env \in [Tasks -> {"none", "ok", "blocked", "failed", "policy"}]
  /\ journal \in [Tasks -> {"none", "rejected", "pending", "integrated"}]
  /\ base \in [Tasks -> [Files -> SUBSET (Tasks \cup {User})]]
  /\ result \in [Tasks -> {"ok", "blocked", "failed", "policy", "protected", "none"}]
  /\ changed \in [Tasks -> SUBSET Files]
  /\ mode \in {"idle", "batch", "first", "loop"}
  /\ cap \in Caps /\ strict \in BOOLEAN
  /\ stage \in [Tasks -> {"none", "admitted", "child", "ended", "collected",
                          "journaled", "installing", "sealed", "over"}]
  /\ turn \in Tasks \cup {0}
  /\ turn # 0 => mode # "idle" /\ stage[turn] \notin {"none", "child", "ended", "over"}
  /\ todo \subseteq Files /\ queue \subseteq Tasks /\ errors \in BOOLEAN
  /\ edits \in 0 .. MaxEdits /\ crashes \in 0 .. MaxCrashes /\ faults \in 0 .. MaxFaults

\* No integration takes away what another Task or the user put into a file
\* ("a mismatched base is never overwritten").
NothingLost == [][\A f \in Files : tree[f] \subseteq tree'[f]]_batchVars

\* A Task that is under review, blocked or done has all its worker changed in the
\* repository that gates, verifier and people look at.
ReviewIsWhole ==
  \A t \in With({"REVIEW", "BLOCKED", "DONE"}) : \A f \in changed[t] : t \in tree[f]

\* A worker's changes are in the repository by halves only while they are being
\* installed, or when an edit, a death or a file system error came in between:
\* conflicts between workers of one batch leave nothing behind.
NoHalves ==
  edits + crashes + faults = 0 =>
    \A t \in Tasks \ {turn} :
      {f \in changed[t] : t \in tree[f]} \in {{}, changed[t]}

\* Has the result of t's worker been taken from its workspace?
Taken(t) == env[t] # "none" /\ (env[t] = "policy" \/ journal[t] # "none")

\* When an item throws, the others of the batch begin and are paid all the same
\* (mapLimit: "Wait for all started work even after a failure"): unless the
\* runtime dies, nothing else goes on, and execute-plan does not end, before each
\* has ended and what it brought is with its run.
BatchAwaited ==
  mode # "batch" =>
    /\ Active \subseteq {turn}
    /\ crashes = 0 =>
         \A t \in Tasks \ {turn} : receipt[t] /\ result[t] # "none" => Taken(t)

\* Under a cap on what a plan may cost, a paid call is over before the next one
\* begins, so that a plan exceeds its cap by less than one call; and a call whose
\* cost nobody knows is the last one, when unknown costs are to stop the plan.
CapRespected ==
  cap # NoCap => /\ Spent <= cap
                 /\ Cardinality({t \in Tasks : stage[t] \in {"child", "ended"}}) <= 1
                 /\ strict => Cardinality(Unknown) <= 1

\* What a good worker did comes into the repository in the end, whichever step
\* of it was interrupted, unless somebody changed the same file first or a Task
\* waits for a person: for the Task that the plan is at, as the plan does not pass
\* over one that is stuck.
Integrated ==
  \A t \in Tasks :
    (Requests(t) /\ journal[t] = "pending" /\ t = FirstOf(Resumable))
      ~> (status[t] \in {"REVIEW", "DONE"} \/ Conflicts(t) # {} \/ With({"BLOCKED"}) # {})
=============================================================================
