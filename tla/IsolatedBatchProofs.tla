-------------------------- MODULE IsolatedBatchProofs --------------------------
(***************************************************************************)
(* Proofs about IsolatedBatch, for any number of Tasks, any files and any  *)
(* bounds.                                                                 *)
(***************************************************************************)
EXTENDS IsolatedBatch, TLAPS, WellFoundedInduction, FiniteSetTheorems

-----------------------------------------------------------------------------
(* Types.                                                                  *)

\* A set of numbers that has a member has a least one.
LEMMA LeastExists ==
  ASSUME NEW S \in SUBSET Nat, S # {}
  PROVE  \E x \in S : \A y \in S : x <= y
<1> DEFINE R == {ss \in Nat \X Nat : ss[1] < ss[2]}
<1>1. IsWellFoundedOn(R, Nat)
  BY NatLessThanWellFounded DEF OpToRel
<1>2. \A x, y \in Nat : x < y => <<x, y>> \in R
  OBVIOUS
<1> HIDE DEF R
<1>3. PICK x \in S : \A y \in S : ~(<<y, x>> \in R)
  BY <1>1, WFMin, Zenon
<1>4. \A y \in S : ~(y < x)
  BY <1>2, <1>3
<1> QED
  BY <1>4

\* So a set of Tasks that has a member has a first one.
LEMMA FirstIsMember ==
  ASSUME NEW S \in SUBSET Tasks, S # {}
  PROVE  FirstOf(S) \in S
<1>1. S \in SUBSET Nat
  BY BatchAssumption DEF Tasks
<1>2. \E x \in S : \A y \in S : x <= y
  BY <1>1, LeastExists
<1> QED
  BY <1>2 DEF FirstOf

\* No action leaves the types, or leaves a section without its Task.
LEMMA TypeKeeps == BatchTypeOK /\ BatchNext => BatchTypeOK'
<1> SUFFICES ASSUME BatchTypeOK, BatchNext PROVE BatchTypeOK'
  OBVIOUS
<1> USE DEF BatchTypeOK, disk, space, memory, bounds, Stage, GoesOn, Ends, During
<1>1. 0 \notin Tasks /\ Tasks \subseteq Nat
  BY BatchAssumption DEF Tasks
<1>2. CASE Invoke
  BY <1>2 DEF Invoke
<1>3. CASE Complete \/ StopBlocked
  BY <1>3 DEF Complete, StopBlocked, Stops
<1>4. CASE StartBatch
  <2>1. Slice(Ready, Width) \subseteq Tasks
    BY DEF Slice, Ready, With
  <2> QED
    BY <1>4, <2>1 DEF StartBatch, Stops
<1>5. CASE BatchEnds
  BY <1>5 DEF BatchEnds
<1>6. ASSUME NEW t \in Tasks, Admit(t) PROVE BatchTypeOK'
  BY <1>1, <1>6 DEF Admit
<1>7. ASSUME NEW t \in Tasks, AdmitFails(t) PROVE BatchTypeOK'
  BY <1>1, <1>7 DEF AdmitFails
<1>8. ASSUME NEW t \in Tasks, Launch(t) \/ LaunchFails(t) PROVE BatchTypeOK'
  <2>1. CASE Launch(t)
    BY <1>1, <2>1 DEF Launch
  <2>2. CASE LaunchFails(t)
    BY <1>1, <2>2 DEF LaunchFails
  <2> QED
    BY <1>8, <2>1, <2>2
<1>9. ASSUME NEW t \in Tasks, Collect(t) PROVE BatchTypeOK'
  BY <1>1, <1>9 DEF Collect
<1>10. ASSUME NEW t \in Tasks, WriteJournal(t) PROVE BatchTypeOK'
  BY <1>1, <1>10 DEF WriteJournal
<1>11. ASSUME NEW t \in Tasks, Check(t) PROVE BatchTypeOK'
  BY <1>1, <1>11 DEF Check, Refuse
<1>12. ASSUME NEW t \in Tasks, NEW f \in Files, Install(t, f) PROVE BatchTypeOK'
  BY <1>1, <1>12 DEF Install, Refuse, After
<1>13. ASSUME NEW t \in Tasks, Seal(t) PROVE BatchTypeOK'
  BY <1>1, <1>13 DEF Seal
<1>14. ASSUME NEW t \in Tasks, Apply(t) PROVE BatchTypeOK'
  <2>1. Requested(t) \in {"REVIEW", "BLOCKED"}
    BY DEF Requested
  <2> QED
    BY <1>1, <1>14, <2>1 DEF Apply
<1>15. ASSUME NEW t \in Tasks, Verify(t) PROVE BatchTypeOK'
  BY <1>1, <1>15 DEF Verify, Resumes, Stops
<1>16. ASSUME NEW t \in Tasks, ResumeIntegration(t) PROVE BatchTypeOK'
  <2>1. mode # "idle"
    BY <1>16 DEF ResumeIntegration, Resumes, Chosen
  <2> QED
    BY <1>1, <1>16, <2>1 DEF ResumeIntegration
<1>17. ASSUME NEW t \in Tasks, ApplyWorkerResult(t) PROVE BatchTypeOK'
  <2>1. Requested(t) \in {"REVIEW", "BLOCKED"}
    BY DEF Requested
  <2>2. status' \in [Tasks -> {"TODO", "IN_PROGRESS", "REVIEW", "BLOCKED", "DONE"}]
    BY <1>17, <2>1 DEF ApplyWorkerResult
  <2>3. UNCHANGED <<tree, receipt, env, journal, space, memory, bounds>>
    BY <1>17 DEF ApplyWorkerResult
  <2> QED
    BY <2>2, <2>3
<1>18. ASSUME NEW t \in Tasks, Ambiguous(t) \/ FirstBlocked(t) PROVE BatchTypeOK'
  BY <1>1, <1>18 DEF Ambiguous, FirstBlocked, Resumes, Stops
<1>19. ASSUME NEW t \in Tasks, ChildEnds(t) PROVE BatchTypeOK'
  <2>1. PICK r \in Results, c \in Changes :
          /\ result' = [result EXCEPT ![t] = r]
          /\ changed' = [changed EXCEPT ![t] = IF r = "none" THEN {} ELSE c]
    BY <1>19 DEF ChildEnds
  <2>2. r \in {"ok", "blocked", "failed", "policy", "protected", "none"} /\ c \in SUBSET Files
    BY BatchAssumption
  <2>3. stage[t] = "child" /\ stage' = [stage EXCEPT ![t] = "ended"] /\ turn # t
    BY <1>1, <1>19 DEF ChildEnds
  <2> QED
    BY <1>1, <1>19, <2>1, <2>2, <2>3 DEF ChildEnds
<1>20. CASE Crash
  <2>1. crashes' \in 0 .. MaxCrashes
    BY <1>20, BatchAssumption DEF Crash
  <2>2. stage' \in [Tasks -> {"none"}]
    BY <1>20 DEF Crash
  <2> QED
    BY <1>20, <2>1, <2>2 DEF Crash
<1>21. ASSUME NEW f \in Files, Edit(f) PROVE BatchTypeOK'
  BY <1>21, BatchAssumption DEF Edit
<1>22. ASSUME NEW t \in Tasks, InstallFails(t) PROVE BatchTypeOK'
  <2>1. faults' \in 0 .. MaxFaults
    BY <1>22, BatchAssumption DEF InstallFails
  <2> QED
    BY <1>1, <1>22, <2>1 DEF InstallFails, Refuse
<1> QED
  BY <1>2, <1>3, <1>4, <1>5, <1>6, <1>7, <1>8, <1>9, <1>10, <1>11, <1>12, <1>13,
     <1>14, <1>15, <1>16, <1>17, <1>18, <1>19, <1>20, <1>21, <1>22
  DEF BatchNext, Runtime, Child, Integrate

\* In every state each variable holds what it is meant to, and a synchronous
\* section belongs to a Task that is at work in a process that runs.
THEOREM BatchTypeCorrect == BatchSpec => []BatchTypeOK
<1>1. Init => BatchTypeOK
  <2>1. 0 \in 0 .. MaxEdits /\ 0 \in 0 .. MaxCrashes /\ 0 \in 0 .. MaxFaults
    BY BatchAssumption
  <2> SUFFICES ASSUME Init PROVE BatchTypeOK
    OBVIOUS
  <2>2. tree \in [Files -> SUBSET (Tasks \cup {User})]
    BY DEF Init
  <2>3. base \in [Tasks -> [Files -> SUBSET (Tasks \cup {User})]]
    BY DEF Init
  <2>4. errors \in BOOLEAN /\ strict \in BOOLEAN /\ receipt \in [Tasks -> BOOLEAN]
    BY DEF Init
  <2>5. changed \in [Tasks -> SUBSET Files] /\ todo \subseteq Files /\ queue \subseteq Tasks
    BY DEF Init
  <2> QED
    BY <2>1, <2>2, <2>3, <2>4, <2>5 DEF Init, BatchTypeOK
<1>2. BatchTypeOK /\ UNCHANGED batchVars => BatchTypeOK'
  BY DEF BatchTypeOK, batchVars, disk, space, memory, bounds
<1> QED
  BY <1>1, <1>2, TypeKeeps, PTL DEF BatchSpec

-----------------------------------------------------------------------------
(* Integration.                                                            *)

\* A Task that is being installed has what it changed in the tree, but for what
\* is still to do.
InstallInv ==
  \A t \in Tasks : During(t, "installing") =>
    /\ todo \subseteq changed[t]
    /\ \A f \in changed[t] \ todo : t \in tree[f]

\* What is installed over a file contains what is there.
LEMMA TreeGrows ==
  ASSUME BatchTypeOK, InstallInv, BatchNext, NEW f \in Files
  PROVE  tree[f] \subseteq tree'[f]
<1> USE DEF disk, space, memory, bounds
<1>1. ASSUME NEW t \in Tasks, NEW g \in Files, Install(t, g)
      PROVE  tree[f] \subseteq tree'[f]
  <2>1. CASE g \in Conflicts(t)
    BY <1>1, <2>1 DEF Install
  <2>2. CASE g \notin Conflicts(t)
    <3>1. tree' = [tree EXCEPT ![g] = After(t, g)]
      BY <1>1, <2>2 DEF Install
    <3>2. g \in changed[t]
      BY <1>1 DEF Install, InstallInv
    <3>3. tree[g] \subseteq After(t, g)
      BY <2>2, <3>2 DEF Conflicts, Before, After
    <3> QED
      BY <3>1, <3>3 DEF BatchTypeOK
  <2> QED
    BY <2>1, <2>2
<1>2. ASSUME NEW g \in Files, Edit(g) PROVE tree[f] \subseteq tree'[f]
  BY <1>2 DEF Edit, BatchTypeOK
<1>3. CASE tree' = tree
  BY <1>3
<1>4. Invoke \/ Complete \/ StopBlocked \/ StartBatch \/ BatchEnds \/ Crash => tree' = tree
  BY DEF Invoke, Complete, StopBlocked, Stops, StartBatch, BatchEnds, Crash
<1>5. ASSUME NEW t \in Tasks,
             Admit(t) \/ AdmitFails(t) \/ Launch(t) \/ LaunchFails(t) \/ Collect(t)
               \/ WriteJournal(t) \/ Check(t) \/ InstallFails(t) \/ Seal(t) \/ Apply(t)
      PROVE  tree' = tree
  BY <1>5 DEF Admit, AdmitFails, Launch, LaunchFails, Collect, WriteJournal, Check,
     InstallFails, Seal, Apply
<1>6. ASSUME NEW t \in Tasks,
             Verify(t) \/ ResumeIntegration(t) \/ ApplyWorkerResult(t)
               \/ Ambiguous(t) \/ FirstBlocked(t) \/ ChildEnds(t)
      PROVE  tree' = tree
  BY <1>6 DEF Verify, ResumeIntegration, ApplyWorkerResult, Ambiguous, FirstBlocked,
     ChildEnds, Stops
<1> QED
  BY <1>1, <1>2, <1>3, <1>4, <1>5, <1>6 DEF BatchNext, Runtime, Child, Integrate

\* No action leaves that behind.
LEMMA InstallKeeps == BatchTypeOK /\ InstallInv /\ BatchNext => InstallInv'
<1> SUFFICES ASSUME BatchTypeOK, InstallInv, BatchNext,
                    NEW u \in Tasks, During(u, "installing")'
             PROVE  /\ todo' \subseteq changed'[u]
                    /\ \A f \in changed'[u] \ todo' : u \in tree'[f]
  BY DEF InstallInv
<1> DEFINE Goal == /\ todo' \subseteq changed'[u]
                   /\ \A f \in changed'[u] \ todo' : u \in tree'[f]
<1> USE DEF disk, space, memory, bounds, Stage, GoesOn, Ends, During
<1>1. /\ u # 0 /\ 0 \notin Tasks
      /\ stage = [t \in Tasks |-> stage[t]] /\ changed = [t \in Tasks |-> changed[t]]
      /\ changed[u] \subseteq Files
  BY BatchAssumption DEF Tasks, BatchTypeOK
<1>2. ASSUME During(u, "installing"), changed'[u] = changed[u], todo' = todo
      PROVE  Goal
  BY <1>1, <1>2, TreeGrows DEF InstallInv
<1>3. CASE UNCHANGED <<stage, turn, todo, changed>>
  BY <1>2, <1>3
<1>4. CASE Invoke \/ Complete \/ StopBlocked \/ StartBatch \/ BatchEnds \/ Crash
  BY <1>1, <1>3, <1>4 DEF Invoke, Complete, StopBlocked, StartBatch, Stops, BatchEnds, Crash
<1>5. ASSUME NEW t \in Tasks,
             Admit(t) \/ AdmitFails(t) \/ Launch(t) \/ LaunchFails(t) \/ Collect(t)
               \/ WriteJournal(t) \/ InstallFails(t) \/ Seal(t) \/ Apply(t)
      PROVE  Goal
  BY <1>1, <1>3, <1>5 DEF Admit, AdmitFails, Launch, LaunchFails, Collect, WriteJournal,
     InstallFails, Refuse, Seal, Apply
<1>6. ASSUME NEW t \in Tasks,
             Verify(t) \/ ResumeIntegration(t) \/ ApplyWorkerResult(t) \/ Ambiguous(t)
               \/ FirstBlocked(t)
      PROVE  Goal
  BY <1>1, <1>3, <1>6
  DEF Verify, ResumeIntegration, ApplyWorkerResult, Ambiguous, FirstBlocked, Stops
<1>7. ASSUME NEW t \in Tasks, ChildEnds(t) PROVE Goal
  <2>1. /\ stage[t] = "child" /\ stage' = [stage EXCEPT ![t] = "ended"]
        /\ UNCHANGED <<turn, todo>>
    BY <1>7 DEF ChildEnds
  <2>2. u # t /\ During(u, "installing")
    BY <1>1, <2>1
  <2>3. changed'[u] = changed[u]
    BY <1>1, <1>7, <2>2 DEF ChildEnds
  <2> QED
    BY <1>2, <2>1, <2>2, <2>3
<1>8. ASSUME NEW t \in Tasks, Check(t) PROVE Goal
  <2>1. u = t /\ todo' = changed[u] /\ changed' = changed
    BY <1>1, <1>8 DEF Check, Refuse
  <2> QED
    BY <2>1
<1>9. ASSUME NEW t \in Tasks, NEW g \in Files, Install(t, g) PROVE Goal
  <2>1. /\ During(u, "installing") /\ u = t /\ changed' = changed
        /\ todo' = todo \ {g} /\ tree' = [tree EXCEPT ![g] = After(u, g)]
    BY <1>1, <1>9 DEF Install, Refuse
  <2>2. ASSUME NEW f \in changed[u] \ todo' PROVE u \in tree'[f]
    <3>1. CASE f = g
      BY <1>1, <2>1, <3>1 DEF After, BatchTypeOK
    <3>2. CASE f # g
      BY <1>1, <2>1, <3>2 DEF InstallInv, BatchTypeOK
    <3> QED
      BY <3>1, <3>2
  <2> QED
    BY <2>1, <2>2 DEF InstallInv
<1>10. ASSUME NEW g \in Files, Edit(g) PROVE Goal
  BY <1>3, <1>10 DEF Edit
<1> QED
  BY <1>4, <1>5, <1>6, <1>7, <1>8, <1>9, <1>10 DEF BatchNext, Runtime, Child, Integrate

\* So whatever is installed is complete when nothing is left to do.
LEMMA Installs == BatchSpec => [](BatchTypeOK /\ InstallInv)
<1>1. Init => InstallInv
  BY BatchAssumption DEF Init, InstallInv, During, Tasks
<1>2. BatchTypeOK /\ InstallInv /\ UNCHANGED batchVars => InstallInv'
  BY DEF InstallInv, During, batchVars, disk, space, memory
<1> QED
  BY <1>1, <1>2, InstallKeeps, BatchTypeCorrect, PTL DEF BatchSpec

\* Nothing that is in a file of the repository, by the user or by another Task,
\* is taken out of it by an integration.
THEOREM ChangesKept == BatchSpec => NothingLost
<1>1. BatchTypeOK /\ InstallInv /\ [BatchNext]_batchVars
        => [\A f \in Files : tree[f] \subseteq tree'[f]]_batchVars
  BY TreeGrows
<1> QED
  BY <1>1, Installs, PTL DEF BatchSpec, NothingLost

-----------------------------------------------------------------------------
(* Review.                                                                 *)

\* A Task that waits in the pool was not begun; one that is at work is claimed,
\* and has neither envelope nor journal before its worker is heard of.  Outside a
\* batch no worker runs, and nothing is under way but the section that runs.
AtWork(t) ==
  /\ t \in queue => status[t] = "TODO" /\ stage[t] = "none"
  /\ stage[t] \notin {"none", "over"} => status[t] = "IN_PROGRESS"
  /\ status[t] = "TODO" \/ stage[t] \in {"admitted", "child", "ended"}
       => env[t] = "none" /\ journal[t] = "none"
  /\ stage[t] \in {"admitted", "child", "ended", "collected"} => mode = "batch"
  /\ stage[t] \notin {"none", "over"} /\ mode # "batch" => turn = t

\* A result without a journal is one whose journal is being written; a journal is
\* closed when all is in the tree, and so is a review begun.
Sealed(t) ==
  /\ env[t] \notin {"none", "policy"} /\ journal[t] = "none" => During(t, "collected")
  /\ During(t, "sealed") => journal[t] = "integrated"
  /\ journal[t] = "integrated" \/ status[t] \in {"REVIEW", "BLOCKED", "DONE"}
       => \A f \in changed[t] : t \in tree[f]

WorkInv == \A t \in Tasks : AtWork(t)
SealInv == \A t \in Tasks : Sealed(t)

LEMMA WorkKeeps == BatchTypeOK /\ WorkInv /\ BatchNext => WorkInv'
<1> SUFFICES ASSUME BatchTypeOK, WorkInv, BatchNext, NEW u \in Tasks PROVE AtWork(u)'
  BY DEF WorkInv
<1> USE DEF disk, space, memory, bounds, Stage, GoesOn, Ends, During, AtWork
<1>1. /\ stage = [t \in Tasks |-> stage[t]] /\ status = [t \in Tasks |-> status[t]]
      /\ env = [t \in Tasks |-> env[t]] /\ journal = [t \in Tasks |-> journal[t]]
      /\ queue \subseteq Tasks
  BY DEF BatchTypeOK
<1>2. AtWork(u)
  BY DEF WorkInv
<1>3. CASE UNCHANGED <<queue, status, stage, env, journal, mode, turn>>
  BY <1>2, <1>3
<1>4. CASE Invoke \/ Complete \/ StopBlocked \/ BatchEnds \/ Crash
  <2>1. CASE Invoke \/ Complete \/ StopBlocked
    BY <1>2, <2>1 DEF Invoke, Complete, StopBlocked, Stops
  <2>2. CASE BatchEnds
    <3>1. stage[u] \in {"none", "over"}
      BY <2>2 DEF BatchEnds, Active
    <3> QED
      BY <1>2, <2>2, <3>1 DEF BatchEnds
  <2>3. CASE Crash
    BY <1>2, <2>3 DEF Crash
  <2> QED
    BY <1>4, <2>1, <2>2, <2>3
<1>5. CASE StartBatch
  <2>1. CASE Allowed
    <3>1. queue' \subseteq With({"TODO"})
      BY <1>5, <2>1 DEF StartBatch, Slice, Ready
    <3> QED
      BY <1>2, <1>5, <2>1, <3>1 DEF StartBatch, With
  <2>2. CASE ~Allowed
    BY <1>2, <1>5, <2>2 DEF StartBatch, Stops
  <2> QED
    BY <2>1, <2>2
<1>6. ASSUME NEW t \in Tasks, Admit(t) \/ AdmitFails(t) PROVE AtWork(u)'
  <2>1. t \in queue
    BY <1>1, <1>6, FirstIsMember DEF Admit, AdmitFails, Starting
  <2>2. AtWork(t)
    BY DEF WorkInv
  <2> QED
    BY <1>1, <1>2, <1>6, <2>1, <2>2 DEF Admit, AdmitFails
<1>7. ASSUME NEW t \in Tasks, Launch(t) \/ LaunchFails(t) \/ ChildEnds(t) \/ Collect(t)
      PROVE  AtWork(u)'
  BY <1>1, <1>2, <1>7 DEF Launch, LaunchFails, ChildEnds, Collect
<1>8. ASSUME NEW t \in Tasks,
             WriteJournal(t) \/ Check(t) \/ InstallFails(t) \/ Seal(t) \/ Apply(t)
      PROVE  AtWork(u)'
  BY <1>1, <1>2, <1>8 DEF WriteJournal, Check, Refuse, InstallFails, Seal, Apply, Requested
<1>9. ASSUME NEW t \in Tasks, NEW g \in Files, Install(t, g) PROVE AtWork(u)'
  BY <1>1, <1>2, <1>9 DEF Install, Refuse
<1>10. ASSUME NEW t \in Tasks,
              Verify(t) \/ ResumeIntegration(t) \/ ApplyWorkerResult(t) \/ Ambiguous(t)
                \/ FirstBlocked(t)
       PROVE  AtWork(u)'
  <2>1. mode # "batch" /\ turn = 0 /\ AtWork(t) /\ t # 0 /\ u # 0
    BY <1>10, BatchAssumption
    DEF WorkInv, Verify, ResumeIntegration, ApplyWorkerResult, Ambiguous, FirstBlocked,
        Resumes, Chosen, Tasks
  <2>2. stage[u] \in {"none", "over"} /\ stage[t] \in {"none", "over"}
    BY <1>2, <2>1
  <2>3. CASE Verify(t)
    BY <1>1, <1>2, <2>1, <2>2, <2>3 DEF Verify, Stops
  <2>4. CASE ResumeIntegration(t)
    BY <1>1, <1>2, <2>1, <2>2, <2>4 DEF ResumeIntegration
  <2>5. CASE ApplyWorkerResult(t)
    BY <1>1, <1>2, <2>1, <2>2, <2>5 DEF ApplyWorkerResult, Requested
  <2>6. CASE Ambiguous(t) \/ FirstBlocked(t)
    BY <1>1, <1>2, <2>1, <2>2, <2>6 DEF Ambiguous, FirstBlocked, Stops
  <2> QED
    BY <1>10, <2>3, <2>4, <2>5, <2>6
<1>11. ASSUME NEW g \in Files, Edit(g) PROVE AtWork(u)'
  BY <1>3, <1>11 DEF Edit
<1> QED
  BY <1>4, <1>5, <1>6, <1>7, <1>8, <1>9, <1>10, <1>11
  DEF BatchNext, Runtime, Child, Integrate

LEMMA SealKeeps ==
  ASSUME ~CrashUnjournaled, BatchTypeOK, InstallInv, WorkInv, SealInv, BatchNext
  PROVE  SealInv'
<1> SUFFICES ASSUME NEW u \in Tasks PROVE Sealed(u)'
  BY DEF SealInv
<1> USE DEF disk, space, memory, bounds, Stage, GoesOn, Ends, During, Sealed
<1>1. /\ stage = [t \in Tasks |-> stage[t]] /\ status = [t \in Tasks |-> status[t]]
      /\ env = [t \in Tasks |-> env[t]] /\ journal = [t \in Tasks |-> journal[t]]
      /\ changed = [t \in Tasks |-> changed[t]]
      /\ changed[u] \subseteq Files /\ u # 0
  BY BatchAssumption DEF BatchTypeOK, Tasks
<1>2. Sealed(u) /\ AtWork(u)
  BY DEF WorkInv, SealInv
<1>3. \A f \in changed[u] : u \in tree[f] => u \in tree'[f]
  BY <1>1, TreeGrows
<1>4. CASE UNCHANGED <<status, stage, turn, env, journal, changed>>
  BY <1>2, <1>3, <1>4
<1>5. CASE Invoke \/ Complete \/ StopBlocked \/ BatchEnds
  BY <1>4, <1>5 DEF Invoke, Complete, StopBlocked, Stops, BatchEnds
<1>6. CASE StartBatch
  BY <1>1, <1>2, <1>3, <1>6 DEF StartBatch, Stops
<1>7. CASE Crash
  <2>1. stage[u] # "collected"
    BY <1>7 DEF Crash
  <2> QED
    BY <1>1, <1>2, <1>3, <1>7, <2>1 DEF Crash
<1>8. ASSUME NEW t \in Tasks, Admit(t) \/ AdmitFails(t) \/ Launch(t) \/ LaunchFails(t) 
      PROVE  Sealed(u)'
  BY <1>1, <1>2, <1>3, <1>8 DEF Admit, AdmitFails, Launch, LaunchFails, AtWork
<1>9. ASSUME NEW t \in Tasks, ChildEnds(t) PROVE Sealed(u)'
  <2>1. /\ stage[t] = "child" /\ stage' = [stage EXCEPT ![t] = "ended"]
        /\ UNCHANGED <<tree, status, env, journal, turn>>
    BY <1>9 DEF ChildEnds
  <2>2. CASE u = t
    BY <1>1, <1>2, <2>1, <2>2 DEF AtWork
  <2>3. CASE u # t
    <3>1. changed'[u] = changed[u]
      BY <1>1, <1>9, <2>3 DEF ChildEnds
    <3> QED
      BY <1>1, <1>2, <2>1, <2>3, <3>1
  <2> QED
    BY <2>2, <2>3
<1>10. ASSUME NEW t \in Tasks, Collect(t) PROVE Sealed(u)'
  BY <1>1, <1>2, <1>3, <1>10 DEF Collect
<1>11. ASSUME NEW t \in Tasks, WriteJournal(t) PROVE Sealed(u)'
  BY <1>1, <1>2, <1>3, <1>11 DEF WriteJournal
<1>12. ASSUME NEW t \in Tasks, Check(t) PROVE Sealed(u)'
  BY <1>1, <1>2, <1>3, <1>12 DEF Check, Refuse
<1>13. ASSUME NEW t \in Tasks, NEW g \in Files, Install(t, g) PROVE Sealed(u)'
  BY <1>1, <1>2, <1>3, <1>13 DEF Install, Refuse
<1>14. ASSUME NEW t \in Tasks, Seal(t) PROVE Sealed(u)'
  <2>1. u = t => \A f \in changed[u] : u \in tree[f]
    BY <1>14 DEF Seal, InstallInv
  <2> QED
    BY <1>1, <1>2, <1>3, <1>14, <2>1 DEF Seal
<1>15. ASSUME NEW t \in Tasks, Apply(t) PROVE Sealed(u)'
  BY <1>1, <1>2, <1>3, <1>15 DEF Apply, Requested
<1>16. ASSUME NEW t \in Tasks, Verify(t) PROVE Sealed(u)'
  BY <1>1, <1>2, <1>3, <1>4, <1>16 DEF Verify, Stops
<1>17. ASSUME NEW t \in Tasks, ResumeIntegration(t) PROVE Sealed(u)'
  BY <1>1, <1>2, <1>3, <1>17 DEF ResumeIntegration, Resumes
<1>18. ASSUME NEW t \in Tasks, ApplyWorkerResult(t) PROVE Sealed(u)'
  <2>1. u = t => journal[u] = "integrated"
    BY <1>1, <1>2, <1>18 DEF ApplyWorkerResult, Requests, Resumes
  <2> QED
    BY <1>1, <1>2, <1>3, <1>18, <2>1 DEF ApplyWorkerResult, Requested
<1>19. ASSUME NEW t \in Tasks, Ambiguous(t) \/ FirstBlocked(t) PROVE Sealed(u)'
  BY <1>4, <1>19 DEF Ambiguous, FirstBlocked, Stops
<1>20. ASSUME NEW g \in Files, Edit(g) PROVE Sealed(u)'
  BY <1>4, <1>20 DEF Edit
<1>21. ASSUME NEW t \in Tasks, InstallFails(t) PROVE Sealed(u)'
  BY <1>1, <1>2, <1>3, <1>21 DEF InstallFails, Refuse
<1> QED
  BY <1>5, <1>6, <1>7, <1>8, <1>9, <1>10, <1>11, <1>12, <1>13, <1>14, <1>15, <1>16,
     <1>17, <1>18, <1>19, <1>20, <1>21 DEF BatchNext, Runtime, Child, Integrate

LEMMA Works == BatchSpec => []WorkInv
<1>1. Init => WorkInv
  BY DEF Init, WorkInv, AtWork
<1>2. WorkInv /\ UNCHANGED batchVars => WorkInv'
  BY DEF WorkInv, AtWork, batchVars, disk, space, memory
<1> QED
  BY <1>1, <1>2, WorkKeeps, BatchTypeCorrect, PTL DEF BatchSpec

\* When the runtime does not die between a result and its journal, gates,
\* verifier and people never see a worker's changes by halves.
THEOREM ReviewsAreWhole ==
  ASSUME ~CrashUnjournaled PROVE BatchSpec => []ReviewIsWhole
<1>1. Init => SealInv
  BY BatchAssumption DEF Init, SealInv, Sealed, During, Tasks
<1>2. SealInv /\ UNCHANGED batchVars => SealInv'
  BY DEF SealInv, Sealed, During, batchVars, disk, space, memory
<1>3. BatchTypeOK /\ InstallInv /\ WorkInv /\ SealInv /\ [BatchNext]_batchVars => SealInv'
  BY <1>2, SealKeeps
<1>4. SealInv => ReviewIsWhole
  BY DEF SealInv, Sealed, ReviewIsWhole, With
<1> QED
  BY <1>1, <1>3, <1>4, Installs, Works, PTL DEF BatchSpec

-----------------------------------------------------------------------------
(* What is paid.                                                           *)

\* A worker that has not been launched, or runs, has no result; one that was paid
\* and has ended has an envelope, as soon as the runtime has heard of it; and an
\* envelope has a journal, once the section that took it is over.
Kept(t) ==
  /\ status[t] = "TODO" \/ stage[t] \in {"admitted", "child"} => result[t] = "none"
  /\ receipt[t] /\ result[t] # "none" /\ stage[t] # "ended" => env[t] # "none"
  /\ env[t] \notin {"none", "policy"} /\ journal[t] = "none" => During(t, "collected")

PaidInv == crashes = 0 => \A t \in Tasks : Kept(t)

LEMMA PaidKeeps ==
  ASSUME BatchTypeOK, WorkInv, PaidInv, BatchNext
  PROVE  PaidInv'
<1> SUFFICES ASSUME crashes' = 0, NEW u \in Tasks PROVE Kept(u)'
  BY DEF PaidInv
<1> USE DEF disk, space, memory, bounds, Stage, GoesOn, Ends, During, Kept
<1>1. /\ stage = [t \in Tasks |-> stage[t]] /\ status = [t \in Tasks |-> status[t]]
      /\ env = [t \in Tasks |-> env[t]] /\ journal = [t \in Tasks |-> journal[t]]
      /\ result = [t \in Tasks |-> result[t]] /\ receipt = [t \in Tasks |-> receipt[t]]
      /\ u # 0
  BY BatchAssumption DEF BatchTypeOK, Tasks
<1>2. ~Crash /\ crashes = 0
  <2>1. crashes \in Nat
    BY BatchAssumption DEF BatchTypeOK
  <2>2. ~Crash
    BY <2>1 DEF Crash
  <2>3. crashes' = crashes
    BY <2>2
    DEF BatchNext, Runtime, Child, Integrate, Invoke, Complete, StopBlocked, StartBatch,
        BatchEnds, Admit, AdmitFails, Launch, LaunchFails, Collect, WriteJournal, Check,
        Install, InstallFails, Seal, Apply, FirstBlocked, Verify, ResumeIntegration,
        ApplyWorkerResult, Ambiguous, ChildEnds, Edit
  <2> QED
    BY <2>2, <2>3
<1>3. Kept(u) /\ AtWork(u)
  BY <1>2 DEF PaidInv, WorkInv
<1>4. CASE UNCHANGED <<status, receipt, env, journal, result, stage, turn>>
  BY <1>3, <1>4
<1>5. CASE Invoke \/ Complete \/ StopBlocked \/ BatchEnds
  BY <1>4, <1>5 DEF Invoke, Complete, StopBlocked, Stops, BatchEnds
<1>6. CASE StartBatch
  <2>1. CASE Allowed
    <3>1. stage[u] # "ended"
      BY <1>3, <1>6 DEF StartBatch, AtWork
    <3> QED
      BY <1>1, <1>3, <1>6, <2>1, <3>1 DEF StartBatch
  <2>2. CASE ~Allowed
    BY <1>4, <1>6, <2>2 DEF StartBatch, Stops
  <2> QED
    BY <2>1, <2>2
<1>7. ASSUME NEW t \in Tasks, Admit(t) \/ AdmitFails(t) PROVE Kept(u)'
  <2>1. t \in queue
    BY <1>7, FirstIsMember DEF Admit, AdmitFails, Starting, BatchTypeOK
  <2>2. u = t => status[u] = "TODO"
    BY <1>3, <2>1 DEF AtWork
  <2> QED
    BY <1>1, <1>3, <1>7, <2>2 DEF Admit, AdmitFails
<1>8. ASSUME NEW t \in Tasks, Launch(t) \/ LaunchFails(t) PROVE Kept(u)'
  BY <1>1, <1>3, <1>8 DEF Launch, LaunchFails
<1>9. ASSUME NEW t \in Tasks, ChildEnds(t) PROVE Kept(u)'
  <2>1. /\ stage[t] = "child" /\ stage' = [stage EXCEPT ![t] = "ended"]
        /\ UNCHANGED <<status, receipt, env, journal, turn>>
    BY <1>9 DEF ChildEnds
  <2>2. CASE u = t
    BY <1>1, <1>3, <2>1, <2>2 DEF AtWork
  <2>3. CASE u # t
    <3>1. result'[u] = result[u]
      BY <1>1, <1>9, <2>3 DEF ChildEnds
    <3> QED
      BY <1>1, <1>3, <2>1, <2>3, <3>1
  <2> QED
    BY <2>2, <2>3
<1>10. ASSUME NEW t \in Tasks, Collect(t) PROVE Kept(u)'
  <2>1. result[t] # "none" =>
          (IF result[t] = "protected" THEN "ok" ELSE result[t]) # "none"
    OBVIOUS
  <2> QED
    BY <1>1, <1>3, <1>10, <2>1 DEF Collect
<1>11. ASSUME NEW t \in Tasks, WriteJournal(t) \/ Seal(t) PROVE Kept(u)'
  BY <1>1, <1>3, <1>11 DEF WriteJournal, Seal
<1>12. ASSUME NEW t \in Tasks, Check(t) \/ InstallFails(t) PROVE Kept(u)'
  BY <1>1, <1>3, <1>12 DEF Check, Refuse, InstallFails
<1>13. ASSUME NEW t \in Tasks, NEW g \in Files, Install(t, g) PROVE Kept(u)'
  BY <1>1, <1>3, <1>13 DEF Install, Refuse
<1>14. ASSUME NEW t \in Tasks, Apply(t) PROVE Kept(u)'
  BY <1>1, <1>3, <1>14 DEF Apply, Requested
<1>15. ASSUME NEW t \in Tasks, Verify(t) \/ Ambiguous(t) \/ FirstBlocked(t)
       PROVE  Kept(u)'
  BY <1>1, <1>3, <1>4, <1>15 DEF Verify, Ambiguous, FirstBlocked, Stops
<1>16. ASSUME NEW t \in Tasks, ResumeIntegration(t) PROVE Kept(u)'
  <2>1. AtWork(t) /\ mode # "batch" /\ turn = 0 /\ journal[t] = "pending" /\ t # 0
    BY <1>16, BatchAssumption DEF WorkInv, ResumeIntegration, Resumes, Chosen, Tasks
  <2>2. stage[t] # "ended"
    BY <2>1 DEF AtWork
  <2> QED
    BY <1>1, <1>3, <1>16, <2>1, <2>2 DEF ResumeIntegration
<1>17. ASSUME NEW t \in Tasks, ApplyWorkerResult(t) PROVE Kept(u)'
  BY <1>1, <1>3, <1>17 DEF ApplyWorkerResult, Requested
<1>18. ASSUME NEW g \in Files, Edit(g) PROVE Kept(u)'
  BY <1>4, <1>18 DEF Edit
<1> QED
  BY <1>2, <1>5, <1>6, <1>7, <1>8, <1>9, <1>10, <1>11, <1>12, <1>13, <1>14, <1>15,
     <1>16, <1>17, <1>18 DEF BatchNext, Runtime, Child, Integrate

\* Whatever happens to an item of a batch, nothing else goes on while another one is
\* at work; and unless the runtime dies, what the paid workers brought is by then
\* with their runs, to be resumed from.
THEOREM BatchesAreAwaited == BatchSpec => []BatchAwaited
<1>1. Init => PaidInv
  BY DEF Init, PaidInv, Kept
<1>2. PaidInv /\ UNCHANGED batchVars => PaidInv'
  BY DEF PaidInv, Kept, During, batchVars, disk, space, memory, bounds
<1>3. BatchTypeOK /\ WorkInv /\ PaidInv /\ [BatchNext]_batchVars => PaidInv'
  BY <1>2, PaidKeeps
<1>4. WorkInv /\ PaidInv => BatchAwaited
  <2> SUFFICES ASSUME WorkInv, PaidInv, mode # "batch"
               PROVE  /\ Active \subseteq {turn}
                      /\ crashes = 0 =>
                           \A t \in Tasks \ {turn} :
                             receipt[t] /\ result[t] # "none" => Taken(t)
    BY DEF BatchAwaited
  <2>1. Active \subseteq {turn}
    BY DEF WorkInv, AtWork, Active
  <2>2. ASSUME crashes = 0, NEW t \in Tasks \ {turn}, receipt[t], result[t] # "none"
        PROVE  Taken(t)
    <3>1. Kept(t) /\ stage[t] # "ended"
      BY <2>2 DEF PaidInv, WorkInv, AtWork
    <3> QED
      BY <2>2, <3>1 DEF Kept, During, Taken
  <2> QED
    BY <2>1, <2>2
<1> QED
  BY <1>1, <1>3, <1>4, BatchTypeCorrect, Works, PTL DEF BatchSpec

-----------------------------------------------------------------------------
(* Halves.                                                                 *)

\* What a section that goes on has heard of has an envelope, and a Task without one
\* has nothing in the tree.
HeardOf(t) ==
  /\ stage[t] \in {"collected", "journaled", "installing", "sealed"} => env[t] # "none"
  /\ env[t] = "none" => \A f \in Files : t \notin tree[f]

HeardInv == \A t \in Tasks : HeardOf(t)

\* All of a Task's changes are in the tree, or none.
AllOrNone(t) == \/ \A f \in changed[t] : t \in tree[f]
                \/ \A f \in changed[t] : t \notin tree[f]

\* While nobody edits and nothing dies or fails, what a section has compared stays so,
\* and it comes to its end.
HalvesInv == edits = 0 /\ crashes = 0 /\ faults = 0 => \A t \in Tasks :
  IF During(t, "installing") THEN \A f \in todo : tree[f] \in {Before(t, f), After(t, f)}
  ELSE AllOrNone(t)

\* An installation puts nothing but its own Task into a file.
LEMMA OwnChangesOnly ==
  ASSUME BatchTypeOK, InstallInv, BatchNext, NEW u \in Tasks, NEW f \in Files,
         u \in tree'[f], u \notin tree[f]
  PROVE  \E g \in Files : Install(u, g)
<1> USE DEF disk, space, memory, bounds
<1>1. ASSUME NEW t \in Tasks, NEW g \in Files, Install(t, g) PROVE u = t
  <2>1. g \notin Conflicts(t) /\ tree' = [tree EXCEPT ![g] = After(t, g)]
    BY <1>1 DEF Install
  <2>2. g \in changed[t]
    BY <1>1 DEF Install, InstallInv
  <2>3. tree[g] \in {Before(t, g), After(t, g)}
    BY <2>1, <2>2 DEF Conflicts
  <2>4. f = g /\ u \in After(t, g)
    BY <2>1 DEF BatchTypeOK
  <2> QED
    BY <2>3, <2>4 DEF Before, After
<1>2. ASSUME NEW g \in Files, Edit(g) PROVE FALSE
  BY <1>2, BatchAssumption DEF Edit, BatchTypeOK, User, Tasks
<1>3. tree' # tree
  OBVIOUS
<1>4. ~(Invoke \/ Complete \/ StopBlocked \/ StartBatch \/ BatchEnds \/ Crash)
  BY <1>3 DEF Invoke, Complete, StopBlocked, Stops, StartBatch, BatchEnds, Crash
<1>5. ASSUME NEW t \in Tasks
      PROVE  ~(Admit(t) \/ AdmitFails(t) \/ Launch(t) \/ LaunchFails(t) \/ Collect(t)
               \/ WriteJournal(t) \/ Check(t) \/ InstallFails(t) \/ Seal(t) \/ Apply(t))
  BY <1>3, <1>5 DEF Admit, AdmitFails, Launch, LaunchFails, Collect, WriteJournal, Check,
     InstallFails, Seal, Apply
<1>6. ASSUME NEW t \in Tasks
      PROVE  ~(Verify(t) \/ ResumeIntegration(t) \/ ApplyWorkerResult(t)
               \/ Ambiguous(t) \/ FirstBlocked(t) \/ ChildEnds(t))
  BY <1>3, <1>6 DEF Verify, ResumeIntegration, ApplyWorkerResult, Ambiguous, FirstBlocked,
     ChildEnds, Stops
<1> QED
  BY <1>1, <1>2, <1>4, <1>5, <1>6 DEF BatchNext, Runtime, Child, Integrate

\* Every step keeps it.
LEMMA HeardKeeps ==
  ASSUME BatchTypeOK, InstallInv, WorkInv, HeardInv, BatchNext
  PROVE  HeardInv'
<1> SUFFICES ASSUME NEW u \in Tasks PROVE HeardOf(u)'
  BY DEF HeardInv
<1> USE DEF disk, space, memory, bounds, Stage, GoesOn, Ends, During, HeardOf
<1>1. /\ stage = [t \in Tasks |-> stage[t]] /\ env = [t \in Tasks |-> env[t]]
      /\ HeardOf(u)
  BY DEF BatchTypeOK, HeardInv
\* Nothing of it comes into the tree but by its own section.
<1>2. ASSUME ~\E g \in Files : Install(u, g), NEW f \in Files, u \notin tree[f]
      PROVE  u \notin tree'[f]
  BY <1>2, OwnChangesOnly
<1>3. ASSUME UNCHANGED env, ~\E g \in Files : Install(u, g),
             stage'[u] \in {"collected", "journaled", "installing", "sealed"}
               => stage[u] \in {"collected", "journaled", "installing", "sealed"}
      PROVE  HeardOf(u)'
  BY <1>1, <1>2, <1>3
<1>4. ASSUME NEW t \in Tasks, NEW g \in Files, Install(t, g) PROVE HeardOf(u)'
  <2>1. stage[t] = "installing" /\ env' = env
    BY <1>4 DEF Install
  <2>2. stage'[u] \in {stage[u], "over"}
    BY <1>1, <1>4 DEF Install, Refuse
  <2>3. CASE u = t
    BY <1>1, <2>1, <2>2, <2>3
  <2>4. CASE u # t
    <3>1. ~\E h \in Files : Install(u, h)
      BY <1>4, <2>4 DEF Install
    <3> QED
      BY <1>1, <1>2, <2>1, <2>2, <3>1
  <2> QED
    BY <2>3, <2>4
<1>5. CASE ~\E t \in Tasks, g \in Files : Install(t, g)
  <2>1. ~\E g \in Files : Install(u, g)
    BY <1>5
  <2> DEFINE Heard == {"collected", "journaled", "installing", "sealed"}
  <2>2. CASE Invoke \/ Complete \/ StopBlocked \/ StartBatch \/ BatchEnds \/ Crash
    <3>1. env' = env /\ stage'[u] \in {stage[u], "none"}
      BY <2>2 DEF Invoke, Complete, StopBlocked, Stops, StartBatch, BatchEnds, Crash
    <3> QED
      BY <1>3, <2>1, <3>1
  <2>3. ASSUME NEW t \in Tasks,
               Admit(t) \/ AdmitFails(t) \/ Launch(t) \/ LaunchFails(t) \/ ChildEnds(t)
        PROVE  HeardOf(u)'
    <3>1. env' = env /\ stage'[u] \in {stage[u], "admitted", "child", "ended", "over"}
      BY <1>1, <2>3 DEF Admit, AdmitFails, Launch, LaunchFails, ChildEnds
    <3> QED
      BY <1>3, <2>1, <3>1
  <2>4. ASSUME NEW t \in Tasks, Collect(t) PROVE HeardOf(u)'
    <3>1. result[t] # "none" =>
            (IF result[t] = "protected" THEN "ok" ELSE result[t]) # "none"
      OBVIOUS
    <3>2. env'[u] = "none" => env[u] = "none"
      BY <1>1, <2>4, <3>1 DEF Collect
    <3>3. stage'[u] \in Heard => env'[u] # "none"
      BY <1>1, <2>4, <3>1 DEF Collect
    <3> QED
      BY <1>1, <1>2, <2>1, <3>2, <3>3
  <2>5. ASSUME NEW t \in Tasks,
               WriteJournal(t) \/ Check(t) \/ InstallFails(t) \/ Seal(t) \/ Apply(t)
        PROVE  HeardOf(u)'
    <3>1. env' = env /\ (stage'[u] \in Heard => stage[u] \in Heard)
      BY <1>1, <2>5 DEF WriteJournal, Check, Refuse, InstallFails, Seal, Apply
    <3> QED
      BY <1>3, <2>1, <3>1
  <2>6. ASSUME NEW t \in Tasks,
               Verify(t) \/ ApplyWorkerResult(t) \/ Ambiguous(t) \/ FirstBlocked(t)
        PROVE  HeardOf(u)'
    <3>1. env' = env /\ stage' = stage
      BY <2>6 DEF Verify, Stops, ApplyWorkerResult, Ambiguous, FirstBlocked
    <3> QED
      BY <1>3, <2>1, <3>1
  <2>7. ASSUME NEW t \in Tasks, ResumeIntegration(t) PROVE HeardOf(u)'
    <3>1. env' = env /\ env[t] # "none" /\ stage' = [stage EXCEPT ![t] = "journaled"]
      BY <2>7 DEF ResumeIntegration
    <3>2. stage'[u] \in Heard => env'[u] # "none"
      BY <1>1, <3>1
    <3> QED
      BY <1>1, <1>2, <2>1, <3>1, <3>2
  <2>8. ASSUME NEW g \in Files, Edit(g) PROVE HeardOf(u)'
    BY <1>3, <2>1, <2>8 DEF Edit
  <2> QED
    BY <1>5, <2>2, <2>3, <2>4, <2>5, <2>6, <2>7, <2>8
    DEF BatchNext, Runtime, Child, Integrate
<1> QED
  BY <1>4, <1>5

\* Every step keeps it, by what a section may write.
LEMMA HalvesKeep ==
  ASSUME BatchTypeOK, InstallInv, WorkInv, HeardInv, HalvesInv, BatchNext
  PROVE  HalvesInv'
<1> SUFFICES ASSUME edits' = 0, crashes' = 0, faults' = 0, NEW u \in Tasks
             PROVE  IF During(u, "installing")'
                    THEN \A f \in todo' : tree'[f] \in {Before(u, f)', After(u, f)'}
                    ELSE AllOrNone(u)'
  BY DEF HalvesInv
<1> DEFINE Compared == \A f \in todo' : tree'[f] \in {Before(u, f)', After(u, f)'}
           Goal == IF During(u, "installing")' THEN Compared ELSE AllOrNone(u)'
<1> USE DEF disk, space, memory, bounds, Stage, GoesOn, Ends, During
<1>1. /\ stage = [t \in Tasks |-> stage[t]] /\ changed = [t \in Tasks |-> changed[t]]
      /\ base = [t \in Tasks |-> base[t]]
      /\ changed[u] \subseteq Files /\ u # 0 /\ 0 \notin Tasks
  BY BatchAssumption DEF BatchTypeOK, Tasks
\* Neither an edit nor a death, and no error.
<1>2. /\ ~Crash /\ \A f \in Files : ~Edit(f)
      /\ \A t \in Tasks : ~InstallFails(t)
      /\ edits = 0 /\ crashes = 0 /\ faults = 0
  <2>1. edits \in Nat /\ crashes \in Nat /\ faults \in Nat
    BY BatchAssumption DEF BatchTypeOK
  <2>2. ~Crash
    BY <2>1 DEF Crash
  <2>3. \A f \in Files : ~Edit(f)
    BY <2>1 DEF Edit
  <2>4. \A t \in Tasks : ~InstallFails(t)
    BY <2>1 DEF InstallFails
  <2>5. edits' = edits /\ crashes' = crashes /\ faults' = faults
    BY <2>2, <2>3, <2>4
    DEF BatchNext, Runtime, Child, Integrate, Invoke, Complete, StopBlocked, StartBatch,
        BatchEnds, Admit, AdmitFails, Launch, LaunchFails, Collect, WriteJournal, Check,
        Install, Seal, Apply, FirstBlocked, Verify, ResumeIntegration, ApplyWorkerResult,
        Ambiguous, ChildEnds
  <2> QED
    BY <2>2, <2>3, <2>4, <2>5
<1>3. IF During(u, "installing")
      THEN \A f \in todo : tree[f] \in {Before(u, f), After(u, f)}
      ELSE AllOrNone(u)
  BY <1>2 DEF HalvesInv
<1> HIDE DEF Goal
\* What the installations of others leave alone.
<1>4. ASSUME ~\E g \in Files : Install(u, g), NEW f \in Files
      PROVE  u \in tree'[f] <=> u \in tree[f]
  BY <1>4, OwnChangesOnly, TreeGrows
<1>5. ASSUME ~During(u, "installing"), ~During(u, "installing")', changed'[u] = changed[u]
      PROVE  Goal
  <2>1. ~\E g \in Files : Install(u, g)
    BY <1>5 DEF Install
  <2> QED
    BY <1>1, <1>3, <1>4, <1>5, <2>1 DEF AllOrNone, Goal
<1>6. ASSUME UNCHANGED <<tree, base, changed, stage, turn, todo>> PROVE Goal
  BY <1>3, <1>6 DEF Goal, AllOrNone, Before, After
<1>7. ASSUME turn = 0, turn' = 0, changed' = changed PROVE Goal
  BY <1>1, <1>5, <1>7
<1>8. ASSUME Invoke \/ Complete \/ StopBlocked \/ StartBatch \/ BatchEnds PROVE Goal
  <2>1. CASE Invoke
    BY <1>6, <2>1 DEF Invoke
  <2>2. CASE Complete \/ StopBlocked \/ StartBatch \/ BatchEnds
    BY <1>7, <2>2 DEF Complete, StopBlocked, Stops, StartBatch, BatchEnds
  <2> QED
    BY <1>8, <2>1, <2>2
<1>9. ASSUME NEW t \in Tasks,
             Admit(t) \/ AdmitFails(t) \/ Launch(t) \/ LaunchFails(t) \/ Collect(t)
               \/ WriteJournal(t) \/ Apply(t)
      PROVE  Goal
  <2>1. ~During(u, "installing") /\ ~During(u, "installing")' /\ changed' = changed
    BY <1>1, <1>9 DEF Admit, AdmitFails, Launch, LaunchFails, Collect, WriteJournal, Apply
  <2> QED
    BY <1>5, <2>1
<1>10. ASSUME NEW t \in Tasks,
              Verify(t) \/ ResumeIntegration(t) \/ ApplyWorkerResult(t) \/ Ambiguous(t)
                \/ FirstBlocked(t)
       PROVE  Goal
  <2>1. ~During(u, "installing") /\ ~During(u, "installing")' /\ changed' = changed
    BY <1>1, <1>10
    DEF Verify, ResumeIntegration, ApplyWorkerResult, Ambiguous, FirstBlocked, Resumes, Stops
  <2> QED
    BY <1>5, <2>1
<1>11. ASSUME NEW t \in Tasks, Check(t) PROVE Goal
  <2>1. tree' = tree /\ base' = base /\ changed' = changed /\ ~During(u, "installing")
    BY <1>1, <1>11 DEF Check
  <2>2. CASE During(u, "installing")'
    <3>1. u = t /\ todo' = changed[u] /\ Conflicts(u) = {}
      BY <1>1, <1>11, <2>1, <2>2 DEF Check, Refuse
    <3>2. \A f \in changed[u] : tree[f] \in {Before(u, f), After(u, f)}
      BY <3>1 DEF Conflicts
    <3> QED
      BY <2>1, <2>2, <3>1, <3>2 DEF Goal, Before, After
  <2>3. CASE ~During(u, "installing")'
    BY <1>5, <2>1, <2>3
  <2> QED
    BY <2>2, <2>3
<1>12. ASSUME NEW t \in Tasks, NEW g \in Files, Install(t, g) PROVE Goal
  <2>1. During(t, "installing") /\ g \in todo /\ changed' = changed /\ base' = base
    BY <1>12 DEF Install
  <2>2. CASE u = t
    <3>1. tree[g] \in {Before(u, g), After(u, g)}
      BY <1>3, <2>1, <2>2
    <3>2. /\ tree' = [tree EXCEPT ![g] = After(u, g)] /\ todo' = todo \ {g}
          /\ UNCHANGED <<stage, turn>>
      BY <1>12, <2>2, <3>1 DEF Install, Conflicts
    <3>3. \A f \in todo' : tree'[f] = tree[f]
      BY <3>2 DEF BatchTypeOK
    <3> QED
      BY <1>3, <2>1, <2>2, <3>2, <3>3 DEF Goal, Before, After
  <2>3. CASE u # t
    <3>1. ~During(u, "installing") /\ ~During(u, "installing")'
      BY <1>1, <1>12, <2>1, <2>3 DEF Install, Refuse
    <3> QED
      BY <1>5, <2>1, <3>1
  <2> QED
    BY <2>2, <2>3
<1>13. ASSUME NEW t \in Tasks, Seal(t) PROVE Goal
  <2>1. /\ During(t, "installing") /\ todo = {} /\ changed' = changed /\ tree' = tree
        /\ ~During(u, "installing")'
    BY <1>1, <1>13 DEF Seal
  <2>2. CASE u = t
    <3>1. \A f \in changed[u] : u \in tree[f]
      BY <2>1, <2>2 DEF InstallInv
    <3> QED
      BY <2>1, <3>1 DEF Goal, AllOrNone
  <2>3. CASE u # t
    BY <1>5, <2>1, <2>3
  <2> QED
    BY <2>2, <2>3
<1>14. ASSUME NEW t \in Tasks, ChildEnds(t) PROVE Goal
  <2>1. /\ stage[t] = "child" /\ stage' = [stage EXCEPT ![t] = "ended"]
        /\ UNCHANGED <<tree, base, turn, todo>>
    BY <1>14 DEF ChildEnds
  <2>2. CASE u = t
    <3>1. env[u] = "none"
      BY <2>1, <2>2 DEF WorkInv, AtWork
    <3>2. \A f \in Files : u \notin tree[f]
      BY <3>1 DEF HeardInv, HeardOf
    <3>3. ~During(u, "installing")' /\ changed'[u] \subseteq Files
      BY <1>1, <2>1, <2>2, <1>14, TypeKeeps DEF BatchTypeOK
    <3> QED
      BY <2>1, <3>2, <3>3 DEF Goal, AllOrNone
  <2>3. CASE u # t
    <3>1. changed'[u] = changed[u]
      BY <1>1, <1>14, <2>3 DEF ChildEnds
    <3>2. During(u, "installing")' <=> During(u, "installing")
      BY <1>1, <2>1, <2>3
    <3> QED
      BY <1>3, <2>1, <3>1, <3>2 DEF Goal, AllOrNone, Before, After
  <2> QED
    BY <2>2, <2>3
<1>15. Goal
  BY <1>2, <1>8, <1>9, <1>10, <1>11, <1>12, <1>13, <1>14
  DEF BatchNext, Runtime, Child, Integrate
<1> QED
  BY <1>15 DEF Goal

LEMMA Heard == BatchSpec => []HeardInv
<1>1. Init => HeardInv
  BY DEF Init, HeardInv, HeardOf
<1>2. HeardInv /\ UNCHANGED batchVars => HeardInv'
  BY DEF HeardInv, HeardOf, batchVars, disk, space, memory
<1> QED
  BY <1>1, <1>2, HeardKeeps, Installs, Works, PTL DEF BatchSpec

\* While nobody edits a file, the runtime does not die and no file operation of an
\* installation fails, what a worker changed
\* comes into the repository whole or not at all: workers of one batch that
\* changed the same file leave nothing behind.
THEOREM NothingByHalves == BatchSpec => []NoHalves
<1>1. Init => HalvesInv
  BY BatchAssumption DEF Init, HalvesInv, AllOrNone, During, Tasks
<1>2. HalvesInv /\ UNCHANGED batchVars => HalvesInv'
  BY DEF HalvesInv, AllOrNone, During, Before, After, batchVars, disk, space, memory, bounds
<1>3. BatchTypeOK /\ InstallInv /\ WorkInv /\ HeardInv /\ HalvesInv /\ [BatchNext]_batchVars
        => HalvesInv'
  BY <1>2, HalvesKeep
<1>4. BatchTypeOK /\ HalvesInv => NoHalves
  <2> SUFFICES ASSUME BatchTypeOK, HalvesInv, edits + crashes + faults = 0,
                      NEW t \in Tasks \ {turn}
               PROVE  {f \in changed[t] : t \in tree[f]} \in {{}, changed[t]}
    BY DEF NoHalves
  <2>1. edits = 0 /\ crashes = 0 /\ faults = 0
    BY BatchAssumption DEF BatchTypeOK
  <2>2. AllOrNone(t)
    BY <2>1 DEF HalvesInv, During
  <2> QED
    BY <2>2 DEF AllOrNone
<1> QED
  BY <1>1, <1>3, <1>4, Installs, Works, Heard, PTL DEF BatchSpec

-----------------------------------------------------------------------------
(* The cap.                                                                *)

\* Under a cap there is one Task at most between its selection and its result.  A
\* call is admitted below the cap, and, when unknown costs are to stop the plan,
\* with none before it.
Calling == {t \in Tasks : stage[t] \in {"admitted", "child", "ended"}}

CapInv ==
  cap # NoCap =>
    /\ \A t, u \in queue \cup Calling : t = u
    /\ Calling # {} => queue = {} /\ Spent < cap
    /\ Spent <= cap
    /\ strict => /\ \A t, u \in Unknown : t = u
                 /\ \A t \in Tasks : stage[t] = "admitted" => Unknown = {}

\* A set of which any two members are equal has one at most.
LEMMA AtMostOne ==
  ASSUME NEW S, \A x, y \in S : x = y PROVE Cardinality(S) <= 1
<1>1. CASE S = {}
  BY <1>1, FS_EmptySet
<1>2. ASSUME NEW x \in S PROVE Cardinality(S) <= 1
  <2>1. S = {x}
    OBVIOUS
  <2> QED
    BY <2>1, FS_Singleton
<1> QED
  BY <1>1, <1>2

\* There are finitely many Tasks,
LEMMA TasksFinite == IsFiniteSet(Tasks)
  BY BatchAssumption, FS_Interval DEF Tasks

\* One Task of a set is before no other.
LEMMA SliceOfOne ==
  ASSUME NEW S \in SUBSET Tasks PROVE \A t, u \in Slice(S, 1) : t = u
<1>1. ASSUME NEW t \in Slice(S, 1), NEW u \in S PROVE ~(u < t)
  <2>1. IsFiniteSet({w \in S : w < t})
    BY TasksFinite, FS_Subset
  <2>2. Cardinality({w \in S : w < t}) \in Nat
    BY <2>1, FS_CardinalityType
  <2>3. Cardinality({w \in S : w < t}) < 1
    BY <1>1 DEF Slice
  <2>4. {w \in S : w < t} = {}
    BY <2>1, <2>2, <2>3, FS_EmptySet
  <2> QED
    BY <2>4
<1> QED
  BY <1>1, BatchAssumption DEF Slice, Tasks

\* so finitely many that were paid,
LEMMA PaidFinite == IsFiniteSet({t \in Tasks : env[t] # "none"})
  BY TasksFinite, FS_Subset

\* and the sum of what they cost is a number.
LEMMA SpentType == Spent \in Nat
  BY PaidFinite, FS_CardinalityType DEF Spent

\* A Task whose worker gave an envelope was called, and it cost 1.
LEMMA SpentCounts ==
  ASSUME BatchTypeOK, NEW t \in Tasks, NEW e,
         env[t] = "none", e # "none", env' = [env EXCEPT ![t] = e]
  PROVE  Spent' = Spent + 1
<1> DEFINE Paid == {u \in Tasks : env[u] # "none"}
<1>1. t \notin Paid /\ {u \in Tasks : env'[u] # "none"} = Paid \cup {t}
  BY DEF BatchTypeOK
<1>2. IsFiniteSet(Paid)
  BY PaidFinite
<1> HIDE DEF Paid
<1>3. Cardinality(Paid \cup {t}) = Cardinality(Paid) + 1
  BY <1>1, <1>2, FS_AddElement
<1> QED
  BY <1>1, <1>3 DEF Spent, Paid

\* Every step keeps it: a call is admitted when no other is open.
LEMMA CapKeeps ==
  ASSUME BatchTypeOK, WorkInv, CapInv, BatchNext
  PROVE  CapInv'
<1> SUFFICES ASSUME cap' # NoCap
             PROVE  /\ \A t, u \in (queue \cup Calling)' : t = u
                    /\ Calling' # {} => queue' = {} /\ Spent' < cap'
                    /\ Spent' <= cap'
                    /\ strict' => /\ \A t, u \in Unknown' : t = u
                                  /\ \A t \in Tasks : stage'[t] = "admitted" => Unknown' = {}
  BY DEF CapInv
<1> DEFINE Goal == /\ \A t, u \in queue' \cup Calling' : t = u
                   /\ Calling' # {} => queue' = {} /\ Spent' < cap'
                   /\ Spent' <= cap'
                   /\ strict' => /\ \A t, u \in Unknown' : t = u
                                 /\ \A t \in Tasks : stage'[t] = "admitted" => Unknown' = {}
<1> USE DEF disk, space, memory, bounds, Stage, GoesOn, Ends, During
<1>1. /\ stage = [t \in Tasks |-> stage[t]] /\ env = [t \in Tasks |-> env[t]]
      /\ receipt = [t \in Tasks |-> receipt[t]] /\ queue \subseteq Tasks
  BY DEF BatchTypeOK
<1>2. cap' = cap /\ strict' = strict
  BY DEF BatchNext, Runtime, Child, Integrate, Invoke, Complete, StopBlocked, StartBatch,
     BatchEnds, Admit, AdmitFails, Launch, LaunchFails, Collect, WriteJournal, Check, Install,
     Seal, Apply,
     InstallFails, FirstBlocked, Verify, ResumeIntegration, ApplyWorkerResult, Ambiguous,
     ChildEnds, Edit, Crash
<1>3. cap \in Nat /\ Spent \in Nat
  BY <1>2, BatchAssumption, SpentType DEF BatchTypeOK
<1>4. /\ \A t, u \in queue \cup Calling : t = u
      /\ Calling # {} => queue = {} /\ Spent < cap
      /\ Spent <= cap
      /\ strict => /\ \A t, u \in Unknown : t = u
                   /\ \A t \in Tasks : stage[t] = "admitted" => Unknown = {}
  BY <1>2 DEF CapInv
<1> HIDE DEF Goal
\* A step that admits nobody and spends nothing.
<1>5. ASSUME UNCHANGED <<env, receipt>>, queue' \subseteq queue,
             \A t \in Tasks : stage'[t] # stage[t] =>
               \/ stage'[t] \notin {"admitted", "child", "ended"}
               \/ stage[t] \in {"admitted", "child", "ended"} /\ stage'[t] # "admitted"
      PROVE  Goal
  <2>1. Spent' = Spent /\ Unknown' = Unknown
    BY <1>5 DEF Spent, Unknown
  <2>2. Calling' \subseteq Calling
    BY <1>5 DEF Calling
  <2>3. \A t \in Tasks : stage'[t] = "admitted" => stage[t] = "admitted"
    BY <1>5
  <2> QED
    BY <1>2, <1>4, <1>5, <2>1, <2>2, <2>3 DEF Goal
<1>6. ASSUME Invoke \/ Complete \/ StopBlocked \/ BatchEnds \/ Crash PROVE Goal
  BY <1>5, <1>6 DEF Invoke, Complete, StopBlocked, Stops, BatchEnds, Crash
<1>7. ASSUME StartBatch PROVE Goal
  <2>1. CASE Allowed
    <3>1. /\ queue' = Slice(Ready, 1) /\ stage' = [t \in Tasks |-> "none"]
          /\ UNCHANGED <<env, receipt>>
      BY <1>2, <1>7, <2>1 DEF StartBatch, Width
    <3>2. Calling' = {} /\ Spent' = Spent /\ Unknown' = Unknown
      BY <3>1 DEF Calling, Spent, Unknown
    <3>3. Ready \in SUBSET Tasks
      BY DEF Ready, With
    <3>4. \A t, u \in queue' : t = u
      BY <3>1, <3>3, SliceOfOne
    <3> QED
      BY <1>2, <1>4, <3>1, <3>2, <3>4 DEF Goal
  <2>2. CASE ~Allowed
    BY <1>5, <1>7, <2>2 DEF StartBatch, Stops
  <2> QED
    BY <2>1, <2>2
<1>8. ASSUME NEW t \in Tasks, Admit(t) PROVE Goal
  <2>1. t \in queue
    BY <1>1, <1>8, FirstIsMember DEF Admit, Starting
  <2>2. queue = {t} /\ Calling = {}
    BY <1>4, <2>1
  <2>3. /\ queue' = {} /\ stage' = [stage EXCEPT ![t] = "admitted"]
        /\ UNCHANGED <<env, receipt>>
    BY <1>8, <2>2 DEF Admit
  <2>4. Spent' = Spent /\ Unknown' = Unknown
    BY <2>3 DEF Spent, Unknown
  <2>5. Calling' = {t}
    BY <1>1, <2>2, <2>3 DEF Calling
  <2>6. Spent < cap /\ (strict => Unknown = {})
    BY <1>2, <1>8 DEF Admit, Allowed
  <2> QED
    BY <1>2, <1>4, <2>3, <2>4, <2>5, <2>6 DEF Goal
<1>9. ASSUME NEW t \in Tasks, AdmitFails(t) \/ LaunchFails(t) PROVE Goal
  BY <1>1, <1>5, <1>9 DEF AdmitFails, LaunchFails
<1>10. ASSUME NEW t \in Tasks, Launch(t) PROVE Goal
  <2>1. /\ stage[t] = "admitted" /\ stage' = [stage EXCEPT ![t] = "child"]
        /\ receipt' = [receipt EXCEPT ![t] = TRUE] /\ UNCHANGED <<env, queue>>
    BY <1>10 DEF Launch
  <2>2. Calling = {t} /\ Calling' = Calling /\ Spent' = Spent
    BY <1>1, <1>4, <2>1 DEF Calling, Spent
  <2>3. strict => Unknown' \subseteq {t}
    BY <1>1, <1>4, <2>1 DEF Unknown
  <2>4. \A u \in Tasks : stage'[u] # "admitted"
    BY <1>1, <2>1, <2>2 DEF Calling
  <2> QED
    BY <1>2, <1>4, <2>1, <2>2, <2>3, <2>4 DEF Goal
<1>11. ASSUME NEW t \in Tasks, Collect(t) PROVE Goal
  <2>1. stage[t] = "ended" /\ UNCHANGED <<receipt, queue>>
    BY <1>11 DEF Collect
  <2>2. Calling = {t} /\ queue = {} /\ Spent < cap
    BY <1>4, <2>1 DEF Calling
  <2>3. CASE result[t] = "none"
    BY <1>1, <1>5, <1>11, <2>3 DEF Collect
  <2>4. CASE result[t] # "none"
    <3>1. PICK e : e # "none" /\ env' = [env EXCEPT ![t] = e]
      <4>1. (IF result[t] = "protected" THEN "ok" ELSE result[t]) # "none"
        BY <2>4
      <4> QED
        BY <1>11, <2>4, <4>1 DEF Collect
    <3>2. env[t] = "none"
      BY <2>1 DEF WorkInv, AtWork
    <3>3. Spent' = Spent + 1
      BY <3>1, <3>2, SpentCounts
    <3>4. stage' = [stage EXCEPT ![t] = "collected"]
      BY <1>11, <2>4 DEF Collect
    <3>5. Calling' = {}
      BY <1>1, <2>2, <3>4 DEF Calling
    <3>6. Unknown' \subseteq Unknown
      BY <1>1, <2>1, <3>1 DEF Unknown
    <3>7. \A u \in Tasks : stage'[u] # "admitted"
      BY <3>5 DEF Calling
    <3> QED
      BY <1>2, <1>3, <1>4, <2>1, <2>2, <3>3, <3>5, <3>6, <3>7 DEF Goal
  <2> QED
    BY <2>3, <2>4
<1>12. ASSUME NEW t \in Tasks,
              WriteJournal(t) \/ Check(t) \/ InstallFails(t) \/ Seal(t) \/ Apply(t)
       PROVE  Goal
  BY <1>1, <1>5, <1>12 DEF WriteJournal, Check, Refuse, InstallFails, Seal, Apply
<1>13. ASSUME NEW t \in Tasks, NEW g \in Files, Install(t, g) PROVE Goal
  BY <1>1, <1>5, <1>13 DEF Install, Refuse
<1>14. ASSUME NEW t \in Tasks,
              Verify(t) \/ ResumeIntegration(t) \/ ApplyWorkerResult(t) \/ Ambiguous(t)
                \/ FirstBlocked(t)
       PROVE  Goal
  BY <1>1, <1>5, <1>14
  DEF Verify, ResumeIntegration, ApplyWorkerResult, Ambiguous, FirstBlocked, Stops
<1>15. ASSUME NEW t \in Tasks, ChildEnds(t) PROVE Goal
  BY <1>1, <1>5, <1>15 DEF ChildEnds
<1>16. ASSUME NEW g \in Files, Edit(g) PROVE Goal
  BY <1>5, <1>16 DEF Edit
<1>17. Goal
  BY <1>6, <1>7, <1>8, <1>9, <1>10, <1>11, <1>12, <1>13, <1>14, <1>15, <1>16
  DEF BatchNext, Runtime, Child, Integrate
<1> QED
  BY <1>17 DEF Goal

\* Under a cap a plan's calls are made one after the other, so that it never spends
\* more than the cap allows; and a call that nobody knows the cost of is the last.
THEOREM CapIsRespected == BatchSpec => []CapRespected
<1>1. Init => CapInv
  <2> SUFFICES ASSUME Init, cap # NoCap PROVE CapInv
    BY DEF CapInv
  <2>1. cap \in Nat /\ Calling = {} /\ Unknown = {}
    BY BatchAssumption DEF Init, Calling, Unknown
  <2>2. Spent = 0
    <3>1. {t \in Tasks : env[t] # "none"} = {}
      BY DEF Init
    <3> QED
      BY <3>1, FS_EmptySet DEF Spent
  <2> QED
    BY <2>1, <2>2 DEF Init, CapInv
<1>2. CapInv /\ UNCHANGED batchVars => CapInv'
  BY DEF CapInv, Calling, Spent, Unknown, batchVars, disk, space, memory, bounds
<1>3. BatchTypeOK /\ WorkInv /\ CapInv /\ [BatchNext]_batchVars => CapInv'
  BY <1>2, CapKeeps
<1>4. CapInv => CapRespected
  <2> SUFFICES ASSUME CapInv, cap # NoCap
               PROVE  /\ Cardinality({t \in Tasks : stage[t] \in {"child", "ended"}}) <= 1
                      /\ strict => Cardinality(Unknown) <= 1
    BY DEF CapInv, CapRespected
  <2>1. Cardinality({t \in Tasks : stage[t] \in {"child", "ended"}}) <= 1
    <3> DEFINE S == {t \in Tasks : stage[t] \in {"child", "ended"}}
    <3>1. \A t, u \in S : t = u
      BY DEF CapInv, Calling
    <3> HIDE DEF S
    <3> QED
      <4>1. Cardinality(S) <= 1
        BY <3>1, AtMostOne
      <4> QED
        BY <4>1 DEF S
  <2>2. strict => Cardinality(Unknown) <= 1
    BY AtMostOne DEF CapInv
  <2> QED
    BY <2>1, <2>2
<1> QED
  BY <1>1, <1>3, <1>4, BatchTypeCorrect, Works, PTL DEF BatchSpec
=============================================================================
