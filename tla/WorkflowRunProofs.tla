------------------------- MODULE WorkflowRunProofs -------------------------
(***************************************************************************)
(* Proofs about WorkflowRun, for any set of runs, any number of retries    *)
(* and any number of crashes.                                              *)
(***************************************************************************)
EXTENDS WorkflowRun, TLAPS

(* restore_runs is under way: no worker thread exists yet.                 *)
Restoring == \/ pc[Api] = "restore"
             \/ pc[Api] \in PersistLabels /\ resume[Api] = "restore"

(* The check of the attempt has passed and the runner is about to start.   *)
Preparing(r) == \/ pc[r] = "call"
                \/ pc[r] \in PersistLabels /\ resume[r] = "call"

(* Where the threads of a run may be, and what is registered then.         *)
Placement ==
    /\ Restoring => \A r \in Runs : pc[r] = "none"
    /\ \A r \in Runs :
        /\ pc[r] # "none" => r \in registered /\ disk[r] # Absent
        /\ Starting(r) => pc[r] = "none" /\ r \in registered
        /\ pc[Api] = "spawn" /\ target = r => disk[r] # Absent

(* How attempts and starts of the runner go together.                      *)
Counting ==
    /\ executing = {r \in Runs : pc[r] \in {"await", "shutdown"}}
    /\ \A r \in Runs :
        /\ disk[r] = Absent => starts[r] = 0
        /\ Starting(r) \/ pc[r] = "entry" => starts[r] = 0 /\ attempts[r] = 0
        /\ pc[r] # "none" => starts[r] <= attempts[r]
        /\ Preparing(r) => starts[r] < attempts[r]
        /\ pc[r] = "loop" => attempts[r] < MaxAttempts

(* How far a control can be from its effects.                              *)
Controls ==
    \A r \in Runs :
        /\ control[r] # "none" => r \in registered
        /\ Starting(r) => control[r] = "none"
        /\ pc[Api] \in {"mark_running", "set_control"} /\ target = r =>
              control[r] = "none" /\ r \in registered
        /\ lateStarts[r] > 0 =>
              /\ lateStarts[r] = 1
              /\ control[r] # "none" /\ pc[r] # "none" /\ ~Preparing(r)

(* Who writes the status "completed" has written the output before.        *)
Outputs ==
    /\ \A r \in Runs : pc[r] = "set_completed" => output[r]
    /\ \A t \in Threads : buffer[t].status = "completed" => buffer[t].output

(* A run without a worker is over or is just being started, and the caller *)
(* that marks a run as running has started its worker.                     *)
Ended ==
    /\ \A r \in registered :
          pc[r] = "none" => status[r] \in Terminal \/ Starting(r)
    /\ pc[Api] = "mark_running" => pc[target] # "none"

(* Where the worker of a run that is shown as failed may be.               *)
Explained ==
    \A r \in Runs :
        /\ Starting(r) => status[r] # "error"
        /\ status[r] = "error" /\ pc[r] \notin {"none", "set_exception"} =>
              /\ error[r] # "none"
              /\ pc[r] = "done" \/ (pc[r] \in PersistLabels /\ resume[r] = "done")

IInv == /\ TypeOK /\ Placement /\ Counting /\ Controls /\ Outputs
        /\ CompletedHasOutput /\ ControlledRunEnds /\ Ended /\ Explained

(* Every step keeps the types; the attempt counter stays in range because  *)
(* "loop" is only reached with an attempt left.                            *)
LEMMA StepTypeOK == IInv /\ Next => TypeOK'
<1> SUFFICES ASSUME IInv, Next PROVE TypeOK'
  OBVIOUS
<1> USE RunsAssumption, BoundsAssumption, FilesAssumption DEF IInv, TypeOK,
        Threads, PersistLabels, ApiLabels, WorkerLabels, Goto, PersistThen,
        detailVars, apiVars, history, Statuses, Terminal, Errors, Modes,
        MaxAttempts, Details
<1>1. ASSUME NEW t \in Threads, Serialize(t) PROVE TypeOK'
  BY <1>1 DEF Serialize, Detail, RunOf
<1>2. ASSUME NEW t \in Threads, Truncate(t) PROVE TypeOK'
  BY <1>2 DEF Truncate, RunOf
<1>3. ASSUME NEW t \in Threads, Write(t) PROVE TypeOK'
  <2>1. RunOf(t) \in Runs
    BY DEF RunOf
  <2>2. PICK text \in Overlay(buffer[t], disk[RunOf(t)]) : disk' = [disk EXCEPT
      ![RunOf(t)] = text]
    BY <1>3, Zenon DEF Write
  <2>3. text \in Details \cup {Absent, Empty, Garbled}
    BY <2>2 DEF Overlay
  <2>4. disk' \in [Runs -> Details \cup {Absent, Empty, Garbled}]
    BY <2>1, <2>2, <2>3
  <2> QED
    BY <1>3, <2>4 DEF Write
<1>4. ASSUME SpawnWorker PROVE TypeOK'
  BY <1>4 DEF SpawnWorker
<1>5. ASSUME MarkRunning PROVE TypeOK'
  BY <1>5 DEF MarkRunning
<1>6. ASSUME SetControl PROVE TypeOK'
  BY <1>6 DEF SetControl
<1>7. ASSUME SetControlStatus PROVE TypeOK'
  BY <1>7 DEF SetControlStatus, StatusOf
<1>8. ASSUME SetReason PROVE TypeOK'
  BY <1>8 DEF SetReason
<1>9. ASSUME EndRestore PROVE TypeOK'
  BY <1>9 DEF EndRestore
<1>10. ASSUME Crash PROVE TypeOK'
  BY <1>10 DEF Crash, Blank
<1>11. ASSUME NEW r \in Runs, StartRun(r) PROVE TypeOK'
  BY <1>11 DEF StartRun, Blank
<1>12. ASSUME NEW r \in Runs, NEW m \in {"cancel", "terminate"}, RequestControl(r, m)
       PROVE  TypeOK'
  BY <1>12 DEF RequestControl
<1>13. ASSUME NEW r \in Runs, WorkerEntry(r) PROVE TypeOK'
  BY <1>13 DEF WorkerEntry
<1>14. ASSUME NEW r \in Runs, StopControlled(r) PROVE TypeOK'
  BY <1>14 DEF StopControlled
<1>15. ASSUME NEW r \in Runs, BeginAttempt(r) PROVE TypeOK'
  BY <1>15 DEF BeginAttempt, Counting
<1>16. ASSUME NEW r \in Runs, CallRunner(r) PROVE TypeOK'
  BY <1>16 DEF CallRunner
<1>17. ASSUME NEW r \in Runs, RunnerEnds(r) PROVE TypeOK'
  BY <1>17 DEF RunnerEnds
<1>18. ASSUME NEW r \in Runs, TimerFires(r) PROVE TypeOK'
  BY <1>18 DEF TimerFires
<1>19. ASSUME NEW r \in Runs, ExecutorShutdown(r) PROVE TypeOK'
  BY <1>19 DEF ExecutorShutdown
<1>20. ASSUME NEW r \in Runs, AcceptResult(r) PROVE TypeOK'
  BY <1>20 DEF AcceptResult
<1>21. ASSUME NEW r \in Runs, SetOutput(r) PROVE TypeOK'
  BY <1>21 DEF SetOutput
<1>22. ASSUME NEW r \in Runs, SetCompleted(r) PROVE TypeOK'
  BY <1>22 DEF SetCompleted
<1>23. ASSUME NEW r \in Runs, ClearError(r) PROVE TypeOK'
  BY <1>23 DEF ClearError
<1>24. ASSUME NEW r \in Runs, Retry(r) PROVE TypeOK'
  BY <1>24 DEF Retry
<1>25. ASSUME NEW r \in Runs, GiveUp(r) PROVE TypeOK'
  BY <1>25 DEF GiveUp
<1>26. ASSUME NEW r \in Runs, SetFailed(r) PROVE TypeOK'
  BY <1>26 DEF SetFailed
<1>27. ASSUME NEW r \in Runs, SetException(r) PROVE TypeOK'
  BY <1>27 DEF SetException
<1>28. ASSUME NEW r \in Runs, RestoreEnded(r) PROVE TypeOK'
  BY <1>28 DEF RestoreEnded
<1>29. ASSUME NEW r \in Runs, RestoreInterrupted(r) PROVE TypeOK'
  BY <1>29 DEF RestoreInterrupted
<1>30. ASSUME NEW r \in Runs, SkipManifest(r) PROVE TypeOK'
  BY <1>30 DEF SkipManifest
<1> HIDE DEF IInv, TypeOK, Threads, PersistLabels, ApiLabels, WorkerLabels,
        Goto, PersistThen, detailVars, apiVars, history, Statuses, Terminal,
        Errors, Modes, MaxAttempts, Details
<1> QED
  BY <1>1, <1>2, <1>3, <1>4, <1>5, <1>6, <1>7, <1>8, <1>9, <1>10, <1>11, <1>12,
     <1>13, <1>14, <1>15, <1>16, <1>17, <1>18, <1>19, <1>20, <1>21, <1>22,
     <1>23, <1>24, <1>25, <1>26, <1>27, <1>28, <1>29, <1>30
  DEF Next, Request, ApiStep, Persist, RestoreRuns, WorkerStep, RunnerStep,
      Threads

(* Every step keeps threads, registration and files together.             *)
LEMMA StepPlacement == IInv /\ Next => Placement'
<1> SUFFICES ASSUME IInv, Next PROVE Placement'
  OBVIOUS
<1> USE RunsAssumption, BoundsAssumption, FilesAssumption DEF IInv, TypeOK,
        Threads, PersistLabels, ApiLabels, WorkerLabels, Goto, PersistThen,
        detailVars, apiVars, history, Starting, Restoring, Fresh, Details
<1>1. ASSUME NEW t \in Threads, Truncate(t) PROVE Placement'
  BY <1>1 DEF Truncate, Placement, RunOf
<1>2. ASSUME NEW t \in Threads, Write(t) PROVE Placement'
  BY <1>2 DEF Write, Placement, RunOf, Overlay
<1>3. ASSUME SpawnWorker PROVE Placement'
  BY <1>3 DEF SpawnWorker, Placement
<1>4. ASSUME MarkRunning PROVE Placement'
  BY <1>4 DEF MarkRunning, Placement
<1>5. ASSUME SetReason PROVE Placement'
  BY <1>5 DEF SetReason, Placement
<1>6. ASSUME EndRestore PROVE Placement'
  BY <1>6 DEF EndRestore, Placement
<1>7. ASSUME Crash PROVE Placement'
  BY <1>7 DEF Crash, Placement
<1>8. ASSUME NEW r \in Runs, StartRun(r) PROVE Placement'
  BY <1>8 DEF StartRun, Placement
<1>9. ASSUME NEW r \in Runs, NEW m \in {"cancel", "terminate"}, RequestControl(r, m)
      PROVE  Placement'
  BY <1>9 DEF RequestControl, Placement
<1>10. ASSUME NEW r \in Runs, RestoreEnded(r) PROVE Placement'
  BY <1>10 DEF RestoreEnded, Placement
<1>11. ASSUME NEW r \in Runs, RestoreInterrupted(r) PROVE Placement'
  BY <1>11 DEF RestoreInterrupted, Placement
<1>12. ASSUME NEW t \in Threads,
              \/ Serialize(t)
      PROVE Placement'
  BY <1>12 DEF Serialize, Placement
<1>13. ASSUME
              \/ SetControl \/ SetControlStatus
      PROVE Placement'
  BY <1>13 DEF SetControl, SetControlStatus, Placement
<1>14. ASSUME NEW r \in Runs,
              \/ WorkerEntry(r) \/ StopControlled(r) \/ BeginAttempt(r)
              \/ CallRunner(r) \/ RunnerEnds(r) \/ TimerFires(r)
              \/ ExecutorShutdown(r)
      PROVE Placement'
  BY <1>14 DEF WorkerEntry, StopControlled, BeginAttempt, CallRunner,
       RunnerEnds, TimerFires, ExecutorShutdown, Placement
<1>15. ASSUME NEW r \in Runs,
              \/ AcceptResult(r) \/ SetOutput(r) \/ SetCompleted(r)
              \/ ClearError(r) \/ Retry(r) \/ GiveUp(r) \/ SetFailed(r)
      PROVE Placement'
  BY <1>15 DEF AcceptResult, SetOutput, SetCompleted, ClearError, Retry, GiveUp,
       SetFailed, Placement
<1>16. ASSUME NEW r \in Runs,
              \/ SetException(r) \/ SkipManifest(r)
      PROVE Placement'
  BY <1>16 DEF SetException, SkipManifest, Placement
<1> HIDE DEF IInv, TypeOK, Threads, PersistLabels, ApiLabels, WorkerLabels,
        Goto, PersistThen, detailVars, apiVars, history, Starting, Restoring,
        Fresh, Details
<1> QED
  BY <1>1, <1>2, <1>3, <1>4, <1>5, <1>6, <1>7, <1>8, <1>9, <1>10, <1>11, <1>12,
     <1>13, <1>14, <1>15, <1>16
  DEF Next, Request, ApiStep, Persist, RestoreRuns, WorkerStep, RunnerStep,
      Threads

(* Every step keeps attempts and starts together.                          *)
LEMMA StepCounting == IInv /\ Next => Counting'
<1> SUFFICES ASSUME IInv, Next PROVE Counting'
  OBVIOUS
<1> USE RunsAssumption, BoundsAssumption, FilesAssumption DEF IInv, TypeOK,
        Threads, PersistLabels, ApiLabels, WorkerLabels, Goto, PersistThen,
        detailVars, apiVars, history, MaxAttempts, Starting, Preparing,
        Restoring
<1>1. ASSUME NEW t \in Threads, Truncate(t) PROVE Counting'
  BY <1>1 DEF Truncate, Counting, Placement, RunOf
<1>2. ASSUME NEW t \in Threads, Write(t) PROVE Counting'
  BY <1>2 DEF Write, Counting, Placement, RunOf, Overlay
<1>3. ASSUME SpawnWorker PROVE Counting'
  BY <1>3 DEF SpawnWorker, Counting, Placement
<1>4. ASSUME MarkRunning PROVE Counting'
  BY <1>4 DEF MarkRunning, Counting, Placement
<1>5. ASSUME SetReason PROVE Counting'
  BY <1>5 DEF SetReason, Counting, Placement
<1>6. ASSUME Crash PROVE Counting'
  BY <1>6 DEF Crash, Counting, Placement, Blank
<1>7. ASSUME NEW r \in Runs, StartRun(r) PROVE Counting'
  BY <1>7 DEF StartRun, Counting, Placement, Fresh, Blank
<1>8. ASSUME NEW r \in Runs, WorkerEntry(r) PROVE Counting'
  BY <1>8 DEF WorkerEntry, Counting, Placement
<1>9. ASSUME NEW r \in Runs, BeginAttempt(r) PROVE Counting'
  BY <1>9 DEF BeginAttempt, Counting, Placement
<1>10. ASSUME NEW r \in Runs, CallRunner(r) PROVE Counting'
  BY <1>10 DEF CallRunner, Counting, Placement
<1>11. ASSUME NEW r \in Runs, RunnerEnds(r) PROVE Counting'
  BY <1>11 DEF RunnerEnds, Counting, Placement
<1>12. ASSUME NEW r \in Runs, ExecutorShutdown(r) PROVE Counting'
  BY <1>12 DEF ExecutorShutdown, Counting, Placement
<1>13. ASSUME NEW r \in Runs, Retry(r) PROVE Counting'
  BY <1>13 DEF Retry, Counting, Placement
<1>14. ASSUME NEW r \in Runs, RestoreEnded(r) PROVE Counting'
  <2>1. \A x \in Runs : pc[x] = "none"
    BY <1>14 DEF RestoreEnded, Placement
  <2>2. \A x \in Runs : pc'[x] = "none" /\ ~Starting(x)'
    BY <1>14, <2>1 DEF RestoreEnded
  <2>3. UNCHANGED <<executing, starts, disk>>
    BY <1>14 DEF RestoreEnded
  <2> QED
    BY <2>1, <2>2, <2>3 DEF Counting
<1>15. ASSUME NEW r \in Runs, RestoreInterrupted(r) PROVE Counting'
  <2>1. \A x \in Runs : pc[x] = "none"
    BY <1>15 DEF RestoreInterrupted, Placement
  <2>2. \A x \in Runs : pc'[x] = "none" /\ ~Starting(x)'
    BY <1>15, <2>1 DEF RestoreInterrupted
  <2>3. UNCHANGED <<executing, starts, disk>>
    BY <1>15 DEF RestoreInterrupted
  <2> QED
    BY <2>1, <2>2, <2>3 DEF Counting
<1>16. ASSUME NEW t \in Threads,
              \/ Serialize(t)
      PROVE Counting'
  BY <1>16 DEF Serialize, Counting, Placement
<1>17. ASSUME
              \/ SetControl \/ SetControlStatus \/ EndRestore
      PROVE Counting'
  BY <1>17 DEF SetControl, SetControlStatus, EndRestore, Counting, Placement
<1>18. ASSUME NEW r \in Runs, NEW m \in {"cancel", "terminate"},
              \/ RequestControl(r, m) \/ StopControlled(r) \/ TimerFires(r)
              \/ AcceptResult(r) \/ SetOutput(r) \/ SetCompleted(r)
              \/ ClearError(r)
      PROVE Counting'
  BY <1>18 DEF RequestControl, StopControlled, TimerFires, AcceptResult,
       SetOutput, SetCompleted, ClearError, Counting, Placement
<1>19. ASSUME NEW r \in Runs,
              \/ GiveUp(r) \/ SetFailed(r) \/ SetException(r)
              \/ SkipManifest(r)
      PROVE Counting'
  BY <1>19 DEF GiveUp, SetFailed, SetException, SkipManifest, Counting,
       Placement
<1> HIDE DEF IInv, TypeOK, Threads, PersistLabels, ApiLabels, WorkerLabels,
        Goto, PersistThen, detailVars, apiVars, history, MaxAttempts, Starting,
        Preparing, Restoring
<1> QED
  BY <1>1, <1>2, <1>3, <1>4, <1>5, <1>6, <1>7, <1>8, <1>9, <1>10, <1>11, <1>12,
     <1>13, <1>14, <1>15, <1>16, <1>17, <1>18, <1>19
  DEF Next, Request, ApiStep, Persist, RestoreRuns, WorkerStep, RunnerStep,
      Threads

(* Every step keeps controls and their effects together.                   *)
LEMMA StepControls == IInv /\ Next => Controls'
<1> SUFFICES ASSUME IInv, Next PROVE Controls'
  OBVIOUS
<1> USE RunsAssumption, BoundsAssumption, FilesAssumption DEF IInv, TypeOK,
        Threads, PersistLabels, ApiLabels, WorkerLabels, Goto, PersistThen,
        detailVars, apiVars, history, Modes, Starting, Preparing
<1>1. ASSUME NEW t \in Threads, Write(t) PROVE Controls'
  BY <1>1 DEF Write, Controls, Placement
<1>2. ASSUME SpawnWorker PROVE Controls'
  BY <1>2 DEF SpawnWorker, Controls, Placement
<1>3. ASSUME MarkRunning PROVE Controls'
  BY <1>3 DEF MarkRunning, Controls, Placement
<1>4. ASSUME SetControl PROVE Controls'
  BY <1>4 DEF SetControl, Controls, Placement
<1>5. ASSUME SetReason PROVE Controls'
  BY <1>5 DEF SetReason, Controls, Placement
<1>6. ASSUME Crash PROVE Controls'
  BY <1>6 DEF Crash, Controls, Placement
<1>7. ASSUME NEW r \in Runs, StartRun(r) PROVE Controls'
  BY <1>7 DEF StartRun, Controls, Placement, Fresh
<1>8. ASSUME NEW r \in Runs, NEW m \in {"cancel", "terminate"}, RequestControl(r, m)
      PROVE  Controls'
  BY <1>8 DEF RequestControl, Controls, Placement, ControlledRunEnds, Terminal
<1>9. ASSUME NEW r \in Runs, StopControlled(r) PROVE Controls'
  BY <1>9 DEF StopControlled, Controls, Placement, Controlled
<1>10. ASSUME NEW r \in Runs, BeginAttempt(r) PROVE Controls'
  BY <1>10 DEF BeginAttempt, Controls, Placement, Controlled
<1>11. ASSUME NEW r \in Runs, CallRunner(r) PROVE Controls'
  BY <1>11 DEF CallRunner, Controls, Placement
<1>12. ASSUME NEW r \in Runs, RestoreEnded(r) PROVE Controls'
  BY <1>12 DEF RestoreEnded, Controls, Placement
<1>13. ASSUME NEW r \in Runs, RestoreInterrupted(r) PROVE Controls'
  BY <1>13 DEF RestoreInterrupted, Controls, Placement
<1>14. ASSUME NEW t \in Threads,
              \/ Serialize(t) \/ Truncate(t)
      PROVE Controls'
  BY <1>14 DEF Serialize, Truncate, Controls, Placement
<1>15. ASSUME
              \/ SetControlStatus \/ EndRestore
      PROVE Controls'
  BY <1>15 DEF SetControlStatus, EndRestore, Controls, Placement
<1>16. ASSUME NEW r \in Runs,
              \/ WorkerEntry(r) \/ RunnerEnds(r) \/ TimerFires(r)
              \/ ExecutorShutdown(r) \/ AcceptResult(r) \/ SetOutput(r)
              \/ SetCompleted(r)
      PROVE Controls'
  BY <1>16 DEF WorkerEntry, RunnerEnds, TimerFires, ExecutorShutdown,
       AcceptResult, SetOutput, SetCompleted, Controls, Placement
<1>17. ASSUME NEW r \in Runs,
              \/ ClearError(r) \/ Retry(r) \/ GiveUp(r) \/ SetFailed(r)
              \/ SetException(r) \/ SkipManifest(r)
      PROVE Controls'
  BY <1>17 DEF ClearError, Retry, GiveUp, SetFailed, SetException, SkipManifest,
       Controls, Placement
<1> HIDE DEF IInv, TypeOK, Threads, PersistLabels, ApiLabels, WorkerLabels,
        Goto, PersistThen, detailVars, apiVars, history, Modes, Starting,
        Preparing
<1> QED
  BY <1>1, <1>2, <1>3, <1>4, <1>5, <1>6, <1>7, <1>8, <1>9, <1>10, <1>11, <1>12,
     <1>13, <1>14, <1>15, <1>16, <1>17
  DEF Next, Request, ApiStep, Persist, RestoreRuns, WorkerStep, RunnerStep,
      Threads

(* Every step writes the output before the status.                         *)
LEMMA StepOutputs == IInv /\ Next => Outputs'
<1> SUFFICES ASSUME IInv, Next PROVE Outputs'
  OBVIOUS
<1> USE RunsAssumption, BoundsAssumption, FilesAssumption DEF IInv, TypeOK,
        Threads, PersistLabels, ApiLabels, WorkerLabels, Goto, PersistThen,
        detailVars, apiVars, history
<1>1. ASSUME NEW t \in Threads, Serialize(t) PROVE Outputs'
  BY <1>1 DEF Serialize, Outputs, CompletedHasOutput, Detail, RunOf
<1>2. ASSUME Crash PROVE Outputs'
  BY <1>2 DEF Crash, Outputs
<1>3. ASSUME NEW r \in Runs, StartRun(r) PROVE Outputs'
  BY <1>3 DEF StartRun, Outputs, Placement, Fresh
<1>4. ASSUME NEW r \in Runs, AcceptResult(r) PROVE Outputs'
  BY <1>4 DEF AcceptResult, Outputs
<1>5. ASSUME NEW r \in Runs, SetOutput(r) PROVE Outputs'
  BY <1>5 DEF SetOutput, Outputs
<1>6. ASSUME NEW r \in Runs, SetCompleted(r) PROVE Outputs'
  BY <1>6 DEF SetCompleted, Outputs
<1>7. ASSUME NEW r \in Runs, RestoreEnded(r) PROVE Outputs'
  <2>1. \A x \in Runs : pc'[x] = "none"
    BY <1>7 DEF RestoreEnded, Placement, Restoring
  <2>2. buffer' = buffer
    BY <1>7 DEF RestoreEnded
  <2> QED
    BY <2>1, <2>2 DEF Outputs
<1>8. ASSUME NEW r \in Runs, RestoreInterrupted(r) PROVE Outputs'
  <2>1. \A x \in Runs : pc'[x] = "none"
    BY <1>8 DEF RestoreInterrupted, Placement, Restoring
  <2>2. buffer' = buffer
    BY <1>8 DEF RestoreInterrupted
  <2> QED
    BY <2>1, <2>2 DEF Outputs
<1>9. ASSUME NEW t \in Threads,
              \/ Truncate(t) \/ Write(t)
      PROVE Outputs'
  BY <1>9 DEF Truncate, Write, Outputs
<1>10. ASSUME
              \/ SpawnWorker \/ MarkRunning \/ SetControl
              \/ SetControlStatus \/ SetReason \/ EndRestore
      PROVE Outputs'
  BY <1>10 DEF SpawnWorker, MarkRunning, SetControl, SetControlStatus,
       SetReason, EndRestore, Outputs
<1>11. ASSUME NEW r \in Runs, NEW m \in {"cancel", "terminate"},
              \/ RequestControl(r, m) \/ WorkerEntry(r)
              \/ StopControlled(r) \/ BeginAttempt(r) \/ CallRunner(r)
              \/ RunnerEnds(r) \/ TimerFires(r)
      PROVE Outputs'
  BY <1>11 DEF RequestControl, WorkerEntry, StopControlled, BeginAttempt,
       CallRunner, RunnerEnds, TimerFires, Outputs
<1>12. ASSUME NEW r \in Runs,
              \/ ExecutorShutdown(r) \/ ClearError(r) \/ Retry(r)
              \/ GiveUp(r) \/ SetFailed(r) \/ SetException(r)
              \/ SkipManifest(r)
      PROVE Outputs'
  BY <1>12 DEF ExecutorShutdown, ClearError, Retry, GiveUp, SetFailed,
       SetException, SkipManifest, Outputs
<1> HIDE DEF IInv, TypeOK, Threads, PersistLabels, ApiLabels, WorkerLabels,
        Goto, PersistThen, detailVars, apiVars, history
<1> QED
  BY <1>1, <1>2, <1>3, <1>4, <1>5, <1>6, <1>7, <1>8, <1>9, <1>10, <1>11, <1>12
  DEF Next, Request, ApiStep, Persist, RestoreRuns, WorkerStep, RunnerStep,
      Threads

(* Every step keeps an output beside the status "completed".               *)
LEMMA StepCompleted == IInv /\ Next => CompletedHasOutput'
<1> SUFFICES ASSUME IInv, Next PROVE CompletedHasOutput'
  OBVIOUS
<1> USE RunsAssumption, BoundsAssumption, FilesAssumption DEF IInv, TypeOK,
        Threads, PersistLabels, ApiLabels, WorkerLabels, Goto, PersistThen,
        detailVars, apiVars, history, Details
<1>1. ASSUME NEW t \in Threads, Truncate(t) PROVE CompletedHasOutput'
  BY <1>1 DEF Truncate, CompletedHasOutput, RunOf
<1>2. ASSUME NEW t \in Threads, Write(t) PROVE CompletedHasOutput'
  <2>1. RunOf(t) \in Runs
    BY DEF RunOf
  <2>2. PICK text \in Overlay(buffer[t], disk[RunOf(t)]) : disk' = [disk EXCEPT
      ![RunOf(t)] = text]
    BY <1>2 DEF Write
  <2>3. text \in {buffer[t], Garbled}
    BY <2>2 DEF Overlay
  <2>4. text \in Details /\ text.status = "completed" => text.output
    BY <2>3 DEF Outputs
  <2>5. UNCHANGED <<status, output>>
    BY <1>2 DEF Write
  <2> QED
    BY <2>1, <2>2, <2>4, <2>5 DEF CompletedHasOutput
<1>3. ASSUME MarkRunning PROVE CompletedHasOutput'
  BY <1>3 DEF MarkRunning, CompletedHasOutput
<1>4. ASSUME SetControlStatus PROVE CompletedHasOutput'
  BY <1>4 DEF SetControlStatus, CompletedHasOutput, StatusOf
<1>5. ASSUME Crash PROVE CompletedHasOutput'
  BY <1>5 DEF Crash, CompletedHasOutput, Blank
<1>6. ASSUME NEW r \in Runs, StartRun(r) PROVE CompletedHasOutput'
  BY <1>6 DEF StartRun, CompletedHasOutput, Blank, Placement
<1>7. ASSUME NEW r \in Runs, SetOutput(r) PROVE CompletedHasOutput'
  BY <1>7 DEF SetOutput, CompletedHasOutput
<1>8. ASSUME NEW r \in Runs, SetCompleted(r) PROVE CompletedHasOutput'
  BY <1>8 DEF SetCompleted, CompletedHasOutput, Outputs
<1>9. ASSUME NEW r \in Runs, SetFailed(r) PROVE CompletedHasOutput'
  BY <1>9 DEF SetFailed, CompletedHasOutput
<1>10. ASSUME NEW r \in Runs, RestoreEnded(r) PROVE CompletedHasOutput'
  BY <1>10 DEF RestoreEnded, CompletedHasOutput
<1>11. ASSUME NEW r \in Runs, RestoreInterrupted(r) PROVE CompletedHasOutput'
  BY <1>11 DEF RestoreInterrupted, CompletedHasOutput
<1>12. ASSUME NEW t \in Threads,
              \/ Serialize(t)
      PROVE CompletedHasOutput'
  BY <1>12 DEF Serialize, CompletedHasOutput
<1>13. ASSUME
              \/ SpawnWorker \/ SetControl \/ SetReason \/ EndRestore
      PROVE CompletedHasOutput'
  BY <1>13 DEF SpawnWorker, SetControl, SetReason, EndRestore,
       CompletedHasOutput
<1>14. ASSUME NEW r \in Runs, NEW m \in {"cancel", "terminate"},
              \/ RequestControl(r, m) \/ WorkerEntry(r)
              \/ StopControlled(r) \/ BeginAttempt(r) \/ CallRunner(r)
              \/ RunnerEnds(r) \/ TimerFires(r)
      PROVE CompletedHasOutput'
  BY <1>14 DEF RequestControl, WorkerEntry, StopControlled, BeginAttempt,
       CallRunner, RunnerEnds, TimerFires, CompletedHasOutput
<1>15. ASSUME NEW r \in Runs,
              \/ ExecutorShutdown(r) \/ AcceptResult(r) \/ ClearError(r)
              \/ Retry(r) \/ GiveUp(r) \/ SetException(r)
              \/ SkipManifest(r)
      PROVE CompletedHasOutput'
  BY <1>15 DEF ExecutorShutdown, AcceptResult, ClearError, Retry, GiveUp,
       SetException, SkipManifest, CompletedHasOutput
<1> HIDE DEF IInv, TypeOK, Threads, PersistLabels, ApiLabels, WorkerLabels,
        Goto, PersistThen, detailVars, apiVars, history, Details
<1> QED
  BY <1>1, <1>2, <1>3, <1>4, <1>5, <1>6, <1>7, <1>8, <1>9, <1>10, <1>11, <1>12,
     <1>13, <1>14, <1>15
  DEF Next, Request, ApiStep, Persist, RestoreRuns, WorkerStep, RunnerStep,
      Threads

(* Every step leaves a controlled run with a terminal status.              *)
LEMMA StepControlledEnds == IInv /\ Next => ControlledRunEnds'
<1> SUFFICES ASSUME IInv, Next PROVE ControlledRunEnds'
  OBVIOUS
<1> USE RunsAssumption, BoundsAssumption, FilesAssumption DEF IInv, TypeOK,
        Threads, PersistLabels, ApiLabels, WorkerLabels, Goto, PersistThen,
        detailVars, apiVars, history, Terminal, Modes
<1>1. ASSUME SpawnWorker PROVE ControlledRunEnds'
  BY <1>1 DEF SpawnWorker, ControlledRunEnds
<1>2. ASSUME MarkRunning PROVE ControlledRunEnds'
  BY <1>2 DEF MarkRunning, ControlledRunEnds, Controls
<1>3. ASSUME SetControl PROVE ControlledRunEnds'
  BY <1>3 DEF SetControl, ControlledRunEnds
<1>4. ASSUME SetControlStatus PROVE ControlledRunEnds'
  BY <1>4 DEF SetControlStatus, ControlledRunEnds, StatusOf
<1>5. ASSUME Crash PROVE ControlledRunEnds'
  BY <1>5 DEF Crash, ControlledRunEnds
<1>6. ASSUME NEW r \in Runs, StartRun(r) PROVE ControlledRunEnds'
  BY <1>6 DEF StartRun, ControlledRunEnds
<1>7. ASSUME NEW r \in Runs, NEW m \in {"cancel", "terminate"}, RequestControl(r, m)
      PROVE  ControlledRunEnds'
  BY <1>7 DEF RequestControl, ControlledRunEnds
<1>8. ASSUME NEW r \in Runs, SetCompleted(r) PROVE ControlledRunEnds'
  BY <1>8 DEF SetCompleted, ControlledRunEnds
<1>9. ASSUME NEW r \in Runs, SetFailed(r) PROVE ControlledRunEnds'
  BY <1>9 DEF SetFailed, ControlledRunEnds
<1>10. ASSUME NEW r \in Runs, RestoreEnded(r) PROVE ControlledRunEnds'
  BY <1>10 DEF RestoreEnded, ControlledRunEnds
<1>11. ASSUME NEW r \in Runs, RestoreInterrupted(r) PROVE ControlledRunEnds'
  BY <1>11 DEF RestoreInterrupted, ControlledRunEnds, Placement
<1>12. ASSUME NEW t \in Threads,
              \/ Serialize(t) \/ Truncate(t) \/ Write(t)
      PROVE ControlledRunEnds'
  BY <1>12 DEF Serialize, Truncate, Write, ControlledRunEnds
<1>13. ASSUME
              \/ SetReason \/ EndRestore
      PROVE ControlledRunEnds'
  BY <1>13 DEF SetReason, EndRestore, ControlledRunEnds
<1>14. ASSUME NEW r \in Runs,
              \/ WorkerEntry(r) \/ StopControlled(r) \/ BeginAttempt(r)
              \/ CallRunner(r) \/ RunnerEnds(r) \/ TimerFires(r)
              \/ ExecutorShutdown(r)
      PROVE ControlledRunEnds'
  BY <1>14 DEF WorkerEntry, StopControlled, BeginAttempt, CallRunner,
       RunnerEnds, TimerFires, ExecutorShutdown, ControlledRunEnds
<1>15. ASSUME NEW r \in Runs,
              \/ AcceptResult(r) \/ SetOutput(r) \/ ClearError(r)
              \/ Retry(r) \/ GiveUp(r) \/ SetException(r)
              \/ SkipManifest(r)
      PROVE ControlledRunEnds'
  BY <1>15 DEF AcceptResult, SetOutput, ClearError, Retry, GiveUp, SetException,
       SkipManifest, ControlledRunEnds
<1> HIDE DEF IInv, TypeOK, Threads, PersistLabels, ApiLabels, WorkerLabels,
        Goto, PersistThen, detailVars, apiVars, history, Terminal, Modes
<1> QED
  BY <1>1, <1>2, <1>3, <1>4, <1>5, <1>6, <1>7, <1>8, <1>9, <1>10, <1>11, <1>12,
     <1>13, <1>14, <1>15
  DEF Next, Request, ApiStep, Persist, RestoreRuns, WorkerStep, RunnerStep,
      Threads

(* Every step leaves a run without a worker ended, unless it starts it.    *)
LEMMA StepEnded == IInv /\ Next => Ended'
<1> SUFFICES ASSUME IInv, Next PROVE Ended'
  OBVIOUS
<1> USE RunsAssumption, BoundsAssumption, FilesAssumption DEF IInv, TypeOK,
        Threads, PersistLabels, ApiLabels, WorkerLabels, Goto, PersistThen,
        detailVars, apiVars, history, Terminal, Errors, Starting
<1>1. ASSUME NEW t \in Threads, Serialize(t) \/ Truncate(t) PROVE Ended'
  BY <1>1 DEF Serialize, Truncate, Ended
<1>2. ASSUME NEW t \in Threads, Write(t) PROVE Ended'
  BY <1>2 DEF Write, Ended
<1>3. ASSUME SpawnWorker PROVE Ended'
  BY <1>3 DEF SpawnWorker, Ended
<1>4. ASSUME MarkRunning PROVE Ended'
  BY <1>4 DEF MarkRunning, Ended
<1>5. ASSUME SetControl \/ SetReason \/ EndRestore PROVE Ended'
  BY <1>5 DEF SetControl, SetReason, EndRestore, Ended
<1>6. ASSUME SetControlStatus PROVE Ended'
  BY <1>6 DEF SetControlStatus, StatusOf, Ended
<1>7. ASSUME Crash PROVE Ended'
  BY <1>7 DEF Crash, Ended
<1>8. ASSUME NEW r \in Runs, StartRun(r) PROVE Ended'
  BY <1>8 DEF StartRun, Fresh, Blank, Placement, Ended
<1>9. ASSUME NEW r \in Runs, NEW m \in {"cancel", "terminate"}, RequestControl(r, m)
      PROVE  Ended'
  BY <1>9 DEF RequestControl, Ended
<1>10. ASSUME NEW r \in Runs,
              \/ WorkerEntry(r) \/ StopControlled(r) \/ BeginAttempt(r)
              \/ CallRunner(r)
      PROVE Ended'
  BY <1>10 DEF WorkerEntry, StopControlled, BeginAttempt, CallRunner, Ended
<1>11. ASSUME NEW r \in Runs,
              \/ RunnerEnds(r) \/ TimerFires(r) \/ ExecutorShutdown(r)
              \/ AcceptResult(r) \/ SetOutput(r) \/ Retry(r) \/ GiveUp(r)
      PROVE Ended'
  BY <1>11 DEF RunnerEnds, TimerFires, ExecutorShutdown, AcceptResult, SetOutput,
       Retry, GiveUp, Ended
<1>12. ASSUME NEW r \in Runs,
              \/ SetCompleted(r) \/ ClearError(r) \/ SetFailed(r)
              \/ SetException(r)
      PROVE Ended'
  BY <1>12 DEF SetCompleted, ClearError, SetFailed, SetException, Ended
<1>13. ASSUME NEW r \in Runs, RestoreEnded(r) PROVE Ended'
  BY <1>13 DEF RestoreEnded, Placement, Restoring, Ended
<1>14. ASSUME NEW r \in Runs, RestoreInterrupted(r) PROVE Ended'
  BY <1>14 DEF RestoreInterrupted, Placement, Restoring, Ended
<1>15. ASSUME NEW r \in Runs, SkipManifest(r) PROVE Ended'
  BY <1>15 DEF SkipManifest, Ended
<1> HIDE DEF IInv, TypeOK, Threads, PersistLabels, ApiLabels, WorkerLabels,
        Goto, PersistThen, detailVars, apiVars, history, Terminal, Errors,
        Starting
<1> QED
  BY <1>1, <1>2, <1>3, <1>4, <1>5, <1>6, <1>7, <1>8, <1>9, <1>10, <1>11, <1>12,
     <1>13, <1>14, <1>15
  DEF Next, Request, ApiStep, Persist, RestoreRuns, WorkerStep, RunnerStep,
      Threads

(* Every step keeps a message beside the status "error".                   *)
LEMMA StepExplained == IInv /\ Next => Explained'
<1> SUFFICES ASSUME IInv, Next PROVE Explained'
  OBVIOUS
<1> USE RunsAssumption, BoundsAssumption, FilesAssumption DEF IInv, TypeOK,
        Threads, PersistLabels, ApiLabels, WorkerLabels, Goto, PersistThen,
        detailVars, apiVars, history, Terminal, Errors, Starting
<1>1. ASSUME NEW t \in Threads, Serialize(t) \/ Truncate(t) PROVE Explained'
  BY <1>1 DEF Serialize, Truncate, Explained
<1>2. ASSUME NEW t \in Threads, Write(t) PROVE Explained'
  BY <1>2 DEF Write, Explained
<1>3. ASSUME SpawnWorker PROVE Explained'
  BY <1>3 DEF SpawnWorker, Explained
<1>4. ASSUME MarkRunning PROVE Explained'
  BY <1>4 DEF MarkRunning, Explained
<1>5. ASSUME SetControl \/ SetReason \/ EndRestore PROVE Explained'
  BY <1>5 DEF SetControl, SetReason, EndRestore, Explained
<1>6. ASSUME SetControlStatus PROVE Explained'
  BY <1>6 DEF SetControlStatus, StatusOf, Explained
<1>7. ASSUME Crash PROVE Explained'
  BY <1>7 DEF Crash, Explained
<1>8. ASSUME NEW r \in Runs, StartRun(r) PROVE Explained'
  BY <1>8 DEF StartRun, Fresh, Blank, Placement, Explained
<1>9. ASSUME NEW r \in Runs, NEW m \in {"cancel", "terminate"}, RequestControl(r, m)
      PROVE  Explained'
  BY <1>9 DEF RequestControl, Explained
<1>10. ASSUME NEW r \in Runs,
              \/ WorkerEntry(r) \/ StopControlled(r) \/ BeginAttempt(r)
              \/ CallRunner(r)
      PROVE Explained'
  BY <1>10 DEF WorkerEntry, StopControlled, BeginAttempt, CallRunner, Explained
<1>11. ASSUME NEW r \in Runs,
              \/ RunnerEnds(r) \/ TimerFires(r) \/ ExecutorShutdown(r)
              \/ AcceptResult(r) \/ SetOutput(r) \/ Retry(r) \/ GiveUp(r)
      PROVE Explained'
  BY <1>11 DEF RunnerEnds, TimerFires, ExecutorShutdown, AcceptResult, SetOutput,
       Retry, GiveUp, Explained
<1>12. ASSUME NEW r \in Runs,
              \/ SetCompleted(r) \/ ClearError(r) \/ SetFailed(r)
              \/ SetException(r)
      PROVE Explained'
  BY <1>12 DEF SetCompleted, ClearError, SetFailed, SetException, Placement, Explained
<1>13. ASSUME NEW r \in Runs, RestoreEnded(r) PROVE Explained'
  BY <1>13 DEF RestoreEnded, Placement, Restoring, Explained
<1>14. ASSUME NEW r \in Runs, RestoreInterrupted(r) PROVE Explained'
  BY <1>14 DEF RestoreInterrupted, Placement, Restoring, Explained
<1>15. ASSUME NEW r \in Runs, SkipManifest(r) PROVE Explained'
  BY <1>15 DEF SkipManifest, Explained
<1> HIDE DEF IInv, TypeOK, Threads, PersistLabels, ApiLabels, WorkerLabels,
        Goto, PersistThen, detailVars, apiVars, history, Terminal, Errors,
        Starting
<1> QED
  BY <1>1, <1>2, <1>3, <1>4, <1>5, <1>6, <1>7, <1>8, <1>9, <1>10, <1>11, <1>12,
     <1>13, <1>14, <1>15
  DEF Next, Request, ApiStep, Persist, RestoreRuns, WorkerStep, RunnerStep,
      Threads

(* A stuttering step changes nothing the invariant speaks of.              *)
LEMMA StepStutter == IInv /\ UNCHANGED vars => IInv'
BY DEF IInv, TypeOK, Placement, Counting, Controls, Outputs, CompletedHasOutput,
       ControlledRunEnds, Ended, Explained, Starting, Restoring, Preparing,
       vars, detailVars, apiVars, history

(* The service starts with no run, no thread and no file.                  *)
LEMMA InitIInv == Init => IInv
<1> SUFFICES ASSUME Init PROVE IInv
  OBVIOUS
<1> USE RunsAssumption, BoundsAssumption, FilesAssumption DEF Init, Threads,
        Blank
<1>1. TypeOK
  BY DEF TypeOK, PersistLabels, ApiLabels, WorkerLabels, Statuses, Errors,
       Modes,
         Details, MaxAttempts
<1>2. Placement
  BY DEF Placement, Restoring, Starting, PersistLabels
<1>3. Counting
  BY DEF Counting, Starting, Preparing, PersistLabels
<1>4. Controls /\ Outputs
  BY DEF Controls, Outputs, Starting, PersistLabels
<1>5. CompletedHasOutput /\ ControlledRunEnds
  BY DEF CompletedHasOutput, ControlledRunEnds
<1>6. Ended /\ Explained
  BY DEF Ended, Explained, Starting, PersistLabels
<1> QED
  BY <1>1, <1>2, <1>3, <1>4, <1>5, <1>6 DEF IInv

(* The inductive invariant holds in every reachable state.                 *)
THEOREM Invariance == Spec => []IInv
<1>1. IInv /\ [Next]_vars => IInv'
  BY StepStutter, StepTypeOK, StepPlacement, StepCounting, StepControls,
     StepOutputs, StepCompleted, StepControlledEnds, StepEnded, StepExplained
  DEF IInv
<1> QED
  BY InitIInv, <1>1, PTL DEF Spec

(* The service keeps the kinds of its variables; in particular the attempt *)
(* counter never exceeds max_retries + 1.                                  *)
THEOREM TypeCorrect == Spec => []TypeOK
<1>1. IInv => TypeOK
  BY DEF IInv
<1> QED
  BY Invariance, <1>1, PTL

(* A run shown or saved as completed has its output, for any interleaving  *)
(* of the threads on the record and on the file and any crash.             *)
THEOREM CompletionCarriesOutput == Spec => []CompletedHasOutput
<1>1. IInv => CompletedHasOutput
  BY DEF IInv
<1> QED
  BY Invariance, <1>1, PTL

(* After cancel_run or terminate_run at most one more attempt begins.      *)
THEOREM LateStartsBounded == Spec => []AtMostOneLateStart
<1>1. IInv => AtMostOneLateStart
  BY DEF IInv, TypeOK, Controls, AtMostOneLateStart
<1> QED
  BY Invariance, <1>1, PTL

(* A stopped run has a terminal status whatever the caller of _start_run   *)
(* and the worker still write.                                             *)
THEOREM ControlledRunsEnd == Spec => []ControlledRunEnds
<1>1. IInv => ControlledRunEnds
  BY DEF IInv
<1> QED
  BY Invariance, <1>1, PTL

(* After a restart no run is shown as queued or running without a worker.  *)
THEOREM RestoredRunsAreOver == Spec => []RestoredRunsEnded
<1>1. IInv => RestoredRunsEnded
  BY DEF IInv, TypeOK, Ended, RestoredRunsEnded, Starting
<1> QED
  BY Invariance, <1>1, PTL

(* A run its worker has left as failed says why.                           *)
THEOREM FailuresExplained == Spec => []FailureIsExplained
<1>1. IInv => FailureIsExplained
  BY DEF IInv, TypeOK, Explained, FailureIsExplained
<1> QED
  BY Invariance, <1>1, PTL

(* A control that was given stays the one that was given.                  *)
THEOREM ControlsAreFinal == Spec => ControlIsFinal
<1> DEFINE Kept == \A r \in Runs : control[r] # "none" /\ crashes' = crashes
                                      => control'[r] = control[r]
<1>1. IInv /\ [Next]_vars => [Kept]_vars
  <2> SUFFICES ASSUME IInv, Next PROVE Kept
    OBVIOUS
  <2> USE DEF IInv, TypeOK, Controls
  <2>1. CASE UNCHANGED control
    BY <2>1
  <2>2. ASSUME NEW r \in Runs, StartRun(r) PROVE Kept
    BY <2>2 DEF StartRun, Fresh
  <2>3. CASE SetControl
    BY <2>3 DEF SetControl
  <2>4. CASE Crash
    BY <2>4, BoundsAssumption DEF Crash
  <2>5. UNCHANGED control \/ SetControl \/ Crash \/ \E r \in Runs : StartRun(r)
    BY DEF Next, Request, ApiStep, Persist, RestoreRuns, WorkerStep, RunnerStep,
           Serialize, Truncate, Write, SpawnWorker, MarkRunning,
               SetControlStatus,
           SetReason, EndRestore, RequestControl, WorkerEntry, StopControlled,
           BeginAttempt, CallRunner, RunnerEnds, TimerFires, ExecutorShutdown,
           AcceptResult, SetOutput, SetCompleted, ClearError, Retry, GiveUp,
           SetFailed, SetException, RestoreEnded, RestoreInterrupted,
               SkipManifest
  <2> QED
    BY <2>1, <2>2, <2>3, <2>4, <2>5
<1> QED
  BY Invariance, <1>1, PTL DEF Spec, ControlIsFinal

(***************************************************************************)
(* The refinement of RetryBudget.                                          *)
(***************************************************************************)
Gone == {r \in Runs : Over(r)}

(* Everything but the start and the end of a runner, a crash and the four  *)
(* steps that may be the last of a worker, is invisible to RetryBudget.    *)
LEMMA InvisibleSteps ==
    ASSUME IInv, Next,
           ~Crash,
           \A t \in Threads : ~Truncate(t) /\ ~Write(t),
           \A r \in Runs : ~WorkerEntry(r) /\ ~CallRunner(r) /\ ~RunnerEnds(r)
                              /\ ~ExecutorShutdown(r)
    PROVE  UNCHANGED <<starts, executing, Gone>>
<1> USE RunsAssumption DEF IInv, TypeOK, Threads, PersistLabels, Goto,
        PersistThen,
        detailVars, apiVars, history, Starting, Over, Gone
<1>1. ASSUME NEW t \in Threads, Serialize(t)
      PROVE  UNCHANGED <<starts, executing, Gone>>
  BY <1>1 DEF Serialize
<1>2. ASSUME \/ MarkRunning \/ SetControl \/ SetControlStatus
             \/ SetReason \/ EndRestore
      PROVE  UNCHANGED <<starts, executing, Gone>>
  BY <1>2 DEF MarkRunning, SetControl, SetControlStatus, SetReason, EndRestore
<1>3. ASSUME SpawnWorker
      PROVE  UNCHANGED <<starts, executing, Gone>>
  BY <1>3 DEF SpawnWorker, Placement
<1>4. ASSUME NEW r \in Runs, StartRun(r)
      PROVE  UNCHANGED <<starts, executing, Gone>>
  BY <1>4 DEF StartRun, Fresh, Placement
<1>5. ASSUME NEW r \in Runs, NEW m \in {"cancel", "terminate"},
    RequestControl(r, m)
      PROVE  UNCHANGED <<starts, executing, Gone>>
  BY <1>5 DEF RequestControl
<1>6. ASSUME NEW r \in Runs, RestoreInterrupted(r)
      PROVE  UNCHANGED <<starts, executing, Gone>>
  BY <1>6 DEF RestoreInterrupted
<1>7. ASSUME NEW r \in Runs, RestoreEnded(r) \/ SkipManifest(r)
      PROVE  UNCHANGED <<starts, executing, Gone>>
  BY <1>7 DEF RestoreEnded, SkipManifest
<1>8. ASSUME NEW r \in Runs,
             \/ StopControlled(r) \/ BeginAttempt(r) \/ ClearError(r)
             \/ SetException(r)
      PROVE  UNCHANGED <<starts, executing, Gone>>
  BY <1>8 DEF StopControlled, BeginAttempt, ClearError, SetException
<1>9. ASSUME NEW r \in Runs,
             \/ TimerFires(r) \/ AcceptResult(r) \/ SetOutput(r) \/
                 SetCompleted(r)
             \/ Retry(r) \/ GiveUp(r) \/ SetFailed(r)
      PROVE  UNCHANGED <<starts, executing, Gone>>
  BY <1>9 DEF TimerFires, AcceptResult, SetOutput, SetCompleted, Retry, GiveUp,
       SetFailed
<1> HIDE DEF IInv, TypeOK, Starting, Over, Gone, Goto, PersistThen
<1> QED
  BY <1>1, <1>2, <1>3, <1>4, <1>5, <1>6, <1>7, <1>8, <1>9
  DEF Next, Request, ApiStep, Persist, RestoreRuns, WorkerStep, RunnerStep

(* A step that may end a worker adds at most that run to those given up,   *)
(* and its runner is not executing.                                        *)
LEMMA LastSteps ==
    ASSUME IInv, NEW r \in Runs, NEW t \in Threads,
           \/ t = r /\ WorkerEntry(r)
           \/ RunOf(t) = r /\ (Truncate(t) \/ Write(t))
    PROVE  /\ UNCHANGED <<starts, executing>>
           /\ Gone' = Gone \/ (r \notin executing /\ Gone' = Gone \cup {r})
<1> USE RunsAssumption, FilesAssumption
    DEF IInv, TypeOK, Threads, PersistLabels, Goto, detailVars, apiVars,
        history, RunOf
<1>1. UNCHANGED <<starts, executing, target>>
  BY DEF WorkerEntry, Truncate, Write
<1>2. ASSUME NEW x \in Runs, x # r
      PROVE  Over(x)' <=> Over(x)
  <2>1. UNCHANGED <<disk[x], pc[x]>>
    BY <1>2 DEF WorkerEntry, Truncate, Write
  <2>2. Starting(x)' <=> Starting(x)
    BY <1>2 DEF WorkerEntry, Truncate, Write, Starting
  <2> QED
    BY <2>1, <2>2 DEF Over
<1>3. Over(r) => Over(r)'
  BY DEF WorkerEntry, Truncate, Write, Starting, Over, Overlay
<1>4. Over(r)' => r \notin executing
  BY DEF WorkerEntry, Truncate, Write, Starting, Over, Counting
<1> QED
  BY <1>1, <1>2, <1>3, <1>4 DEF Gone

(* The runner of a run is called as a retry budget allows.                 *)
THEOREM Refinement == Spec => RunsWithinBudget
<1> USE RunsAssumption, BoundsAssumption, FilesAssumption
<1>1. Init => Attempts!Init
  BY DEF Init, Attempts!Init, Over, Threads
<1>2. IInv /\ [Next]_vars => [Attempts!Next]_<<starts, executing, Gone>>
  <2> SUFFICES ASSUME IInv, [Next]_vars
               PROVE  Attempts!Next \/ UNCHANGED <<starts, executing, Gone>>
    OBVIOUS
  <2>1. ASSUME NEW r \in Runs, CallRunner(r)
        PROVE  Attempts!Begin(r)
    <3>1. r \notin executing /\ starts[r] < MaxAttempts
      BY <2>1 DEF CallRunner, IInv, TypeOK, Counting, Preparing, MaxAttempts
    <3>2. ~Over(r) /\ Gone' = Gone
      BY <2>1 DEF CallRunner, Goto, Over, Gone, Starting, IInv, TypeOK, Threads,
                  apiVars, history
    <3> QED
      BY <2>1, <3>1, <3>2 DEF CallRunner, Attempts!Begin, Gone
  <2>2. ASSUME NEW r \in Runs, RunnerEnds(r) \/ ExecutorShutdown(r)
        PROVE  Attempts!End(r)
    <3>1. Gone' = Gone
      BY <2>2 DEF RunnerEnds, ExecutorShutdown, Goto, Over, Gone, Starting,
           IInv,
                  TypeOK, Threads, apiVars, history
    <3>2. r \in executing
      BY <2>2 DEF RunnerEnds, ExecutorShutdown, IInv, Counting
    <3> QED
      BY <2>2, <3>1, <3>2 DEF RunnerEnds, ExecutorShutdown, Attempts!End, Gone,
           history
  <2>3. ASSUME Crash
        PROVE  Attempts!Death
    <3>1. \A r \in Runs : ~Starting(r)' /\ pc'[r] = "none" /\ disk'[r] = disk[r]
      BY <2>3 DEF Crash, Starting, Threads, PersistLabels
    <3>2. Gone \cup executing \subseteq Gone'
      BY <3>1 DEF Over, Gone, IInv, Placement, Counting
    <3> QED
      BY <2>3, <3>2 DEF Crash, Attempts!Death, Gone
  <2>4. ASSUME NEW r \in Runs, NEW t \in Threads,
               \/ t = r /\ WorkerEntry(r)
               \/ RunOf(t) = r /\ (Truncate(t) \/ Write(t))
        PROVE  Attempts!GiveUp(r) \/ UNCHANGED <<starts, executing, Gone>>
    BY <2>4, LastSteps DEF Attempts!GiveUp, Gone
  <2>5. \A t \in Threads : RunOf(t) \in Runs
    BY DEF RunOf, Threads, IInv, TypeOK
  <2>6. CASE UNCHANGED vars
    BY <2>6 DEF vars, Gone, Over, Starting, history, apiVars
  <2> QED
    BY <2>1, <2>2, <2>3, <2>4, <2>5, <2>6, InvisibleSteps DEF Attempts!Next,
         Threads
<1> QED
  BY <1>1, <1>2, Invariance, PTL DEF Spec, RunsWithinBudget, Attempts!Spec, Gone
=============================================================================
