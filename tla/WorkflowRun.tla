---------------------------- MODULE WorkflowRun ----------------------------
(***************************************************************************)
(* The background workflow runs of core/workflows/service.py, with the     *)
(* manifests of core/workflows/storage.py.                                 *)
(*                                                                         *)
(* Two kinds of thread touch a run without any lock.  The API thread (the  *)
(* event loop) executes _start_run, cancel_run and terminate_run, none of  *)
(* which awaits, so these never interleave with each other.  Every run has *)
(* a worker thread executing _execute_run_sync.  A step of the model is    *)
(* one assignment to a shared field, one check, or one of the three parts  *)
(* of persist_workflow_run: serialise the detail, truncate the file, write *)
(* it.  The process may crash between any two steps; the next one restores *)
(* the manifests it can read.                                              *)
(***************************************************************************)
EXTENDS Integers, FiniteSets

CONSTANTS Runs,        \* run ids (uuid4), each started at most once
          TimedRuns,   \* the runs whose request sets runtime.timeout_seconds
          Api,         \* the API thread
          MaxRetries,  \* runtime.max_retries
          MaxCrashes,  \* bound: how often the process crashes
          Absent, Empty, Garbled   \* a manifest path with no readable detail

ASSUME RunsAssumption ==
    /\ Api \notin Runs
    /\ TimedRuns \subseteq Runs
ASSUME BoundsAssumption ==
    /\ MaxRetries \in Nat
    /\ MaxCrashes \in Nat

Statuses == {"queued", "running", "completed", "cancelled", "terminated", "error"}
Terminal == {"completed", "cancelled", "terminated", "error"}
Errors   == {"none", "control", "exception", "restart"}
Modes    == {"none", "cancel", "terminate"}

MaxAttempts == MaxRetries + 1

Details == [status : Statuses, attempts : 0..MaxAttempts,
            output : BOOLEAN, error : Errors]

ASSUME FilesAssumption ==
    /\ Absent \notin Details /\ Empty \notin Details /\ Garbled \notin Details
    /\ Absent # Empty /\ Absent # Garbled /\ Empty # Garbled

Threads == Runs \cup {Api}

VARIABLES
    registered,  \* keys of WorkflowService._runs
    status, attempts, output, error,   \* the fields of WorkflowRunDetail
    control,     \* WorkflowRunRecord.control_mode
    executing,   \* runs whose definition.runner is executing
    disk,        \* the content of every run.json
    pc,          \* the next step of every thread
    resume,      \* where a thread goes on after persist_workflow_run
    buffer,      \* the text model_dump_json has produced in each thread
    target,      \* the run the API thread is working on
    mode,        \* the control the API thread is applying
    toRestore,   \* manifests restore_runs has still to look at
    starts,      \* history: how often the runner of each run was started
    lateStarts,  \* history: how often after the run was controlled
    crashes      \* number of crashes so far, at most MaxCrashes

detailVars == <<status, attempts, output, error>>
apiVars    == <<target, mode, toRestore>>
history    == <<starts, lateStarts>>
vars == <<registered, detailVars, control, executing, disk, pc, resume, buffer,
          apiVars, history, crashes>>

Detail(r) == [status |-> status[r], attempts |-> attempts[r],
              output |-> output[r], error |-> error[r]]

Blank == [status |-> "queued", attempts |-> 0, output |-> FALSE, error |-> "none"]

RunOf(t) == IF t = Api THEN target ELSE t

Goto(t, label) == pc' = [pc EXCEPT ![t] = label]

(* Enter persist_workflow_run and continue at "label" when it returns. *)
PersistThen(t, label) ==
    /\ pc'     = [pc EXCEPT ![t] = "serialize"]
    /\ resume' = [resume EXCEPT ![t] = label]

(***************************************************************************)
(* persist_workflow_run: write_text opens the file, which truncates it,    *)
(* and writes the text when the file is closed.  A writer that finds the   *)
(* text of another writer in the file it has opened overwrites a prefix of *)
(* it; whether a tail is left depends on payload and message lengths,      *)
(* which the model leaves out.                                             *)
(***************************************************************************)
Overlay(text, old) == IF old \in {text, Empty} THEN {text} ELSE {text, Garbled}

Serialize(t) ==
    /\ pc[t] = "serialize"
    /\ buffer' = [buffer EXCEPT ![t] = Detail(RunOf(t))]
    /\ Goto(t, "truncate")
    /\ UNCHANGED <<registered, detailVars, control, executing, disk, resume,
                   apiVars, history, crashes>>

Truncate(t) ==
    /\ pc[t] = "truncate"
    /\ disk' = [disk EXCEPT ![RunOf(t)] = Empty]
    /\ Goto(t, "write")
    /\ UNCHANGED <<registered, detailVars, control, executing, resume, buffer,
                   apiVars, history, crashes>>

Write(t) ==
    /\ pc[t] = "write"
    /\ \E text \in Overlay(buffer[t], disk[RunOf(t)]) :
          disk' = [disk EXCEPT ![RunOf(t)] = text]
    /\ Goto(t, resume[t])
    /\ UNCHANGED <<registered, detailVars, control, executing, resume, buffer,
                   apiVars, history, crashes>>

Persist(t) == Serialize(t) \/ Truncate(t) \/ Write(t)

----------------------------------------------------------------------------
(* The API thread. *)

Fresh(r) == r \notin registered /\ disk[r] = Absent

StartRun(r) ==
    /\ pc[Api] = "idle"
    /\ Fresh(r)
    /\ target' = r
    /\ registered' = registered \cup {r}
    /\ status'   = [status   EXCEPT ![r] = Blank.status]
    /\ attempts' = [attempts EXCEPT ![r] = Blank.attempts]
    /\ output'   = [output   EXCEPT ![r] = Blank.output]
    /\ error'    = [error    EXCEPT ![r] = Blank.error]
    /\ control'  = [control  EXCEPT ![r] = "none"]
    /\ PersistThen(Api, "spawn")
    /\ UNCHANGED <<executing, disk, buffer, mode, toRestore, history, crashes>>

(* record.thread.start(): from here on the worker runs beside the caller. *)
SpawnWorker ==
    /\ pc[Api] = "spawn"
    /\ pc' = [pc EXCEPT ![Api] = "mark_running", ![target] = "entry"]
    /\ UNCHANGED <<registered, detailVars, control, executing, disk, resume, buffer,
                   apiVars, history, crashes>>

(* The caller marks the run as running after it has started the worker. *)
MarkRunning ==
    /\ pc[Api] = "mark_running"
    /\ status' = [status EXCEPT ![target] = "running"]
    /\ PersistThen(Api, "idle")
    /\ UNCHANGED <<registered, attempts, output, error, control, executing, disk,
                   buffer, apiVars, history, crashes>>

(* Mutation of RequestControl: no check for a run that has ended. *)
RequestControlUnchecked(r, m) ==
    /\ pc[Api] = "idle"
    /\ r \in registered
    /\ target' = r
    /\ mode' = m
    /\ Goto(Api, "set_control")
    /\ UNCHANGED <<registered, detailVars, control, executing, disk, resume, buffer,
                   toRestore, history, crashes>>

(* cancel_run and terminate_run: a run that has ended is returned as it is. *)
RequestControl(r, m) ==
    /\ pc[Api] = "idle"
    /\ r \in registered
    /\ status[r] \notin Terminal
    /\ target' = r
    /\ mode' = m
    /\ Goto(Api, "set_control")
    /\ UNCHANGED <<registered, detailVars, control, executing, disk, resume, buffer,
                   toRestore, history, crashes>>

SetControl ==
    /\ pc[Api] = "set_control"
    /\ control' = [control EXCEPT ![target] = mode]
    /\ Goto(Api, "set_status")
    /\ UNCHANGED <<registered, detailVars, executing, disk, resume, buffer,
                   apiVars, history, crashes>>

StatusOf(m) == IF m = "cancel" THEN "cancelled" ELSE "terminated"

SetControlStatus ==
    /\ pc[Api] = "set_status"
    /\ status' = [status EXCEPT ![target] = StatusOf(mode)]
    /\ Goto(Api, "set_reason")
    /\ UNCHANGED <<registered, attempts, output, error, control, executing, disk,
                   resume, buffer, apiVars, history, crashes>>

SetReason ==
    /\ pc[Api] = "set_reason"
    /\ error' = [error EXCEPT ![target] = "control"]
    /\ PersistThen(Api, "idle")
    /\ UNCHANGED <<registered, status, attempts, output, control, executing, disk,
                   buffer, apiVars, history, crashes>>

----------------------------------------------------------------------------
(* The worker thread of run r. *)

(* Mutation of Controlled: a terminated run is forgotten. *)
ControlledByCancel(r) == control[r] = "cancel" \/ status[r] = "cancelled"

Controlled(r) == control[r] # "none" \/ status[r] \in {"cancelled", "terminated"}

WorkerEntry(r) ==
    /\ pc[r] = "entry"
    /\ Goto(r, IF control[r] # "none" THEN "done" ELSE "loop")
    /\ UNCHANGED <<registered, detailVars, control, executing, disk, resume, buffer,
                   apiVars, history, crashes>>

(* Mutation of StopControlled: no check after the runner has returned. *)
StopControlledNotAfterReturn(r) ==
    /\ pc[r] \in {"loop", "raised"}
    /\ Controlled(r)
    /\ PersistThen(r, "done")
    /\ UNCHANGED <<registered, detailVars, control, executing, disk, buffer,
                   apiVars, history, crashes>>

(* The three control checks: leave with a last persist_workflow_run. *)
StopControlled(r) ==
    /\ pc[r] \in {"loop", "returned", "raised"}
    /\ Controlled(r)
    /\ PersistThen(r, "done")
    /\ UNCHANGED <<registered, detailVars, control, executing, disk, buffer,
                   apiVars, history, crashes>>

BeginAttempt(r) ==
    /\ pc[r] = "loop"
    /\ ~Controlled(r)
    /\ attempts' = [attempts EXCEPT ![r] = @ + 1]
    /\ PersistThen(r, "call")
    /\ UNCHANGED <<registered, status, output, error, control, executing, disk,
                   buffer, apiVars, history, crashes>>

(* Mutation of CallRunner: the worker marks the run as running. *)
CallRunnerMarking(r) ==
    /\ pc[r] = "call"
    /\ status' = [status EXCEPT ![r] = "running"]
    /\ executing' = executing \cup {r}
    /\ starts' = [starts EXCEPT ![r] = @ + 1]
    /\ lateStarts' = [lateStarts EXCEPT ![r] = IF control[r] = "none" THEN @ ELSE @ + 1]
    /\ Goto(r, "await")
    /\ UNCHANGED <<registered, attempts, output, error, control, disk, resume, buffer,
                   apiVars, crashes>>

(* _execute_once_with_runtime calls or submits definition.runner. *)
CallRunner(r) ==
    /\ pc[r] = "call"
    /\ executing' = executing \cup {r}
    /\ starts' = [starts EXCEPT ![r] = @ + 1]
    /\ lateStarts' = [lateStarts EXCEPT ![r] = IF control[r] = "none" THEN @ ELSE @ + 1]
    /\ Goto(r, "await")
    /\ UNCHANGED <<registered, detailVars, control, disk, resume, buffer, apiVars, crashes>>

(* definition.runner returns or raises; future.result passes that on. *)
RunnerEnds(r) ==
    /\ pc[r] = "await"
    /\ executing' = executing \ {r}
    /\ \E outcome \in {"returned", "raised"} : Goto(r, outcome)
    /\ UNCHANGED <<registered, detailVars, control, disk, resume, buffer, apiVars,
                   history, crashes>>

(* Mutation of TimerFires: an executor that does not wait for the runner. *)
TimerFiresAtOnce(r) ==
    /\ pc[r] = "await"
    /\ r \in TimedRuns
    /\ Goto(r, "raised")
    /\ UNCHANGED <<registered, detailVars, control, executing, disk, resume, buffer,
                   apiVars, history, crashes>>

(* future.result gives up; the with block of the executor is still open. *)
TimerFires(r) ==
    /\ pc[r] = "await"
    /\ r \in TimedRuns
    /\ Goto(r, "shutdown")
    /\ UNCHANGED <<registered, detailVars, control, executing, disk, resume, buffer,
                   apiVars, history, crashes>>

(* ThreadPoolExecutor.__exit__ waits for the runner before TimeoutError. *)
ExecutorShutdown(r) ==
    /\ pc[r] = "shutdown"
    /\ executing' = executing \ {r}
    /\ Goto(r, "raised")
    /\ UNCHANGED <<registered, detailVars, control, disk, resume, buffer, apiVars,
                   history, crashes>>

(* Mutation of AcceptResult: the status is written before the output. *)
AcceptResultStatusFirst(r) ==
    /\ pc[r] = "returned"
    /\ ~Controlled(r)
    /\ status' = [status EXCEPT ![r] = "completed"]
    /\ Goto(r, "set_output")
    /\ UNCHANGED <<registered, attempts, output, error, control, executing, disk, resume,
                   buffer, apiVars, history, crashes>>

AcceptResult(r) ==
    /\ pc[r] = "returned"
    /\ ~Controlled(r)
    /\ Goto(r, "set_output")
    /\ UNCHANGED <<registered, detailVars, control, executing, disk, resume, buffer,
                   apiVars, history, crashes>>

SetOutput(r) ==
    /\ pc[r] = "set_output"
    /\ output' = [output EXCEPT ![r] = TRUE]
    /\ Goto(r, "set_completed")
    /\ UNCHANGED <<registered, status, attempts, error, control, executing, disk,
                   resume, buffer, apiVars, history, crashes>>

SetCompleted(r) ==
    /\ pc[r] = "set_completed"
    /\ status' = [status EXCEPT ![r] = "completed"]
    /\ Goto(r, "clear_error")
    /\ UNCHANGED <<registered, attempts, output, error, control, executing, disk,
                   resume, buffer, apiVars, history, crashes>>

ClearError(r) ==
    /\ pc[r] = "clear_error"
    /\ error' = [error EXCEPT ![r] = "none"]
    /\ PersistThen(r, "done")
    /\ UNCHANGED <<registered, status, attempts, output, control, executing, disk,
                   buffer, apiVars, history, crashes>>

(* Mutation of Retry: one attempt too many. *)
RetryOneTooMany(r) ==
    /\ pc[r] = "raised"
    /\ ~Controlled(r)
    /\ attempts[r] <= MaxAttempts
    /\ Goto(r, "loop")
    /\ UNCHANGED <<registered, detailVars, control, executing, disk, resume, buffer,
                   apiVars, history, crashes>>

(* An attempt failed and another is left; the sleep is a pause at "loop". *)
Retry(r) ==
    /\ pc[r] = "raised"
    /\ ~Controlled(r)
    /\ attempts[r] < MaxAttempts
    /\ Goto(r, "loop")
    /\ UNCHANGED <<registered, detailVars, control, executing, disk, resume, buffer,
                   apiVars, history, crashes>>

(* Mutation of GiveUp: the worker is stuck after its last attempt. *)
GiveUpTooLate(r) ==
    /\ pc[r] = "raised"
    /\ ~Controlled(r)
    /\ attempts[r] > MaxAttempts
    /\ Goto(r, "set_failed")
    /\ UNCHANGED <<registered, detailVars, control, executing, disk, resume, buffer,
                   apiVars, history, crashes>>

GiveUp(r) ==
    /\ pc[r] = "raised"
    /\ ~Controlled(r)
    /\ attempts[r] >= MaxAttempts
    /\ Goto(r, "set_failed")
    /\ UNCHANGED <<registered, detailVars, control, executing, disk, resume, buffer,
                   apiVars, history, crashes>>

(* Mutation of SetFailed: the exception is not recorded. *)
SetFailedSilently(r) ==
    /\ pc[r] = "set_failed"
    /\ status' = [status EXCEPT ![r] = "error"]
    /\ PersistThen(r, "done")
    /\ UNCHANGED <<registered, attempts, output, error, control, executing, disk,
                   buffer, apiVars, history, crashes>>

SetFailed(r) ==
    /\ pc[r] = "set_failed"
    /\ status' = [status EXCEPT ![r] = "error"]
    /\ Goto(r, "set_exception")
    /\ UNCHANGED <<registered, attempts, output, error, control, executing, disk,
                   resume, buffer, apiVars, history, crashes>>

SetException(r) ==
    /\ pc[r] = "set_exception"
    /\ error' = [error EXCEPT ![r] = "exception"]
    /\ PersistThen(r, "done")
    /\ UNCHANGED <<registered, status, attempts, output, control, executing, disk,
                   buffer, apiVars, history, crashes>>

----------------------------------------------------------------------------
(* The process dies, its daemon threads with it, and a new one begins      *)
(* WorkflowService.__init__; only the files are left.                      *)
Crash ==
    /\ crashes < MaxCrashes
    /\ crashes' = crashes + 1
    /\ registered' = {}
    /\ status'     = [r \in Runs |-> Blank.status]
    /\ attempts'   = [r \in Runs |-> Blank.attempts]
    /\ output'     = [r \in Runs |-> Blank.output]
    /\ error'      = [r \in Runs |-> Blank.error]
    /\ control'    = [r \in Runs |-> "none"]
    /\ lateStarts' = [r \in Runs |-> 0]
    /\ executing'  = {}
    /\ pc'     = [t \in Threads |-> IF t = Api THEN "restore" ELSE "none"]
    /\ toRestore' = Runs
    /\ UNCHANGED <<disk, resume, buffer, target, mode, starts>>

(* Mutation of RestoreEnded: every manifest is taken as it is. *)
RestoreAnything(r) ==
    /\ pc[Api] = "restore"
    /\ r \in toRestore
    /\ disk[r] \in Details
    /\ toRestore' = toRestore \ {r}
    /\ registered' = registered \cup {r}
    /\ status'   = [status   EXCEPT ![r] = disk[r].status]
    /\ attempts' = [attempts EXCEPT ![r] = disk[r].attempts]
    /\ output'   = [output   EXCEPT ![r] = disk[r].output]
    /\ error'    = [error    EXCEPT ![r] = disk[r].error]
    /\ UNCHANGED <<control, executing, disk, pc, resume, buffer, target, mode,
                   history, crashes>>

(* restore_runs keeps an ended run as it is ... *)
RestoreEnded(r) ==
    /\ pc[Api] = "restore"
    /\ r \in toRestore
    /\ disk[r] \in Details
    /\ disk[r].status \in Terminal
    /\ toRestore' = toRestore \ {r}
    /\ registered' = registered \cup {r}
    /\ status'   = [status   EXCEPT ![r] = disk[r].status]
    /\ attempts' = [attempts EXCEPT ![r] = disk[r].attempts]
    /\ output'   = [output   EXCEPT ![r] = disk[r].output]
    /\ error'    = [error    EXCEPT ![r] = disk[r].error]
    /\ UNCHANGED <<control, executing, disk, pc, resume, buffer, target, mode,
                   history, crashes>>

(* ... marks one that was queued or running as failed, and saves that ... *)
RestoreInterrupted(r) ==
    /\ pc[Api] = "restore"
    /\ r \in toRestore
    /\ disk[r] \in Details
    /\ disk[r].status \in {"queued", "running"}
    /\ target' = r
    /\ toRestore' = toRestore \ {r}
    /\ registered' = registered \cup {r}
    /\ status'   = [status   EXCEPT ![r] = "error"]
    /\ attempts' = [attempts EXCEPT ![r] = disk[r].attempts]
    /\ output'   = [output   EXCEPT ![r] = disk[r].output]
    /\ error'    = [error    EXCEPT ![r] = IF disk[r].error = "none" THEN "restart"
                                           ELSE disk[r].error]
    /\ PersistThen(Api, "restore")
    /\ UNCHANGED <<control, executing, disk, buffer, mode, history, crashes>>

(* ... and skips what load_workflow_run cannot read. *)
SkipManifest(r) ==
    /\ pc[Api] = "restore"
    /\ r \in toRestore
    /\ disk[r] \notin Details
    /\ toRestore' = toRestore \ {r}
    /\ UNCHANGED <<registered, detailVars, control, executing, disk, pc, resume,
                   buffer, target, mode, history, crashes>>

EndRestore ==
    /\ pc[Api] = "restore"
    /\ toRestore = {}
    /\ Goto(Api, "idle")
    /\ UNCHANGED <<registered, detailVars, control, executing, disk, resume, buffer,
                   apiVars, history, crashes>>

RestoreRuns ==
    \/ \E r \in Runs : RestoreEnded(r) \/ RestoreInterrupted(r) \/ SkipManifest(r)
    \/ EndRestore

----------------------------------------------------------------------------
Init ==
    /\ registered = {}
    /\ status   = [r \in Runs |-> Blank.status]
    /\ attempts = [r \in Runs |-> Blank.attempts]
    /\ output   = [r \in Runs |-> Blank.output]
    /\ error    = [r \in Runs |-> Blank.error]
    /\ control  = [r \in Runs |-> "none"]
    /\ executing = {}
    /\ disk   = [r \in Runs |-> Absent]
    /\ pc     = [t \in Threads |-> IF t = Api THEN "idle" ELSE "none"]
    /\ resume = [t \in Threads |-> IF t = Api THEN "idle" ELSE "done"]
    /\ buffer = [t \in Threads |-> Blank]
    /\ target \in Runs
    /\ mode = "cancel"
    /\ toRestore = {}
    /\ starts = [r \in Runs |-> 0]
    /\ lateStarts = [r \in Runs |-> 0]
    /\ crashes = 0

(* What the API thread does on its own once a request has reached it. *)
ApiStep ==
    \/ Persist(Api) \/ SpawnWorker \/ MarkRunning
    \/ SetControl \/ SetControlStatus \/ SetReason \/ RestoreRuns

Request ==
    \E r \in Runs : StartRun(r) \/ (\E m \in {"cancel", "terminate"} : RequestControl(r, m))

WorkerStep(r) ==
    \/ Persist(r) \/ WorkerEntry(r) \/ StopControlled(r) \/ BeginAttempt(r)
    \/ CallRunner(r) \/ AcceptResult(r) \/ SetOutput(r) \/ SetCompleted(r)
    \/ ClearError(r) \/ Retry(r) \/ GiveUp(r) \/ SetFailed(r) \/ SetException(r)

RunnerStep(r) == RunnerEnds(r) \/ ExecutorShutdown(r)

Next ==
    \/ Request \/ ApiStep \/ Crash
    \/ \E r \in Runs : WorkerStep(r) \/ RunnerStep(r) \/ TimerFires(r)

Spec == Init /\ [][Next]_vars

(* The operating system schedules every thread and timers expire.          *)
Scheduling ==
    /\ WF_vars(ApiStep)
    /\ \A r \in Runs : WF_vars(WorkerStep(r)) /\ WF_vars(TimerFires(r))

(* FairSpec says nothing about the runner, user code that may never end;   *)
(* LiveSpec adds that it does.                                             *)
FairSpec == Spec /\ Scheduling
LiveSpec == FairSpec /\ \A r \in Runs : WF_vars(RunnerStep(r))

----------------------------------------------------------------------------
(* Properties. *)

PersistLabels == {"serialize", "truncate", "write"}
ApiLabels == PersistLabels \cup
    {"idle", "spawn", "mark_running", "set_control", "set_status", "set_reason", "restore"}
WorkerLabels == PersistLabels \cup
    {"none", "entry", "loop", "call", "await", "shutdown", "returned", "raised",
     "set_output", "set_completed", "clear_error", "set_failed", "set_exception", "done"}

(* Every variable holds a value of the kind the code puts there.           *)
TypeOK ==
    /\ registered \subseteq Runs
    /\ status   \in [Runs -> Statuses]
    /\ attempts \in [Runs -> 0..MaxAttempts]
    /\ output   \in [Runs -> BOOLEAN]
    /\ error    \in [Runs -> Errors]
    /\ control  \in [Runs -> Modes]
    /\ executing \subseteq Runs
    /\ disk   \in [Runs -> Details \cup {Absent, Empty, Garbled}]
    /\ pc     \in [Threads -> ApiLabels \cup WorkerLabels]
    /\ pc[Api] \in ApiLabels
    /\ \A r \in Runs : pc[r] \in WorkerLabels
    /\ resume \in [Threads -> ApiLabels \cup WorkerLabels]
    /\ resume[Api] \in {"idle", "spawn", "restore"}
    /\ \A r \in Runs : resume[r] \in {"done", "call"}
    /\ buffer \in [Threads -> Details]
    /\ target \in Runs
    /\ mode \in Modes \ {"none"}
    /\ toRestore \subseteq Runs
    /\ starts \in [Runs -> Nat]
    /\ lateStarts \in [Runs -> Nat]
    /\ crashes \in 0..MaxCrashes

(* Whoever sees a run completed finds its output: in the answer of get_run *)
(* and, whatever threads race on the file and whenever the process dies,   *)
(* in any manifest a restart can read.                                     *)
CompletedHasOutput ==
    \A r \in Runs :
        /\ status[r] = "completed" => output[r]
        /\ disk[r] \in Details /\ disk[r].status = "completed" => disk[r].output

(* cancel_run and terminate_run cannot interrupt user code, but after one  *)
(* of them has set control_mode at most one more attempt begins: the one   *)
(* whose check had passed already.                                         *)
AtMostOneLateStart == \A r \in Runs : lateStarts[r] <= 1

(* A run that was stopped is never queued or running again, although the   *)
(* caller of _start_run and the worker keep writing its status: the final  *)
(* status of a controlled run is terminal once the request is over.        *)
ControlledRunEnds ==
    \A r \in Runs :
        control[r] # "none" /\ ~(pc[Api] = "set_status" /\ target = r)
            => status[r] \in Terminal

(* A control, once given, is neither dropped nor exchanged for the other   *)
(* one while the process lives, so a cancelled run is not terminated too.  *)
ControlIsFinal ==
    [][\A r \in Runs : control[r] # "none" /\ crashes' = crashes
                          => control'[r] = control[r]]_vars

(* restore_runs leaves no run queued or running that has no worker thread: *)
(* "so the front end does not show it as running for ever".                *)
RestoredRunsEnded ==
    \A r \in registered :
        pc[r] = "none" => \/ status[r] \in Terminal
                          \/ /\ target = r
                             /\ pc[Api] \in PersistLabels \cup
                                            {"spawn", "set_control", "set_status"}

(* A run its worker has left as failed carries a message, that of its last *)
(* exception or of the control that raced it, whichever was written last.  *)
FailureIsExplained ==
    \A r \in registered : status[r] = "error" /\ pc[r] = "done" => error[r] # "none"

(* _start_run has not reached the start of the worker of r yet.            *)
Starting(r) ==
    /\ target = r
    /\ \/ pc[Api] = "spawn"
       \/ pc[Api] \in PersistLabels /\ resume[Api] = "spawn"

(* No attempt of r is to come: its worker has left, or died in a crash.    *)
Over(r) == \/ pc[r] = "done"
           \/ pc[r] = "none" /\ disk[r] # Absent /\ ~Starting(r)

Attempts == INSTANCE RetryBudget WITH
    Budget   <- MaxAttempts,
    begun    <- starts,
    inFlight <- executing,
    over     <- {r \in Runs : Over(r)}

(* The calls of the runner of a run are the attempts of a retry budget:    *)
(* one at a time even after a timeout, at most max_retries + 1 of them,    *)
(* and none once the worker has left or the process has been restarted.    *)
RunsWithinBudget == Attempts!Spec

(* Stopping a run works in the end: unless the process dies, its worker    *)
(* thread leaves and leaves no user code of the run behind.                *)
StoppedWorkerLeaves ==
    \A r \in Runs :
        control[r] # "none" ~> (pc[r] \in {"done", "none"} /\ r \notin executing)

(* Every run that is started gets a worker that leaves, or the process     *)
(* dies and every run it can read is shown as ended.                       *)
StartedRunSettles ==
    \A r \in Runs : pc[r] = "entry" ~> pc[r] \in {"done", "none"}

----------------------------------------------------------------------------
(* Statements of the repository that the code does not keep. *)

(* restore_runs (service.py:66): a run whose thread is gone is not shown   *)
(* as running.  The docstring is about restarts; this is the same promise  *)
(* for a run whose worker has left while the process lives.                *)
NeverRunningForever ==
    \A r \in registered : pc[r] = "done" /\ pc[Api] = "idle" => status[r] \in Terminal

(* persist_workflow_run (storage.py:22) saves the detail "so that it can   *)
(* be restored after a restart": when no thread is writing it, the         *)
(* manifest of a registered run can be read.                               *)
ManifestIsRestorable ==
    \A r \in registered :
        (pc[Api] = "idle" /\ pc[r] \in {"done", "none"}) => disk[r] \in Details

(* runtime.timeout_seconds (schemas/workflow.py:45) is "the timeout of a   *)
(* single workflow run": an attempt that is over time comes to an end.     *)
TimeoutEndsAttempt ==
    \A r \in TimedRuns : pc[r] = "await" ~> pc[r] \notin {"await", "shutdown"}
=============================================================================
