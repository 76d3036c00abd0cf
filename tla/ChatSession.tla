---------------------------- MODULE ChatSession ----------------------------
(***************************************************************************)
(* One local conversation: core/chat/{session,turn,state,storage,service}  *)
(* behind core/backends/local.py.                                          *)
(*                                                                         *)
(* Everything runs on one asyncio event loop, so a step of the model is    *)
(* the code between two awaits.  The tasks are the turns (one per message  *)
(* posted, streamed or dispatched), the title backfills, and the requests  *)
(* that never await.  The session object outlives its entry in             *)
(* ChatService._sessions as long as a task refers to it.                   *)
(***************************************************************************)
EXTENDS Naturals, FiniteSets

CONSTANTS Turns,        \* turn tasks, each run at most once
          StreamTurns,  \* the turns that have an event queue
          Backfills,    \* tasks running backfill_missing_titles
          NoTurn,
          MaxSteps,     \* bound: assistant.step events of a turn
          MaxCrashes,   \* bound: restarts of the process
          Absent, Torn  \* a manifest that is missing, or cut off by a crash

ASSUME TurnsAssumption ==
    /\ NoTurn \notin Turns
    /\ StreamTurns \subseteq Turns
ASSUME BoundsAssumption ==
    /\ MaxSteps \in Nat
    /\ MaxCrashes \in Nat

Statuses  == {"idle", "running", "error"}
Titles    == {"none", "auto", "user"}    \* "auto": fallback, generated or legacy
Manifests == [status : Statuses, error : BOOLEAN, title : Titles, valid : BOOLEAN]
Logs      == {"none", "blank", "full"}   \* "blank": a header without messages

ASSUME ManifestsAssumption ==
    Absent \notin Manifests /\ Torn \notin Manifests /\ Absent # Torn

InTurn   == {"attach", "agent", "title"}
Finished == {"answered", "failed", "refused"}

VARIABLES
    created,    \* the session has been created
    listed,     \* it is a key of ChatService._sessions
    deleted,    \* history: a client has deleted it
    status, title,   \* ChatSession.status and config.title
    valid,      \* create_react_agent accepts the other settings of config
    lastError,  \* ChatSession.last_error is a text that is not empty
    messages,   \* history() is not empty
    lock,       \* holder of ChatSession._lock
    active,     \* ChatSession._active_turn_task
    activity,   \* _last_activity_monotonic: none, recent, or beyond the threshold
    cancelled,  \* tasks whose cancel() has been called, not delivered yet
    task,       \* progress of every turn task
    steps,      \* assistant.step events of every turn, at most MaxSteps
    backfill,   \* progress of every backfill task
    meta,       \* runtime/sessions/<id>/meta.json
    log,        \* the conversation log of the session
    crashes     \* restarts so far, at most MaxCrashes

vars == <<created, listed, deleted, status, lastError, title, valid, messages, lock,
          active, activity, cancelled, task, steps, backfill, meta, log, crashes>>
fileVars  == <<meta, log>>
turnVars  == <<lock, active, activity, steps>>
entryVars == <<created, listed, deleted, valid, crashes>>

Manifest(s, e, t, v) == [status |-> s, error |-> e, title |-> t, valid |-> v]

----------------------------------------------------------------------------
(* _reconcile_runtime_state, which most requests begin or end with.        *)

(* The session shows a turn that no task is executing any more ...         *)
Orphaned ==
    /\ status = "running"
    /\ \/ lock = NoTurn
       \/ active = NoTurn
       \/ active # NoTurn /\ task[active] \in Finished

(* Mutation of Overdue: a hanging turn is waited for. *)
OverdueNever == FALSE

(* ... or one that has been inactive for longer than the threshold.        *)
Overdue == status = "running" /\ ~Orphaned /\ activity = "old"

SeenStatus == IF Orphaned \/ Overdue THEN "error" ELSE status

(* Mutation of SeenError: a lost turn is given no reason. *)
SeenErrorForgotten == lastError \/ Overdue

SeenError == lastError \/ Orphaned \/ Overdue

(* Mutation of SeenCancelled: an overdue turn is not cancelled. *)
SeenCancelledNever == cancelled

SeenCancelled == IF Overdue THEN cancelled \cup {active} ELSE cancelled

Reconcile ==
    /\ status' = SeenStatus
    /\ lastError' = SeenError
    /\ cancelled' = SeenCancelled

(* get_session gives an untitled session with messages a fallback title.   *)
SeenTitle == IF title = "none" /\ messages THEN "auto" ELSE title

Changed == Orphaned \/ Overdue \/ SeenTitle # title

----------------------------------------------------------------------------
(* Requests that never await. *)

CreateSession ==
    /\ ~created
    /\ created' = TRUE /\ listed' = TRUE
    /\ title' \in {"none", "user"}
    /\ meta' = Manifest("idle", FALSE, title', valid)
    /\ log' \in {"none", "blank"}
    /\ UNCHANGED <<deleted, valid, status, lastError, messages, turnVars, cancelled, task,
                   backfill, crashes>>

(* get_session, list_sessions and one round of get_session_wait.           *)
Read ==
    /\ listed
    /\ Changed
    /\ Reconcile
    /\ title' = SeenTitle
    /\ meta' = Manifest(SeenStatus, SeenError, SeenTitle, valid)
    /\ UNCHANGED <<entryVars, messages, turnVars, task, backfill, log>>

(* get_messages, and update_session when it refuses: no reconciliation.    *)
ReadMessages ==
    /\ listed
    /\ SeenTitle # title
    /\ title' = SeenTitle
    /\ meta' = Manifest(status, lastError, SeenTitle, valid)
    /\ UNCHANGED <<entryVars, status, lastError, messages, turnVars, cancelled, task,
                   backfill, log>>

(* Mutation of Reconfigure: the new configuration is not saved. *)
ReconfigureUnsaved ==
    /\ listed
    /\ lock = NoTurn
    /\ Reconcile
    /\ title' \in {SeenTitle, "none", "user"}
    /\ valid' = TRUE
    /\ messages' \in {messages, log = "full"}
    /\ UNCHANGED <<created, listed, deleted, crashes, turnVars, task, backfill, fileVars>>

(* update_session may set or clear the title; with other memory settings   *)
(* it reads the messages back from the log.                                *)
Reconfigure ==
    /\ listed
    /\ lock = NoTurn
    /\ Reconcile
    /\ title' \in {SeenTitle, "none", "user"}
    /\ valid' = TRUE
    /\ messages' \in {messages, log = "full"}
    /\ meta' = Manifest(SeenStatus, SeenError, title', TRUE)
    /\ UNCHANGED <<created, listed, deleted, crashes, turnVars, task, backfill, log>>

(* An update with settings create_react_agent rejects, such as the name of *)
(* an unknown tool: _build_agent has replaced config before it raises, and *)
(* nothing puts the old one back.  Only get_session may have saved.        *)
ReconfigureRejected ==
    /\ listed
    /\ lock = NoTurn
    /\ title' \in {SeenTitle, "none", "user"}
    /\ valid' = FALSE
    /\ meta' = IF SeenTitle # title THEN Manifest(status, lastError, SeenTitle, valid)
               ELSE meta
    /\ UNCHANGED <<created, listed, deleted, crashes, status, lastError, messages,
                   turnVars, cancelled, task, backfill, log>>

(* delete_messages, of some or of all messages.                            *)
DeleteMessages ==
    /\ listed
    /\ lock = NoTurn
    /\ messages
    /\ Reconcile
    /\ title' = SeenTitle
    /\ messages' \in BOOLEAN
    /\ log' = IF messages' THEN "full" ELSE "blank"
    /\ meta' = Manifest(SeenStatus, SeenError, SeenTitle, valid)
    /\ UNCHANGED <<entryVars, turnVars, task, backfill>>

(* delete_session does not look at the lock.                               *)
DeleteSession ==
    /\ listed
    /\ listed' = FALSE /\ deleted' = TRUE
    /\ meta' = Absent /\ log' = "none"
    /\ UNCHANGED <<created, status, lastError, title, valid, messages, turnVars,
                   cancelled, task, backfill, crashes>>

----------------------------------------------------------------------------
(* Turns. *)

(* dispatch_turn_message answers 202 and leaves a task that is to begin.   *)
Dispatch(t) ==
    /\ listed
    /\ task[t] = "new" /\ t \notin StreamTurns
    /\ Reconcile
    /\ title' = SeenTitle
    /\ meta' = IF Changed THEN Manifest(SeenStatus, SeenError, SeenTitle, valid) ELSE meta
    /\ task' = [task EXCEPT ![t] = IF SeenStatus = "running" THEN "refused" ELSE "accepted"]
    /\ UNCHANGED <<entryVars, messages, turnVars, backfill, log>>

(* The request has found the session, or had found it when it dispatched.  *)
MayAsk(t) == \/ task[t] = "new" /\ listed
             \/ task[t] = "accepted"

(* ask_message while another turn holds the lock.                          *)
RefuseTurn(t) ==
    /\ MayAsk(t)
    /\ lock # NoTurn
    /\ Reconcile
    /\ title' = IF task[t] = "new" THEN SeenTitle ELSE title
    /\ meta' = IF status' # status \/ title' # title
               THEN Manifest(status', lastError', title', valid) ELSE meta
    /\ task' = [task EXCEPT ![t] = "refused"]
    /\ UNCHANGED <<entryVars, messages, turnVars, backfill, log>>

(* The memory of the agent appends what it is given to the log as it goes, *)
(* or, of type "basic", leaves that to the end of the turn.                *)
(* Nothing is kept if the code before the call of the agent raises.        *)
Remember ==
    \/ UNCHANGED <<messages, log>>
    \/ messages' = TRUE /\ log' \in {log, "full"}

(* Mutation of BeginTurn: the status is looked at instead of the lock. *)
BeginTurnByStatus(t, uploads) ==
    /\ MayAsk(t)
    /\ status # "running"
    /\ lock' = t /\ active' = t /\ activity' = "recent"
    /\ status' = "running" /\ lastError' = FALSE
    /\ title' = IF task[t] = "new" THEN SeenTitle ELSE title
    /\ meta' = Manifest("running", FALSE, title', valid)
    /\ task' = [task EXCEPT ![t] = IF uploads THEN "attach" ELSE "agent"]
    /\ IF uploads THEN UNCHANGED <<messages, log>> ELSE Remember
    /\ UNCHANGED <<entryVars, cancelled, steps, backfill>>

(* ask_message up to its first await, inside _save_attachments or in the   *)
(* agent, which has put the message into its memory by then.               *)
BeginTurn(t, uploads) ==
    /\ MayAsk(t)
    /\ lock = NoTurn
    /\ lock' = t /\ active' = t /\ activity' = "recent"
    /\ status' = "running" /\ lastError' = FALSE
    /\ title' = IF task[t] = "new" THEN SeenTitle ELSE title
    /\ meta' = Manifest("running", FALSE, title', valid)
    /\ task' = [task EXCEPT ![t] = IF uploads THEN "attach" ELSE "agent"]
    /\ IF uploads THEN UNCHANGED <<messages, log>> ELSE Remember
    /\ UNCHANGED <<entryVars, cancelled, steps, backfill>>

AttachmentsSaved(t) ==
    /\ task[t] = "attach" /\ t \notin cancelled
    /\ task' = [task EXCEPT ![t] = "agent"]
    /\ Remember
    /\ UNCHANGED <<entryVars, status, lastError, title, turnVars, cancelled, backfill,
                   meta>>

(* An exception of _save_attachments, or a cancellation there, leaves the  *)
(* lock but passes by every handler of ask_message.                        *)
AttachmentsFail(t) ==
    /\ task[t] = "attach"
    /\ lock' = NoTurn
    /\ task' = [task EXCEPT ![t] = "failed"]
    /\ cancelled' = cancelled \ {t}
    /\ UNCHANGED <<entryVars, status, lastError, title, messages, active, activity,
                   steps, backfill, fileVars>>

(* on_step: a step is activity only when somebody is streaming.            *)
AgentStep(t) ==
    /\ task[t] = "agent" /\ t \notin cancelled
    /\ steps[t] < MaxSteps
    /\ steps' = [steps EXCEPT ![t] = @ + 1]
    /\ activity' = IF t \in StreamTurns THEN "recent" ELSE activity
    /\ Remember
    /\ UNCHANGED <<entryVars, status, lastError, title, lock, active,
                   cancelled, task, backfill, meta>>

(* What the finally block and the end of the async with do. *)
ReleaseTurn(t, outcome) ==
    /\ lock' = NoTurn /\ active' = NoTurn /\ activity' = "none"
    /\ task' = [task EXCEPT ![t] = outcome]

(* From the last await to the end: answer, log, manifest, assistant.final. *)
Complete(t, newTitle) ==
    /\ status' = "idle" /\ lastError' = FALSE
    /\ title' = newTitle
    /\ messages' = TRUE /\ log' = "full"
    /\ meta' = Manifest("idle", FALSE, newTitle, valid)
    /\ ReleaseTurn(t, "answered")
    /\ UNCHANGED <<entryVars, cancelled, steps, backfill>>

(* The agent has answered a titled session ... *)
AnswerTitled(t) ==
    /\ task[t] = "agent" /\ t \notin cancelled
    /\ title # "none"
    /\ Complete(t, title)

(* ... or an untitled one: ensure_title waits for the title service ...    *)
AwaitTitle(t) ==
    /\ task[t] = "agent" /\ t \notin cancelled
    /\ title = "none"
    /\ task' = [task EXCEPT ![t] = "title"]
    /\ UNCHANGED <<entryVars, status, lastError, title, messages, turnVars, cancelled,
                   backfill, fileVars>>

(* ... and writes what it gets over whatever the title is by then.         *)
TitleGenerated(t) ==
    /\ task[t] = "title" /\ t \notin cancelled
    /\ Complete(t, "auto")

(* The handler for CancelledError gives a reason if there is none, the one *)
(* for Exception takes the text of the exception, which may be empty; both *)
(* rewrite the log if there are images to take out of it.                  *)
EndInError(t, reason) ==
    /\ status' = "error" /\ lastError' = reason
    /\ meta' = Manifest("error", reason, title, valid)
    /\ log' \in {log, "full"}
    /\ cancelled' = cancelled \ {t}
    /\ ReleaseTurn(t, "failed")
    /\ UNCHANGED <<entryVars, title, messages, steps, backfill>>

(* Mutation of CancelDelivered: a cancellation in the title service is lost. *)
CancelDeliveredToAgent(t) ==
    /\ task[t] = "agent"
    /\ t \in cancelled
    /\ EndInError(t, TRUE)

CancelDelivered(t) ==
    /\ task[t] \in {"agent", "title"}
    /\ t \in cancelled
    /\ EndInError(t, TRUE)

AgentFails(t) ==
    /\ task[t] = "agent" /\ t \notin cancelled
    /\ \E reason \in BOOLEAN : EndInError(t, reason)

(* The clock passes the threshold of the turn that is being shown.         *)
TimePasses ==
    /\ activity = "recent"
    /\ activity' = "old"
    /\ UNCHANGED <<entryVars, status, lastError, title, messages, lock, active, steps,
                   cancelled, task, backfill, fileVars>>

----------------------------------------------------------------------------
(* backfill_missing_titles, started by list_sessions and get_session. *)

BeginBackfill(b) ==
    /\ listed
    /\ backfill[b] = "new"
    /\ title = "none" /\ messages
    /\ backfill' = [backfill EXCEPT ![b] = "title"]
    /\ UNCHANGED <<entryVars, status, lastError, title, messages, turnVars, cancelled,
                   task, fileVars>>

EndBackfill(b) ==
    /\ backfill[b] = "title"
    /\ backfill' = [backfill EXCEPT ![b] = "done"]
    /\ title' = "auto"
    /\ meta' = Manifest(status, lastError, "auto", valid)
    /\ UNCHANGED <<entryVars, status, lastError, messages, turnVars, cancelled, task, log>>

----------------------------------------------------------------------------
(* The process stops, perhaps in the middle of a persist, and the next one *)
(* has run restore_sessions.  Tasks end with the process.                  *)

Stop ==
    /\ created
    /\ crashes < MaxCrashes
    /\ crashes' = crashes + 1
    /\ lock' = NoTurn /\ active' = NoTurn /\ activity' = "none"
    /\ cancelled' = {}
    /\ task' = [t \in Turns |-> IF task[t] = "new" \/ task[t] \in Finished
                                THEN task[t] ELSE "failed"]
    /\ backfill' = [b \in Backfills |-> IF backfill[b] = "title" THEN "done"
                                        ELSE backfill[b]]
    /\ UNCHANGED <<created, deleted, steps>>

(* Mutation of RestoreManifest: an interrupted turn goes on being shown. *)
RestoreManifestAsItIs ==
    /\ Stop
    /\ meta \in Manifests
    /\ meta.valid
    /\ status' = meta.status
    /\ lastError' = meta.error
    /\ title' = meta.title /\ valid' = TRUE
    /\ messages' = (log = "full")
    /\ listed' = TRUE
    /\ UNCHANGED fileVars

(* _restore_from_manifest, then detail() reconciles and saves.             *)
RestoreManifest ==
    /\ Stop
    /\ meta \in Manifests
    /\ meta.valid
    /\ LET interrupted == meta.status = "running" IN
       /\ status' = IF interrupted THEN "error" ELSE meta.status
       /\ lastError' = (meta.error \/ interrupted)
    /\ title' = meta.title /\ valid' = TRUE
    /\ meta' = Manifest(status', lastError', title', TRUE)
    /\ messages' = (log = "full")
    /\ listed' = TRUE
    /\ UNCHANGED log

(* ChatSession.create raises, nothing catches that, the server is down.    *)
RestoreRaises ==
    /\ Stop
    /\ meta \in Manifests
    /\ ~meta.valid
    /\ listed' = FALSE
    /\ UNCHANGED <<status, lastError, title, valid, messages, fileVars>>

(* Somebody was saving the session when the process stopped.               *)
MayBeSaving == listed \/ lock # NoTurn \/ \E b \in Backfills : backfill[b] = "title"

(* _restore_from_legacy_log: default settings, a made-up title.            *)
RestoreLog ==
    /\ Stop
    /\ meta \notin Manifests \/ MayBeSaving
    /\ log # "none"
    /\ status' = "idle" /\ lastError' = FALSE /\ title' = "auto" /\ valid' = TRUE
    /\ meta' = Manifest("idle", FALSE, "auto", TRUE)
    /\ messages' = (log = "full")
    /\ listed' = TRUE
    /\ UNCHANGED log

(* Nothing can be restored from.                                           *)
RestoreNothing ==
    /\ Stop
    /\ meta \notin Manifests \/ MayBeSaving
    /\ log = "none"
    /\ meta' = IF meta \in Manifests THEN Torn ELSE meta
    /\ listed' = FALSE
    /\ UNCHANGED <<status, lastError, title, valid, messages, log>>

Restart == RestoreManifest \/ RestoreRaises \/ RestoreLog \/ RestoreNothing

----------------------------------------------------------------------------
Init ==
    /\ created = FALSE /\ listed = FALSE /\ deleted = FALSE
    /\ status = "idle" /\ lastError = FALSE
    /\ title = "none" /\ valid = TRUE
    /\ messages = FALSE
    /\ lock = NoTurn /\ active = NoTurn /\ activity = "none"
    /\ cancelled = {}
    /\ task = [t \in Turns |-> "new"]
    /\ steps = [t \in Turns |-> 0]
    /\ backfill = [b \in Backfills |-> "new"]
    /\ meta = Absent /\ log = "none"
    /\ crashes = 0

Request ==
    \/ CreateSession \/ Read \/ ReadMessages \/ DeleteMessages \/ DeleteSession
    \/ Reconfigure \/ ReconfigureRejected
    \/ \E t \in Turns : Dispatch(t)
    \/ \E b \in Backfills : BeginBackfill(b)

BeginOrRefuse(t) == RefuseTurn(t) \/ \E uploads \in BOOLEAN : BeginTurn(t, uploads)
AgentMove(t) == AgentStep(t) \/ AnswerTitled(t) \/ AwaitTitle(t) \/ AgentFails(t)
TurnStep(t) ==
    \/ AttachmentsSaved(t) \/ AttachmentsFail(t)
    \/ TitleGenerated(t) \/ CancelDelivered(t)

Next ==
    \/ Request \/ TimePasses \/ Restart
    \/ \E t \in Turns : BeginOrRefuse(t) \/ AgentMove(t) \/ TurnStep(t)
    \/ \E b \in Backfills : EndBackfill(b)

Spec == Init /\ [][Next]_vars

(* The loop runs what is ready: a task that has been created begins, an    *)
(* upload is read, the title service answers or times out, a cancellation  *)
(* reaches its task.  The clock runs and the web UI polls the session.     *)
(* Nothing is said of the agent, which may hang for ever.                  *)
FairSpec ==
    /\ Spec
    /\ WF_vars(Read) /\ WF_vars(TimePasses)
    /\ \A t \in Turns : /\ WF_vars(TurnStep(t))
                        /\ WF_vars(task[t] = "accepted" /\ BeginOrRefuse(t))
    /\ \A b \in Backfills : WF_vars(EndBackfill(b))

----------------------------------------------------------------------------
(* Properties. *)

(* Every variable holds a value of the kind the code puts there.           *)
TypeOK ==
    /\ {created, listed, deleted, valid, lastError, messages} \subseteq BOOLEAN
    /\ status \in Statuses
    /\ title \in Titles
    /\ lock \in Turns \cup {NoTurn} /\ active \in Turns \cup {NoTurn}
    /\ activity \in {"none", "recent", "old"}
    /\ cancelled \subseteq Turns
    /\ task \in [Turns -> {"new", "accepted"} \cup InTurn \cup Finished]
    /\ steps \in [Turns -> 0..MaxSteps]
    /\ backfill \in [Backfills -> {"new", "title", "done"}]
    /\ meta \in Manifests \cup {Absent, Torn}
    /\ log \in Logs
    /\ crashes \in 0..MaxCrashes

(* ask_message does not wait for the lock, it looks whether it is taken.   *)
(* Still no two turns are between their first and last step together, not  *)
(* even while one that has been given up on has not noticed, and only the  *)
(* turn that holds the lock can be hit by the cancellation of that turn.   *)
OneTurnAtATime ==
    /\ \A t \in Turns : task[t] \in InTurn <=> lock = t
    /\ cancelled \subseteq {lock}

(* While a turn is executing the session shows it, and shows it as failed  *)
(* from the moment its cancellation was decided, in memory as on disk.     *)
TurnInFlightIsShown ==
    \A t \in Turns : lock = t =>
        /\ status = IF t \in cancelled THEN "error" ELSE "running"
        /\ meta \in Manifests => meta.status = status

(* The manifest of a session that can be reached is never behind what the  *)
(* session shows, so a restart loses neither a failure nor, but for those  *)
(* of an update that was rejected half way, a title or a setting.          *)
ManifestIsCurrent ==
    listed => /\ meta \in Manifests
              /\ meta.status = status /\ meta.error = lastError
              /\ valid => meta.title = title /\ meta.valid

(* A session shown as running has the handle of a task that is executing   *)
(* or died in _save_attachments; a restart leaves none without.            *)
RunningHasTask ==
    listed /\ status = "running" =>
        active # NoTurn /\ task[active] \in InTurn \cup {"failed"}

(* A session gets into the error state without a text to show only by an   *)
(* exception that has no text: stale, cancelled and interrupted turns are  *)
(* always explained.                                                       *)
ErrorsAreExplained ==
    [][(status' = "error" /\ ~lastError') => \/ status = "error" /\ ~lastError
                                             \/ \E t \in Turns : AgentFails(t)]_vars

(* "So that the front end does not show it as running for ever": even if   *)
(* the agent hangs, a session that is polled stops to be shown as running. *)
ShownRunEnds ==
    listed /\ status = "running" ~> status # "running" \/ ~listed

(* A turn that was accepted or has begun is answered, fails or is refused, *)
(* and frees the session for the next, unless the session is deleted.      *)
TurnSettles ==
    \A t \in Turns : task[t] \in {"accepted"} \cup InTurn ~> task[t] \in Finished \/ ~listed

----------------------------------------------------------------------------
(* Statements of the repository that the code does not keep. *)

(* tests/test_session_runtime.py:104: a deleted session "wont_restore".    *)
DeletedStaysDeleted == deleted => ~listed

(* backfill_missing_titles (service.py:125) "fills in titles for sessions  *)
(* without one": a title the user has set is changed by the user only.     *)
UserTitleKept ==
    [][title = "user" /\ title' # "user" => Reconfigure \/ ReconfigureRejected]_vars

(* restore_sessions (service.py:84) "restores the past sessions": one that *)
(* is listed and has a manifest that can be read is there after a restart. *)
RestartKeepsSession ==
    [][crashes' # crashes /\ listed /\ meta' \in Manifests => listed']_vars
=============================================================================
