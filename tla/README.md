# TLA+ models of the Motus Agent Workbench

The repository is a workbench for chat agents: a Python backend (`core/`, FastAPI,
one asyncio loop and a few threads) and a React front end (`web/src`). The models in
this directory describe the parts of it in which several activities share state,
fail half way, or survive a restart. Every definition is a translation of the code;
`PROJECT.json` names, for each one, the lines it translates.

    tlasany M.tla                            parse
    tlc -workers 2 -config X.cfg M           model-check (module and cfg of a run: PROJECT.json)
    tlapm M.tla                              check the proofs of M

## Inventory of the system

| Component | State it keeps | Operations | Talks to | What is hard | What makes it correct |
|---|---|---|---|---|---|
| Workflow runs, `core/workflows` | `_runs`: a record per run (detail, `control_mode`, thread), `run.json` per run | start, execute with retries and timeout, cancel, terminate, restore | the REST routes; one worker thread per run, and a pool thread when a timeout is set; user code | two threads write the same fields and the same file without a lock; timeouts; restarts | stops are final, attempts stay within the budget, a run that ends is shown as ended, manifests never say more than the run does |
| Local chat sessions, `core/chat`, `core/backends/local.py`, `core/memory` | `_sessions`; per session status, title, error, lock, turn task, activity clock; `meta.json` and a conversation log | create, read, update, delete, delete messages, ask, stream, dispatch, title backfill, restore | REST and SSE routes, the motus agent, the title service, the web UI's polling | tasks interleave at every await; a hanging agent; cancellation; deletion under a turn; restarts in the middle of a turn | one turn at a time, what is shown is what executes, what is saved is what is shown, nothing is shown as running for ever |
| Session routes, `core/servers/api_routes/sessions.py` | a queue per streamed turn | map requests to the backend; turn events into SSE | backends, browser | order of the last events of a turn, disconnected clients | every event once and in order, `done` last |
| HITL store and server, `core/servers/hitl*.py` | sessions with status, interrupts, pending messages; files per session | enqueue a message, run turns in worker processes, resume an interrupt, sweep expired sessions, restore | external motus `Session` and `AgentServer`, HITL backend | the sweep against a running turn; a message accepted while its task does not exist yet; restart with an open interrupt | an interrupt is answered once; a message is neither lost nor executed twice |
| HITL backend, `core/backends/hitl.py` | none of its own but title and configuration caches | every session operation, as several HTTP requests | HITL server | a request that fails between two others | a failed operation leaves either the old or the new session |
| Preview terminals, `core/preview/service.py` | `_terminal_sessions`; a process, a pty and a pump task per run; `run.json` | run, poll, input, resize, terminate, resume after a restart | REST routes, child processes, reader threads | two polls resume the same run; a pump that ends for another's entry | a run that is shown as running has a live process behind it |
| Terminal screen, `core/preview/terminal.py` | lines, cursor, escape buffer | feed, resize, render | the pump | the cursor after the last column | the cursor stays where it may be used |
| Composer, `web/src/features/chat/hooks/useChatComposerController.ts` | text, attachments, the lock `isStreaming`, up to two queued messages, interrupt cards | write, attach, queue, send, drain, answer an interrupt, delete messages | session API, chat page | requests are closures that outlive the page they were started on; an await between taking a message off the queue and putting it back | one request at a time, the queue keeps its order and drains, answers go to the session that asked, nothing that failed is sent again by itself |
| Chat page, `useChatPageController.ts`, `useChatPageQueries.ts`, `storage.ts` | the URL, cached lists, step groups in memory and in `localStorage`, the deletion dialog | select, compose, delete, poll, store the groups | composer, session API, other clients | a turn that ends after its page was left; sessions deleted by others | stored groups belong to their session, the page leaves a session that is gone |
| Messages, `chatTurns.ts`, `messageGroups.ts`, `toolMessageGrouping.ts`, `StepGroupCard.tsx`, `ToolMessageGroup.tsx`, `MessageBubble.tsx` | the cached list of messages | add what a stream ends with, read again, group into cards, delete | session API | a deletion names messages by their place in a list that may be behind | a deletion removes what its card showed, every message can be deleted |
| Session configuration, `useChatSessionState.ts`, `web/src/features/sessions` | the draft of a new session, the form of the one shown, cached details | edit, preset, save, create, poll | session API, tool catalog | a form filled from one answer and saved after others; the catalog arrives late | a save changes what the user touched, a payload is complete |
| Preview pane, `usePreviewController.ts`, `web/src/features/previews` | run shown, calls in flight, queue of typed input, stored preview per session | run, poll, type, stop, restore, close | preview routes | late answers of an older run; typed input that waits | a running terminal can be reached, input goes where it was typed and in order, an end is shown |
| Workflow page, `web/src/features/workflows` | run shown, definition, input per definition, plan, cached details | select, plan, start, control, poll | workflow routes | late answers of plans, controls and polls | a definition starts with its own input, the end of a run is shown |
| Usage ledgers, `core/agents/multi_agent.py`, `core/llm/costs.py` | counters per specialist | snapshot, call, difference | agents | overlapping calls of the same specialist | what is charged is what was used |
| Event stream client, `web/src/shared/stream/sse.ts` | text buffer | split into events | session routes | chunk borders, lost connections, refused requests | each event once and in order, all of them unless the connection is lost |
| Workflow registry, planner | table of definitions | look up, one LLM call | workflow runs | nothing | - |
| Title service, tool summaries | memo | one LLM call with a deadline | chat sessions | the await (part of `ChatSession`) | - |
| Tracing, guardrails, visualization, runtime catalog | files on the side, or none | export, filter, describe | chat sessions, routes | nothing that other components read | - |
| Agent factory, LLM client, sandbox, tools | none | build external motus objects | chat sessions | configuration that is rejected (part of `ChatSession`) | - |
| Terminal UI, the other views of the web UI, skills, scripts, apps | view state | rendering, fetching | routes | - | - |

The hazards found while reading, each at its line, are listed in `PROJECT.json` with
the properties that would catch them.

## Modules

    RetryBudget            what user code may expect: attempts within a budget
      ^ implemented by
    WorkflowRun            threads, runner, files and restarts of workflow runs
      MCWorkflowRun          instance for TLC
      WorkflowRunProofs      theorems
    ChatSession            one conversation: requests, turns, backfills, restarts
      MCChatSession          instance for TLC
      ChatSessionProofs      theorems
    EventChannel           what the page may expect of the stream of a turn
      ^ implemented by
    EventStream            queue, response, text, connection and reader of one stream
      MCSessionStream        instance for TLC of a session and of a stream
      EventStreamProofs      theorems
    PreviewTerminal        one terminal preview: launches, pump, requests, restarts
      MCPreviewTerminal      instance for TLC
      PreviewTerminalProofs  theorems
    ChatComposer           the composer: queue, requests, interrupt cards
      MCChatComposer         instance for TLC
      ChatComposerProofs     theorems
    Pages                  sessions and routes, shared by the pages below
      ChatPage               the URL, the lists, deletion, step groups
      SessionConfig          draft, form, saves of a configuration
        ConfigDraft            what a configuration is and how it is edited (operators)
      PreviewPane            the preview dock and its calls
        PreviewPaneProofs      theorems
    ChatTimeline           messages, cards, deletion of messages
      ChatTimelineProofs     theorems, and lemmas about induction and folds
    WorkflowPage           definitions, plans, inputs, runs
    PageProofs             theorems about ChatPage, WorkflowPage and SessionConfig
    MCWebPanels            instance for TLC of ChatPage, SessionConfig, PreviewPane,
                           ChatTimeline and WorkflowPage

### WorkflowRun

The API thread executes `_start_run`, `cancel_run`, `terminate_run` (no await inside,
so they exclude each other); each run has a worker thread in `_execute_run_sync`. A
step is one assignment to a shared field, one check, or one of the three parts of
`persist_workflow_run`: serialise, truncate, write. Two threads may be between these
parts of the same file at once, and a shorter text written over a longer one leaves a
tail (`Garbled`).

| Model | Code |
|---|---|
| `status`, `attempts`, `output`, `error` | fields of `WorkflowRunDetail`; output and error only as present or not, and by origin |
| `control` | `WorkflowRunRecord.control_mode` |
| `registered`, `disk` | `_runs`, the `run.json` files |
| `pc`, `resume`, `buffer`, `target`, `mode`, `toRestore` | where each thread stands and its local variables |
| `executing` | runs whose `definition.runner` is executing, also after the timeout |
| `StartRun`, `SpawnWorker`, `MarkRunning` | `_start_run`, before and after `thread.start()` |
| `RequestControl`, `SetControl`, `SetControlStatus`, `SetReason` | `cancel_run` and `terminate_run` |
| `WorkerEntry` ... `SetException` | `_execute_run_sync` |
| `CallRunner`, `RunnerEnds`, `TimerFires`, `ExecutorShutdown` | `_execute_once_with_runtime`, with the exit of its executor |
| `Crash`, `RestoreEnded`, `RestoreInterrupted`, `SkipManifest`, `EndRestore` | `restore_runs` in the next process, which may die as well |

Assumed: `persist_workflow_run` does not fail for want of space or permission; a
runner returns or raises an `Exception`, if it ends at all. Payloads and the fields the
planner fills are left out.

### ChatSession

One session. Everything runs on one event loop, so a step is the code between two
awaits. `status`, `lastError`, `title`, `messages`, `lock`, `active` and `activity` are
the fields of `ChatSession`; `valid` says whether `create_react_agent` accepts the rest
of `config`; `task` and `backfill` say where each task is waiting; `cancelled` holds the
tasks whose cancellation is under way; `meta` and `log` are the two files.
`_reconcile_runtime_state`, with which most requests begin or end, is `Orphaned`,
`Overdue` and the `Seen...` operators; a request's action is the whole handler, with
the reconciliation and the save at its end.

Left out or assumed: usage and cost; the content of messages (the log has none, a
header, or messages); other sessions, which share nothing with this one but the limit
of a backfill round; a deletion interrupted between its two files; errors of the file
system. The log is rewritten atomically, `meta.json` is not (`Torn`). The memory of the
agent is external: of type `compact` it appends to the log as the turn goes on, of type
`basic` the turn writes the log at its end; both are allowed at every step (`Remember`).
The agent may hang, but does not swallow a cancellation. The title service times out
after 12 seconds and falls back on a title of its own.

### EventStream

The stream of one turn from the queue the turn puts its events into to the page:
`runner` is the task, `generator` the place of `event_stream` between its yields, `wire`
the text on its way, `buffer` what `streamSseRequest` has not split yet. The text of an
event is four pieces and a chunk may end after any of them; the connection may be lost at
any time, with an error or looking like the end of the text, and takes some of the text
with it, but not the turn. `EventChannel` is what the page may rely on: events in order and
once, and a request that resolves over a connection that was not lost has brought all of
them, `done` last. A name without a schema (`session.resumed`) is left out on purpose, so
the promise is about the other events.

`MCSessionStream` puts the two modules into one run: as a turn may put any events at any
time, the stream needs nothing of the session but the end of the task, and each of the two
is explored by itself (`part`).

### PreviewTerminal

One terminal run. `entry` is what `_terminal_sessions` holds for its key; a terminal
object (`phase`, `shown`, `proc`, ...) is a launch with its response, process and pump
task, and outlives its entry as long as the pump or a request refers to it. A request
has a slot (`stage`, `held`) while it waits: for `create_subprocess_exec`, for the 60 ms
of an input, for the exit or the pump of a program it terminates. Requests without an
await are single steps. A request that finds no entry answers through `get_run`, which
starts the program of a run again if its manifest says running.

Left out or assumed: previews that build an artifact (html, react, plain python) have no
state after their answer; the snapshot of the request stays readable, so a resumption
finds its code; saving does not fail; a program leaves no descendant behind that keeps
the terminal open once it has exited; handlers are not cancelled. The screen may raise
on any output (`PumpStops`), as `core/preview/terminal.py` does for some sequences.

### The web UI

A step of these modules is one event of the browser with the render and the effects that
follow it: a click, the answer of a request, a line of a stream, a tick of a poll. A
request is a closure; what it read when it was started is a field of its record, and what
it writes when it ends goes to what the page shows by then. The server may answer
anything its contract allows, late and in any order, or not at all.

| Module | State and its code | Operations |
|---|---|---|
| `ChatComposer` | `route`, `streaming`, `pending`, `queue`, `paused`, `draining`, `composer`, `atts`: the state and the refs of `useChatComposerController`; `cache`: interrupts in cached details; `ops`: requests in flight with the session and the message they hold | `HandleQueueMessage`, `HandleSendMessage`, `DrainQueuedMessage` (the effect), `HandleResolveInterrupt`; `SendEvent`, `ResumeEvent`, `StreamEnds`, `SendFails`, `ResumeFails` (`finally` and `catch` blocks); polls, deletion, going elsewhere |
| `ChatPage` | `url`, `listed`, `missing`, `remembered`: the route, the queries and `LAST_SESSION_KEY`; `groups`, `unsaved`, `saved`: `stepGroupsRef`, `pendingPersistRef`, `localStorage`; `asked`, `removing`: the dialog | selecting, composing, `ListSessions`, `GetSessionDetail`, `LeaveMissingSession`, turns filing their groups, `SaveStepGroups` (the timer), both deletions |
| `ChatTimeline` | `history`: the messages of the server; `sessionMessages`: the cached list; `fetched`: answers under way; `removal`: the deletion in flight | turns and what the stream adds, reading the list again, the grouping into cards (`Shown`) and the places their delete buttons name |
| `ConfigDraft`, `SessionConfig` | `draft`, `form`, `detail`, `saves`, `creating`, `catalog`; a field of a configuration is abstracted to the values its checks tell apart | every editor of the panel as an operator on drafts, presets, `BuildSessionPayload`, saving, creating, polls, changes by other clients |
| `PreviewPane` | `request`, `result`, `running`, `polling`, `inputQueue`, `sending`, `stored`: state and refs of `usePreviewController`; `calls`: requests in flight; `runs`: the server's | running code, restoring, polling, typing and flushing, stopping, closing, other pages |
| `WorkflowPage` | `shownRun`, `manual`, `latestPlan`, `inputDrafts`, `runtimeDraft`, `details`; `fetching`, `posts`: requests in flight | selecting, editing, planning, starting, controlling, polling, and the answers of each |

These parts meet in the routes only, which each of them changes freely, so they are
checked side by side and not in a product: `MCWebPanels` chooses a `panel` in the initial
state and takes steps of that module alone.

**History variables.** The code does not keep some of these properties in every order of
events, and says nowhere that it does. What it does keep is stated with the exception as a
history variable of its own, which names it exactly: `twin` (a request was started while
another was in flight, which the lock does not prevent while its session is being created), `strayed` (a turn
ended while the page showed another session), `awaited` and `hasty` (a deletion asked for
between the end of a turn or of a deletion and the arrival of the list), `crossed` (an
answer about a terminal was lost or came after the pane moved on), `mixed` (the run shown
changed while typed input waited), `unpolled` (a poll failed). Each of them is a sequence
of events the model contains, and a reader should take it as a limit of what the code
promises.

Left out or assumed: texts, formats and drawing; telemetry; the step group shown while a
turn goes on; the answers typed into an interrupt card; a compaction of the history by the agent's memory, and other clients that write or
delete messages of the session shown; a second browser tab.

## Runs

| Run | Instance | What it shows |
|---|---|---|
| `WorkflowRun` | one run with a timeout, one retry, two crashes | the safety properties, the refinement of `RetryBudget`, and that stopped and started runs settle |
| `WorkflowRunGhost`, `WorkflowRunManifest`, `WorkflowRunTimeout` | one run, no retry, no crash | three statements of the repository the code does not keep |
| `ChatSession` | a dispatched and a streamed turn, one backfill, one step of the agent, one restart; beside it a stream with two events of its turn and up to two of the response | the safety properties, that turns settle and are not shown for ever, that events arrive in order (the refinement of `EventChannel`) and streams complete |
| `ChatSessionDeleted`, `ChatSessionTitle`, `ChatSessionRestart` | one turn, at most one restart, a backfill for the second | three more statements |
| `PreviewTerminal` | two requests at a time, two terminals in use, one restart | the safety properties, that exits are shown and terminations answered |
| `PreviewTerminalTwice` | the same | one more statement |
| `ChatComposer` | two sessions, one of them new, one card and one file each, a queue of two, three queued messages and three requests, two of them at a time | the lock, the order of the queue, where answers go, that failed messages wait and the queue drains |
| `WebPanels` | two sessions, one of them new where the page creates sessions; three messages; one edit and one save, one change by others; two runs, two calls and four acts of the preview; two workflows with two runs, two requests and two uses | the safety properties of the six modules, and that the pages catch up |

**Why the bounds are enough.** Runs do not share state other than the API thread, which
serves one request at a time, so one run shows every race on its fields; with a timeout
it also takes the path without one, as the timer need not fire first. One retry gives
the three cases first, middle and last attempt, with `attempts` at the limit; two crashes let
the second one hit the restoration of the first. In a session a turn races one other
turn at a time (the lock refuses the rest); the two turns of the instance differ in the
one thing a turn's code looks at, whether somebody streams it. One backfill is enough to
race a turn, a request and a deletion. Two requests and two terminals are what it takes
for one launch to replace another; terminals that are over are used again, so the number
of launches is not bounded. Two events and the two of the response give a stream a first,
a middle and a last frame, one that is left out, and chunks with several. In the composer a queue of two is that of the code, and a
third message is what fills it while a drained one is on its way; two sessions are the one
a request was started for and the one shown when it ends. In the other panels two of a
kind are again the old one and the new one: an answer about the first arrives when the
second is shown. The lists of a configuration are edited item by item with code that does
not look at the neighbours, so one item is enough; one save meets one change by others.

**Fairness.** `WorkflowRun!FairSpec` lets the operating system schedule threads and
timers expire, and says nothing about the runner, which is user code. `LiveSpec` adds
that the runner ends. `ChatSession!FairSpec` assumes that the loop runs what is ready,
that the clock runs and that the web UI polls the session
(`web/src/features/chat/hooks/useChatPageQueries.ts:51` and `:91`); the agent has no
fairness at all. `MCSessionStream!PartsFairness` is that and `StreamFairness`, each for its own part. `StreamFairness` lets the task of a streamed turn end (which is what
`TurnSettles` shows of it), the response run and the browser read. `PreviewTerminal!FairSpec` assumes that the loop and the child watcher
run, that SIGKILL ends a program and that the terminal of an ended program reports its
end; a program may otherwise run for ever and ignore SIGTERM. `ChatComposer!Fairness` lets the effect that drains the queue run and
every request end (the server closes its streams, the browser reports a lost connection);
it says nothing about the user. `PanelsFairness` gives the polls of the pages
(`refetchInterval`, `setTimeout`) and the effects that follow their answers weak fairness
(a disjunction of steps of different panels stands for one of each, as no behaviour has
both), and nothing else: no answer to what the user asked for need ever come. `CHECK_DEADLOCK FALSE` is set because these systems may
stop: every run has ended, every turn is over, the bounds on crashes or on what a user does are
used up.

**Properties.** Of a workflow run: `CompletedHasOutput`, `AtMostOneLateStart`,
`ControlledRunEnds`, `ControlIsFinal`, `RestoredRunsEnded`, `FailureIsExplained`,
`RunsWithinBudget` (the refinement), `StoppedWorkerLeaves`, `StartedRunSettles`. Of a
session: `OneTurnAtATime`, `TurnInFlightIsShown`, `ManifestIsCurrent`,
`RunningHasTask`, `ErrorsAreExplained`, `ShownRunEnds`, `TurnSettles`; of the stream of a
turn `EventsArriveInOrder` (a refinement, too) and `StreamCompletes`. The comment over
each says what it means and which code it is about.

Of a preview: `EntryIsLive`, `LiveRunIsReachable`, `EndedStaysEnded`, `ExitIsShown`,
`TerminateSettles`. Two of them hold unless resumptions have overlapped: the history
variable `overlapped` says that a launch began while another was under way, which is
the condition of the violation below and of nothing else.

Of the composer: `StreamingIsExclusive`, `QueueInOrder`, `AnswersGoHome`,
`HeldMessageWaits`, `QueueDrains`. Of the other parts of the web UI: `SavedGroupsAreOwn`,
`DeadPageLeaves` (chat page), `DeletesWhatWasShown` (messages), `PayloadsAreSound`,
`SaveChangesOnlyEdits`, `CatalogKeepsChoice` (configuration), `TerminalIsKept`,
`InputInOrder`, `PreviewCatchesUp` (preview), `InputsAreOwn`, `DetailCatchesUp` (workflow
page).

### What the violations show

- `NeverRunningForever`: `_start_run` sets `running` after it has started the worker. A
  worker that finishes first is overwritten, and nothing writes the status again.
- `ManifestIsRestorable`: the API thread and the worker save the same run without a
  lock; the file can be left with the end of another text.
- `TimeoutEndsAttempt`: the timeout is raised inside the executor's `with`, whose exit
  waits for the runner. A runner that hangs is never reported.
- `DeletedStaysDeleted`: a turn that ends after the deletion of its session saves it
  again; the next restart loads it.
- `UserTitleKept`: a title set while a generated one is on its way is overwritten.
- `RestartKeepsSession`: an update that is rejected leaves its settings in `config`; a
  later save writes them, and the restart cannot build the agent.
- `ResumedRunIsReachable`: two requests after a restart both start the program of a run;
  the entry of the second replaces that of the first, which nobody can write to or
  terminate any more.

## Proofs

**`WorkflowRunProofs`** proves, for any set of runs, any number of retries and crashes,
from the three named assumptions on the constants of `WorkflowRun`: `TypeCorrect`,
`CompletionCarriesOutput`, `LateStartsBounded`, `ControlledRunsEnd`, `ControlsAreFinal`,
`RestoredRunsAreOver`, `FailuresExplained` and `Refinement`. They all follow from one inductive invariant, `IInv` (`Invariance`).
The checked properties are not inductive by themselves. `CompletedHasOutput` speaks of
fields and files, so the text a thread is about to write (`buffer`) has to satisfy it
too, and a worker at the label that writes `completed` must have stored the output.
`AtMostOneLateStart` needs that a worker which has started its runner late stays
controlled and never gets between the check of an attempt and its call again.
`RestoredRunsEnded` needs that the caller who marks a run as running has started its
worker (`Ended`), and `FailureIsExplained` that a run shown as failed has a worker that
has left its loop, so that nothing clears the message again (`Explained`). The
refinement needs that the runner executes exactly while its worker waits for it, that it
was started less often than attempts are recorded whenever a start is about to come, and
that a worker at the head of the loop has budget left.

**`ChatSessionProofs`** proves, for any number of turns, backfills, steps and restarts:
`TypeCorrect`, `TurnsExclude`, `TurnsAreShown`, `ManifestsAreCurrent`,
`RunningSessionsHaveTasks`, `ErrorsExplained`. The inductive invariant adds to the
checked ones that the holder of the lock is the turn whose handle the session has
(`HolderIsActive`), that any manifest that can be read agrees with the session object,
also while a turn of a deleted session goes on (`SavedState`), and that nothing happens before
the session has been created (`Untouched`).

**`PreviewTerminalProofs`** proves, for any number of concurrent requests, terminals and
restarts: `TypeCorrect`, `EntriesAreLive`, `LiveRunsAreReachable`, `OutcomesAreFinal`.
The inductive invariant adds what a request holds across its await (`Holding`: a launch
belongs to one request), that nothing refers to a run before its answer (`Creating`),
that a terminal is shown as running until its pump ends (`ShownRunning`), and that a run
that is over has no launch and no pump left and the response of its terminal on disk
(`Final`).

**`ChatComposerProofs`** proves, for any number of sessions, cards, files, messages and
requests and any limit of the queue: `TypeCorrect`, `LockIsExclusive`, `QueueKeepsOrder`,
`AnswersAreHome`, `NoRetryByItself`. The inductive invariant says who may hold the lock
(`Locked`), that cards are those of the session shown or of the request that brought them
(`CardsAtHome`), that a queue held back by a failure is paused until the user acts
(`Waiting`), and that a message being drained comes before all that are queued (`Ordered`),
without which putting it back would not keep the order. Its lemmas say what appending,
taking, removing and putting back do to a sequence without repetitions.

**`PageProofs`** is about three modules. *Chat page*: `StoredGroupsAreOwn` for any set of
sessions; the invariant adds that the groups in memory and those waiting for the timer
belong to the page shown (`GroupsAreOwn`). *Workflow page*: `StartsOwnInputs` for any set
of workflows and any number of runs, requests and uses; the invariant adds that a request
in flight knows a run that exists or the workflow it is about (`RequestsKnowTheirs`), as
its answer writes there without asking again. *Configuration*: `SavedPayloadsAreSound`,
`SavesKeepTheRest`, `ChoiceIsKept` and `ConfigTypeCorrect` for any sessions, edits, saves
and changes by others. A configuration travels from the server to the cache, from there
to the form, into a save and back. The invariant (`ConfigInvariant`) says of every copy
that its version is not ahead of the server's, and that a copy of the server's version
differs from the server's values only in the fields the user touched. The lemmas are about
the editors: each leaves a draft a draft and changes the field it edits, and a
configuration that went through form and payload without an edit is the one it was.

**`PreviewPaneProofs`** proves `TerminalKept`, `InputKeepsOrder` and `PreviewTypeCorrect`
for any sessions, runs, calls and typed texts. The invariant (`PaneInvariant`) has three
parts: which calls may be about which run, and what each of them may find there; that a
terminal that runs is shown, stored or about to be, as long as nothing was `crossed`; and
that, as long as nothing was `mixed`, the texts in the call under way and those in the
queue after it are of the run shown, in order and newer than what was delivered, with
one call at a time.

**`ChatTimelineProofs`** proves `DeletionsAreMeant` and `TimelineTypeCorrect` for histories
of any length. The first half says that the grouping loses nothing: every message of a
list is in one turn at the place of its kind (`buildTurns`), the tools of a turn are all in
its batches (`batchToolMessages`), and every card names its messages on a button. The
second half is the invariant (`TimelineInvariant`): a list the page shows, or an answer on
its way, is what the history begins with unless the page is waiting for a newer one, and
a deletion confirmed meanwhile is `hasty`.

**`EventStreamProofs`** proves for any number of events that `EventStream` implements
`EventChannel` (`StreamIsChannel`). The invariant (`StreamInvariant`) is one sentence about
two histories and the text between them: what has arrived is the events with a schema
among the first *c* emitted, and the text that is buffered and under way is the beginning
of the text of the events after them, all of it, up to those in the queue, while the
connection is up (`Delivery`). Its lemmas say that a text of events cut anywhere has its
empty lines after every fourth piece, so the frames of a chunk are whole events
(`FramesOfText`), what is left is the beginning of the next (`PieceRead`), a frame
that misses its end is read as the event it is (`WholeFrame`) or, without its data, as
none (`CutFrame`). Each step is then a step of the channel or none: an event with a schema
is sent, a chunk or the end of the text receives, a lost connection breaks, and the page
resolves only when everything has arrived and `done` was the last.

The last two modules rest on induction over sequences. The induction theorems of the
library take a formula as a parameter, which no installed prover instantiates; but a *set*
can be instantiated. `SetInduction` follows from the order of the natural numbers being
well founded (`NatLessThanWellFounded` and `WFMin` of the library), and from it that a
fold over a sequence (`FoldLeft`) exists and is what the recursion over its prefixes
computes (`FoldExists`, `FoldIsRecursion`).

Assumptions are the named ones on the constants, no others, and TLC evaluates each of them
in a run.

**Only model-checked**: the liveness properties, `StoppedWorkerLeaves`,
`StartedRunSettles`, `ShownRunEnds`, `TurnSettles`, `StreamCompletes`, `ExitIsShown`,
`TerminateSettles`, `QueueDrains`, `DeadPageLeaves`, `PreviewCatchesUp` and
`DetailCatchesUp`: the proof system does not handle liveness under fairness. Every safety
property and every refinement that a passing run checks is proved. The type invariants of
all modules are proved; only `WorkflowRun` has its own in a run.

## Not modelled, and why

- Registry, planner, guardrails, visualization, tracing and the runtime catalog keep no
  state that another component reads. Usage ledgers and telemetry are counters for display.
- The agent factory, LLM client, tools and sandbox configure external software; whether
  a configuration is accepted is in `ChatSession`.
- The HITL store and server run inside the motus `Session` and `AgentServer`, which the
  repository only calls, and the HITL backend is HTTP requests to them. A model of them
  would state what motus does, for which there is no code here. The web UI is checked
  against a server that may answer anything, so its properties hold with that backend too.
- The terminal screen is a sequential interpreter of escape sequences; that it may raise is
  in `PreviewTerminal`.
- Views: markdown, charts, tracing panes, layout, the terminal UI. They show what the
  modelled state says.

The hazards of these parts that the reading found are in `PROJECT.json`, with the reason
why no property covers them.

## Plan

What is left, in this order:

1. The relation of `ChatSession` to an abstract session that takes one turn at a time, as
   a refinement, checked and proved.
2. The log of a conversation message by message in `ChatSession`, for the hazard of a
   crash between an answer and its log.
3. The steps of the liveness arguments that are safety: for each of them the lemma that
   the waiting state is left only towards its goal, and that the step which is to happen
   stays possible in it.
