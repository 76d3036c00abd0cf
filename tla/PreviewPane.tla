----------------------------- MODULE PreviewPane -----------------------------
(***************************************************************************)
(* The preview of the chat page: the dock with its code editor and its     *)
(* terminal (features/previews) and the controller that runs the code,     *)
(* polls a terminal and sends it what is typed (usePreviewController).     *)
(*                                                                         *)
(* The calls in flight are a set: an answer is written to whatever the     *)
(* pane shows by then.  The run "run" of a call is the one its closure     *)
(* read; "alive" says whether that run was still going then, so that the   *)
(* answer may be older than what the pane shows.  The code is abstracted   *)
(* away: a draft that is run may be the code shown or not.  The backend    *)
(* has previews (the effect for one that has none is left out).            *)
(***************************************************************************)
EXTENDS Pages, Naturals, Sequences, FiniteSets, SequencesExt

CONSTANTS
  MaxRuns,      \* bound: runs ever started
  MaxCalls,     \* bound: calls in flight
  MaxActs       \* bound: what the user does

ASSUME PreviewAssumption ==
  MaxRuns \in Nat /\ MaxCalls \in Nat /\ MaxActs \in Nat

VARIABLES
  place,        \* sessionId of the page
  request,      \* the session of activePreviewRequest, or NoSession
  result,       \* the run of activePreviewResult, or 0
  running,      \* its status: "running"?
  submitting,   \* isSubmittingPreview
  polling,      \* does the polling effect have a timer or a call?
  view,         \* the tab of the dock
  calls,        \* the calls in flight
  inputQueue,   \* previewTerminalInputQueueRef: <<run typed for, number>>
  sending,      \* previewTerminalInputSendingRef
  stored,       \* the stored preview of each session: <<>> or <<session, run>>
  runs,         \* the runs of the server: [session, terminal, alive]
  typed,        \* the number of texts typed
  acts,         \* counter for the bound
  delivered,    \* history: the last text the server got
  misled,       \* history: a text reached another run, or came after a later one
  crossed,      \* history: an answer was lost, or the pane moved on before it came
  unpolled,     \* history: a poll failed
  mixed         \* history: the run shown changed while text was under way

paneVars == <<place, request, result, running, submitting, polling>>
textVars == <<typed, delivered, misled>>
termVars == <<inputQueue, sending, textVars, mixed>>
previewVars == <<paneVars, acts, view, calls, termVars, stored, runs, crossed, unpolled>>

-----------------------------------------------------------------------------
IsTerminal(r) == r # 0 /\ runs[r].terminal
Alive(r) == r # 0 /\ runs[r].alive

Text == (1..MaxRuns) \X (1..MaxActs)
Call == [kind : {"open", "run", "get", "restore", "input", "stop", "drop"},
         session : Routes, run : 0..MaxRuns, alive : BOOLEAN,
         keep : BOOLEAN, other : BOOLEAN, text : Seq(Text)]

NewCall(kind, s, r) == [kind |-> kind, session |-> s, run |-> r, alive |-> Alive(r),
                        keep |-> FALSE, other |-> FALSE, text |-> <<>>]

PreviewTypeOK ==
  /\ place \in Routes /\ request \in Routes
  /\ result \in 0..Len(runs) /\ running \in BOOLEAN
  /\ submitting \in BOOLEAN /\ polling \in BOOLEAN /\ sending \in BOOLEAN
  /\ view \in {"preview", "code"} /\ acts \in 0..MaxActs
  /\ \A c \in calls : c \in Call /\ c.run <= Len(runs)
  /\ inputQueue \in Seq(Text)
  /\ stored \in [Sessions -> {<<>>} \cup (Sessions \X (0..MaxRuns))]
  /\ runs \in Seq([session : Sessions, terminal : BOOLEAN, alive : BOOLEAN])
  /\ Len(runs) <= MaxRuns
  /\ typed \in 0..MaxActs /\ delivered \in 0..typed /\ misled \in BOOLEAN
  /\ crossed \in BOOLEAN /\ mixed \in BOOLEAN /\ unpolled \in BOOLEAN

PreviewInit ==
  /\ place \in Existing /\ request = NoSession
  /\ result = 0 /\ running = FALSE /\ submitting = FALSE /\ polling = FALSE
  /\ view = "preview" /\ acts = 0
  /\ calls = {}
  /\ inputQueue = <<>> /\ sending = FALSE /\ typed = 0 /\ delivered = 0 /\ misled = FALSE
  /\ stored = [s \in Sessions |-> <<>>] /\ runs = <<>>
  /\ crossed = FALSE /\ mixed = FALSE /\ unpolled = FALSE

previewBusy == submitting \/ running

-----------------------------------------------------------------------------
(* The effects that follow a change of the request and the result.         *)

\* The effect that stores the request and the run for the session shown.
SavePreview(st, p, req, res) ==
  IF p # NoSession /\ req = p THEN [st EXCEPT ![p] = <<req, res>>] ELSE st

\* The polling effect starts afresh when the request's session, the run or the status changes.
PollEffect(req, res, run) ==
  polling' = IF req = NoSession \/ res = 0 \/ ~run THEN FALSE
             ELSE polling \/ req # request \/ res # result \/ run # running

\* The run shown changes to res while text waits or is being sent.
Mixes(res) ==
  mixed' = (mixed \/ (res # result /\ (inputQueue # <<>> \/ \E c \in calls : c.kind = "input")))

\* The answer of a call shows run res.
ShowResult(res, run) ==
  /\ result' = res /\ running' = run
  /\ PollEffect(request, res, run)
  /\ stored' = SavePreview(stored, place, request, res)
  /\ Mixes(res)

\* What a call about run c.run may be answered: the status then, or now.
Statuses(c) == {Alive(c.run)} \cup {x \in {TRUE} : c.alive}

\* resetPreviewState.
ResetPreviewState ==
  /\ request' = NoSession /\ result' = 0 /\ running' = FALSE
  /\ submitting' = FALSE /\ polling' = FALSE
  /\ Mixes(0)

-----------------------------------------------------------------------------
(* Running code.                                                           *)

\* The part of executePreviewRequest after the old terminal was stopped, with the effect of
\* the dock: another block shows the preview.
Open(s, keep, other, v, others) ==
  LET res == IF keep THEN result ELSE 0
  IN /\ request' = s /\ result' = res /\ running' = (keep /\ running)
     /\ submitting' = TRUE
     /\ PollEffect(s, res, keep /\ running)
     /\ stored' = SavePreview(stored, place, s, res)
     /\ view' = IF other \/ s # request THEN "preview" ELSE v
     /\ calls' = others \cup {NewCall("run", s, 0)}
     /\ Mixes(res)

(* Mutation of ExecutePreviewRequest: the terminal that runs is left alone. *)
ExecuteLeavesTerminal(s, keep, other, v) ==
  /\ Cardinality(calls) < MaxCalls
  /\ crossed' = (crossed \/ calls # {})
  /\ Open(s, keep, other, v, calls)

\* executePreviewRequest stops the terminal that runs first, which takes a call.
ExecutePreviewRequest(s, keep, other, v) ==
  /\ Cardinality(calls) < MaxCalls
  /\ crossed' = (crossed \/ calls # {})
  /\ IF request # NoSession /\ IsTerminal(result) /\ running
       THEN /\ calls' = calls \cup {[NewCall("open", s, result) EXCEPT !.keep = keep, !.other = other]}
            /\ view' = v
            /\ UNCHANGED <<request, result, running, submitting, polling, stored, mixed>>
       ELSE Open(s, keep, other, v, calls)

\* The run button of a code block is off only while that block runs.
RunDisabled(other) == ~other /\ (request = NoSession \/ previewBusy)

\* A code block of the page is run: the one of the dock, or another.
HandleRequestPreview ==
  /\ place # NoSession
  /\ \E other \in BOOLEAN : ~RunDisabled(other) /\ ExecutePreviewRequest(place, FALSE, other, view)
  /\ UNCHANGED <<place, inputQueue, sending, textVars, runs>>

\* handleRunPreviewCode: of the draft, which only the dock knows.
HandleRunPreviewCode(v) ==
  /\ ExecutePreviewRequest(request, TRUE, FALSE, v)
  /\ UNCHANGED <<place, inputQueue, sending, textVars, runs>>

\* Ctrl+Enter, the refresh button of the editor, or 800 ms after the last key.
HandleRunDraftCode ==
  /\ request # NoSession /\ view = "code"
  /\ HandleRunPreviewCode(view)

\* Going to the preview runs a draft that was changed.
HandleSwitchView ==
  /\ request # NoSession
  /\ LET v == IF view = "code" THEN "preview" ELSE "code"
     IN \/ v = "preview" /\ HandleRunPreviewCode(v)
        \/ view' = v /\ UNCHANGED <<paneVars, calls, termVars, stored, runs, crossed>>

\* The old terminal is stopped, or the call failed, which changes nothing here.
OldTerminalStopped(c) ==
  /\ c.kind = "open"
  /\ \/ runs' = [runs EXCEPT ![c.run].alive = FALSE] /\ crossed' = (crossed \/ calls # {c})
     \/ UNCHANGED runs /\ crossed' = TRUE
  /\ Open(c.session, c.keep, c.other, view, calls \ {c})
  /\ UNCHANGED <<place, inputQueue, sending, textVars>>

-----------------------------------------------------------------------------
(* The answers.                                                            *)

\* The code runs: in a terminal that goes on, or to the end.
RunAnswered(c) ==
  /\ c.kind = "run" /\ Len(runs) < MaxRuns
  /\ \E t \in BOOLEAN : /\ runs' = Append(runs, [session |-> c.session, terminal |-> t, alive |-> t])
                        /\ ShowResult(Len(runs) + 1, t)
  /\ submitting' = FALSE
  /\ calls' = calls \ {c}
  /\ crossed' = (crossed \/ calls # {c})
  /\ UNCHANGED <<place, request, view, inputQueue, sending, textVars>>

\* It cannot be run.  (An answer that is lost leaves the run to the server.)
RunFails(c) ==
  /\ c.kind = "run"
  /\ ShowResult(0, FALSE)
  /\ submitting' = FALSE
  /\ calls' = calls \ {c}
  /\ UNCHANGED <<place, request, view, inputQueue, sending, textVars, runs, crossed>>

\* The refreshed, resized or stopped terminal, or the one restored.
ResultArrives(c) ==
  /\ c.kind \in {"get", "restore", "stop"}
  /\ runs' = IF c.kind = "stop" THEN [runs EXCEPT ![c.run].alive = FALSE] ELSE runs
  /\ \E alive \in IF c.kind = "stop" THEN {FALSE} ELSE Statuses(c) : ShowResult(c.run, alive)
  /\ calls' = calls \ {c}
  /\ UNCHANGED <<place, request, submitting, view, inputQueue, sending, textVars, crossed>>

\* A restored run cannot be read: it is forgotten, and whatever the pane shows is closed.
RestoreFails(c) ==
  /\ c.kind = "restore"
  /\ stored' = [stored EXCEPT ![c.session] = <<>>]
  /\ ResetPreviewState
  /\ calls' = calls \ {c}
  /\ crossed' = TRUE
  /\ UNCHANGED <<place, view, inputQueue, sending, textVars, runs>>

\* Any other call fails and shows an error only; a terminal being closed may go on.
CallFails(c) ==
  /\ c.kind \in {"get", "stop", "drop"}
  /\ calls' = calls \ {c}
  /\ crossed' = (crossed \/ c.kind = "drop")
  /\ UNCHANGED <<paneVars, view, termVars, stored, runs>>

ClosedTerminalStopped(c) ==
  /\ c.kind = "drop"
  /\ runs' = [runs EXCEPT ![c.run].alive = FALSE]
  /\ calls' = calls \ {c}
  /\ UNCHANGED <<paneVars, view, termVars, stored, crossed>>

-----------------------------------------------------------------------------
(* The terminal.                                                           *)

\* The terminal panel is shown, and so are its console and its buttons.
TerminalShown == request # NoSession /\ view = "preview" /\ IsTerminal(result)

\* The terminal is read again.
GetRun ==
  /\ Cardinality(calls) < MaxCalls
  /\ calls' = calls \cup {NewCall("get", request, result)}
  /\ UNCHANGED <<paneVars, view, termVars, stored, runs, crossed>>

\* The size of the console changed.
HandleResizePreviewTerminal == TerminalShown /\ GetRun

\* The refresh button, which is off while something runs.
HandleRefreshPreviewDock ==
  /\ request # NoSession /\ view = "preview" /\ ~previewBusy
  /\ \/ IsTerminal(result) /\ GetRun
     \/ /\ ~IsTerminal(result)
        /\ ExecutePreviewRequest(request, TRUE, FALSE, view)
        /\ UNCHANGED <<place, inputQueue, sending, textVars, runs>>

\* The stop button, of a terminal that runs.
HandleTerminatePreviewTerminal ==
  /\ TerminalShown /\ running /\ Cardinality(calls) < MaxCalls
  /\ calls' = calls \cup {NewCall("stop", request, result)}
  /\ UNCHANGED <<paneVars, view, termVars, stored, runs, crossed>>

(* Mutation of FlushPreviewTerminalInputQueue: two may send at a time. *)
FlushUnguarded(q) ==
  /\ inputQueue' = <<>> /\ sending' = TRUE
  /\ Cardinality(calls) < MaxCalls
  /\ calls' = calls \cup {[NewCall("input", request, result) EXCEPT !.text = q]}

\* flushPreviewTerminalInputQueue of queue q: one call sends all that waits.
FlushPreviewTerminalInputQueue(q) ==
  IF sending THEN inputQueue' = q /\ UNCHANGED <<sending, calls>>
  ELSE /\ inputQueue' = <<>> /\ sending' = TRUE
       /\ Cardinality(calls) < MaxCalls
       /\ calls' = calls \cup {[NewCall("input", request, result) EXCEPT !.text = q]}

\* A text goes to the queue of the terminal.
HandleSendPreviewTerminalInput ==
  /\ typed' = typed + 1
  /\ FlushPreviewTerminalInputQueue(Append(inputQueue, <<result, typed + 1>>))
  /\ UNCHANGED <<paneVars, view, delivered, misled, stored, runs, crossed, mixed>>

\* A key of the console, which listens even when its program has ended.
SendData == TerminalShown /\ HandleSendPreviewTerminalInput

\* A line of the input bar.
HandleSubmit == TerminalShown /\ running /\ HandleSendPreviewTerminalInput

\* The server writes texts q, which are in the order typed, to the terminal of run r.
Deliver(r, q) ==
  /\ delivered' = Last(q)[2]
  /\ misled' = (misled \/ q[1][2] <= delivered \/ \E k \in DOMAIN q : q[k][1] # r)

\* The server has written the text: what was queued since goes to the same run.
InputSent(c) ==
  /\ c.kind = "input" /\ (Alive(c.run) \/ c.alive)
  /\ Deliver(c.run, c.text)
  /\ \E alive \in Statuses(c) : ShowResult(c.run, alive)
  /\ calls' = (calls \ {c})
       \cup IF inputQueue = <<>> THEN {}
            ELSE {[c EXCEPT !.text = inputQueue, !.alive = Alive(c.run)]}
  /\ inputQueue' = <<>> /\ sending' = (inputQueue # <<>>)
  /\ UNCHANGED <<place, request, submitting, view, typed, runs, crossed>>

\* The call fails: the text is gone, or only its answer, and what was queued since waits for
\* the next key.
InputFails(c) ==
  /\ c.kind = "input"
  /\ Deliver(c.run, c.text) \/ UNCHANGED <<delivered, misled>>
  /\ calls' = calls \ {c}
  /\ sending' = FALSE
  /\ UNCHANGED <<paneVars, view, inputQueue, typed, mixed, stored, runs, crossed>>

\* The program of a terminal ends by itself.
TerminalEnds ==
  /\ \E r \in DOMAIN runs : runs[r].alive /\ runs' = [runs EXCEPT ![r].alive = FALSE]
  /\ UNCHANGED <<paneVars, view, calls, termVars, stored, crossed>>

(* Mutation of PollPreviewRun: the answer sets no timer for the next poll. *)
PollOnce ==
  /\ polling /\ polling' = FALSE
  /\ running' = Alive(result)
  /\ UNCHANGED <<place, request, result, submitting, view, calls, termVars, stored, runs, crossed>>

\* pollPreviewRun, of the run shown; a failure ends the polling.
PollPreviewRun ==
  /\ polling
  /\ ShowResult(result, Alive(result))
  /\ UNCHANGED <<place, request, submitting, view, calls, inputQueue, sending, textVars,
                 runs, crossed>>

PollFails ==
  /\ polling /\ polling' = FALSE /\ unpolled' = TRUE
  /\ UNCHANGED <<place, request, result, running, submitting, view, calls, termVars, stored, runs, crossed>>

-----------------------------------------------------------------------------
(* Closing and moving on.                                                  *)

\* The dock is closed: a terminal that runs is stopped and the stored preview forgotten.
HandleClosePreviewDock ==
  /\ request # NoSession
  /\ crossed' = (crossed \/ calls # {})
  /\ IF IsTerminal(result) /\ running
       THEN Cardinality(calls) < MaxCalls /\ calls' = calls \cup {NewCall("drop", request, result)}
       ELSE UNCHANGED calls
  /\ stored' = IF place = NoSession THEN stored ELSE [stored EXCEPT ![place] = <<>>]
  /\ ResetPreviewState
  /\ UNCHANGED <<place, view, inputQueue, sending, textVars, runs>>

\* The effects on a new sessionId: the pane is reset, though what is in flight goes on, and
\* the run stored for the session is asked for.  Until it answers only the request is stored.
\* (A stored request of another session would be dropped, but SavePreview stores none.)
RestorePreview(s) ==
  LET st == SavePreview(stored, s, request, result)
      own == s # NoSession /\ stored[s] # <<>> /\ stored[s][2] # 0
  IN /\ place' = s
     /\ result' = 0 /\ running' = FALSE /\ submitting' = FALSE /\ polling' = FALSE
     /\ view' = "preview"
     /\ inputQueue' = <<>> /\ sending' = FALSE
     /\ crossed' = (crossed \/ calls # {})
     /\ Mixes(0)
     /\ IF ~own THEN request' = NoSession /\ stored' = st /\ UNCHANGED calls
        ELSE /\ request' = s /\ stored' = SavePreview(st, s, s, 0)
             /\ Cardinality(calls) < MaxCalls
             /\ calls' = calls \cup {NewCall("restore", s, stored[s][2])}

ShowAnotherPreview ==
  /\ \E s \in Routes \ {place} : RestorePreview(s)
  /\ UNCHANGED <<textVars, runs>>

-----------------------------------------------------------------------------
\* What the user does, up to the bound.
Act ==
  /\ acts < MaxActs /\ acts' = acts + 1
  /\ UNCHANGED unpolled
  /\ \/ HandleRequestPreview \/ HandleRunDraftCode \/ HandleSwitchView
     \/ HandleRefreshPreviewDock \/ HandleResizePreviewTerminal \/ HandleTerminatePreviewTerminal
     \/ SendData \/ HandleSubmit \/ HandleClosePreviewDock \/ ShowAnotherPreview

\* What the server answers, and the terminals.
Answer ==
  /\ UNCHANGED <<acts, unpolled>>
  /\ \/ \E c \in calls : \/ OldTerminalStopped(c) \/ RunAnswered(c) \/ RunFails(c) \/ ResultArrives(c)
                         \/ RestoreFails(c) \/ CallFails(c) \/ ClosedTerminalStopped(c)
                         \/ InputSent(c) \/ InputFails(c)
     \/ TerminalEnds

\* The poll of the terminal shown.
Poll == PollPreviewRun /\ UNCHANGED <<acts, unpolled>>

PreviewNext == Act \/ Answer \/ Poll \/ (PollFails /\ UNCHANGED acts)

PreviewFairness == WF_previewVars(Poll)

PreviewSpec == PreviewInit /\ [][PreviewNext]_previewVars /\ PreviewFairness

-----------------------------------------------------------------------------
\* A terminal that runs can be reached: the pane shows it, a call about it is in flight, or its
\* session's stored preview names it.  Excepted are answers that were lost or came after the
\* pane had moved on.
TerminalIsKept ==
  ~crossed => \A r \in DOMAIN runs :
    runs[r].alive => \/ result = r
                     \/ \E c \in calls : c.run = r /\ c.kind \in {"open", "restore", "drop"}
                     \/ stored[runs[r].session] = <<runs[r].session, r>>

\* What is typed into a terminal reaches that terminal, and in the order it was typed, unless
\* the run shown changed while text waited or was being sent.
InputInOrder == misled => mixed

\* A terminal that ended is not shown as running for ever while the dock is open, unless a poll
\* failed (which ends the polling).
PreviewCatchesUp ==
  (request # NoSession /\ running /\ ~Alive(result))
    ~> (request = NoSession \/ ~running \/ Alive(result) \/ unpolled)
=============================================================================
