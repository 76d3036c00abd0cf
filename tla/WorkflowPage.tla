---------------------------- MODULE WorkflowPage ----------------------------
(***************************************************************************)
(* The workflow page of the web UI (features/workflows): the run shown,    *)
(* the definition selected, a draft of the input for each definition, the  *)
(* plan of the agent, and the cached details, which are polled while the   *)
(* run goes on.                                                            *)
(*                                                                         *)
(* An input is abstracted to the definition it was made for and whether it *)
(* is JSON.  The goal is never blank (a blank one does nothing), and an    *)
(* input that is formatted stays what it is.  The definitions are there    *)
(* when the page opens and the list of runs, which is polled, is current.  *)
(***************************************************************************)
EXTENDS Naturals, Sequences, FiniteSets

CONSTANTS
  Workflows,    \* the definitions
  NoWorkflow,   \* no definition
  MaxWfRuns,    \* bound: runs
  MaxPosts,     \* bound: requests in flight
  MaxUses       \* bound: what the user does

ASSUME WorkflowPageAssumption ==
  Workflows # {} /\ NoWorkflow \notin Workflows /\ MaxWfRuns \in Nat /\ MaxPosts \in Nat /\ MaxUses \in Nat

VARIABLES
  wfRuns,         \* the runs of the server: [workflow, status, runtime]
  details,        \* the cached status of each run, or "none"
  fetching,       \* the detail requests in flight: <<run, status as read>>
  shownRun,       \* runId of the URL, or 0
  rememberedRun,  \* LAST_WORKFLOW_RUN_KEY in localStorage
  manual,         \* manualSelectedDefinitionName
  latestPlan,     \* the workflow of the latest plan
  inputDrafts,    \* the input of each definition: <<>> or <<made for, is JSON>>
  runtimeDraft,   \* is the runtime draft the default one?
  posts,          \* the mutations in flight
  uses            \* counter for the bound

wfServerVars == <<wfRuns, details, fetching>>
wfPlaceVars == <<shownRun, rememberedRun>>
wfFormVars == <<manual, latestPlan, inputDrafts, runtimeDraft>>
workflowVars == <<wfServerVars, wfPlaceVars, wfFormVars, posts, uses>>

-----------------------------------------------------------------------------
RunStatuses == {"queued", "running", "ended"}
RunIds == 1..MaxWfRuns
Options == Workflows \cup {NoWorkflow}
Input == Workflows \X BOOLEAN

Post == [kind : {"plan", "agent", "start", "control"}, workflow : Options,
         input : {<<>>} \cup Input, runtime : BOOLEAN, run : 0..MaxWfRuns, read : {"none"} \cup RunStatuses]

NewPost(kind) == [kind |-> kind, workflow |-> NoWorkflow, input |-> <<>>, runtime |-> TRUE,
                  run |-> 0, read |-> "none"]

WorkflowPageTypeOK ==
  /\ wfRuns \in Seq([workflow : Workflows, status : RunStatuses, runtime : BOOLEAN])
  /\ Len(wfRuns) <= MaxWfRuns
  /\ details \in [RunIds -> {"none"} \cup RunStatuses]
  /\ fetching \subseteq RunIds \X RunStatuses
  /\ shownRun \in 0..Len(wfRuns) /\ rememberedRun \in 0..Len(wfRuns)
  /\ manual \in Options /\ latestPlan \in Options
  /\ inputDrafts \in [Workflows -> {<<>>} \cup Input] /\ runtimeDraft \in BOOLEAN
  /\ posts \subseteq Post /\ uses \in 0..MaxUses

WorkflowPageInit ==
  /\ wfRuns = <<>>
  /\ details = [r \in RunIds |-> "none"] /\ fetching = {}
  /\ shownRun = 0 /\ rememberedRun = 0
  /\ manual = NoWorkflow /\ latestPlan = NoWorkflow
  /\ inputDrafts = [w \in Workflows |-> <<>>] /\ runtimeDraft = TRUE
  /\ posts = {} /\ uses = 0

-----------------------------------------------------------------------------
(* What the page derives.                                                  *)

\* The detail of the run shown, once it is there.
HasDetail == shownRun # 0 /\ details[shownRun] # "none"

\* selectedDefinitionName: of the run shown, of the plan, chosen by hand, or the first one.
Selected ==
  IF HasDetail THEN wfRuns[shownRun].workflow
  ELSE IF latestPlan # NoWorkflow THEN latestPlan
  ELSE IF manual # NoWorkflow THEN manual
  ELSE CHOOSE w \in Workflows : TRUE

\* buildStarterInputFromSchema: an example of what definition w takes.
StarterInput(w) == <<w, TRUE>>

\* inputText: the draft, or the example.
InputText(w) == IF inputDrafts[w] = <<>> THEN StarterInput(w) ELSE inputDrafts[w]

IsPending(kind) == \E p \in posts : p.kind = kind

\* The buttons of the composer, and of the editor of the input.
ComposerBusy == IsPending("plan") \/ IsPending("agent") \/ IsPending("start")
EditorLocked == IsPending("start")

(* Mutation of Polls: a queued run is not polled. *)
PollsRunning(status) == status \in {"none", "running"}

\* A detail is polled until the run has ended.
Polls(status) == status \in {"none", "queued", "running"}

\* canControlRun: the buttons of the run shown.
CanControlRun == HasDetail /\ details[shownRun] \in {"queued", "running"}

-----------------------------------------------------------------------------
(* Runs and definitions.                                                   *)

\* The runtime of the detail shown, which is d now, is copied to the draft when it is a new one.
RuntimeOf(r, d, runs) ==
  IF r # 0 /\ d[r] # "none" /\ (r # shownRun \/ details[r] = "none")
  THEN runs[r].runtime ELSE runtimeDraft

\* Navigate to run r, whose details are d.
ShowRun(r, d, runs) ==
  /\ shownRun' = r /\ rememberedRun' = r
  /\ runtimeDraft' = RuntimeOf(r, d, runs)

\* The runs of the sidebar, and the latest four.
SidebarRuns == DOMAIN wfRuns
RecentRuns == {r \in DOMAIN wfRuns : r > Len(wfRuns) - 4}

HandleSelectRun ==
  /\ \E r \in SidebarRuns \cup RecentRuns : ShowRun(r, details, wfRuns)
  /\ UNCHANGED <<wfServerVars, manual, latestPlan, inputDrafts, posts>>

OpenRememberedRun ==
  /\ shownRun = 0 /\ rememberedRun # 0
  /\ ShowRun(rememberedRun, details, wfRuns)
  /\ UNCHANGED <<wfServerVars, manual, latestPlan, inputDrafts, posts>>

\* The user leaves for another page and comes back.  (Bound: between requests.)
LeaveWorkflowPage ==
  /\ posts = {}
  /\ shownRun' = 0
  /\ manual' = NoWorkflow /\ latestPlan' = NoWorkflow
  /\ inputDrafts' = [w \in Workflows |-> <<>>] /\ runtimeDraft' = TRUE
  /\ UNCHANGED <<wfServerVars, rememberedRun, posts>>

\* A definition of the sidebar.  It is not shown while there is a run or a plan.
OnSelectDefinition ==
  /\ \E w \in Workflows : manual' = w
  /\ UNCHANGED <<wfServerVars, wfPlaceVars, latestPlan, inputDrafts, runtimeDraft, posts>>

-----------------------------------------------------------------------------
(* The form.                                                               *)

\* What the user writes is kept for the definition shown.
HandleInputChange ==
  /\ \E json \in BOOLEAN : inputDrafts' = [inputDrafts EXCEPT ![Selected] = <<Selected, json>>]
  /\ UNCHANGED <<wfServerVars, wfPlaceVars, manual, latestPlan, runtimeDraft, posts>>

\* The example of the schema.
HandleUseStarterInput ==
  /\ inputDrafts' = [inputDrafts EXCEPT ![Selected] = StarterInput(Selected)]
  /\ UNCHANGED <<wfServerVars, wfPlaceVars, manual, latestPlan, runtimeDraft, posts>>

OnRuntimeConfigChange ==
  /\ ~EditorLocked
  /\ runtimeDraft' = ~runtimeDraft
  /\ UNCHANGED <<wfServerVars, wfPlaceVars, manual, latestPlan, inputDrafts, posts>>

\* A mutation starts.
Send(p) ==
  /\ Cardinality(posts) < MaxPosts
  /\ posts' = posts \cup {p}
  /\ UNCHANGED <<wfServerVars, wfPlaceVars, wfFormVars>>

HandlePlanGoal == ~ComposerBusy /\ Send(NewPost("plan"))

\* The button is off while the composer is busy; the Enter key is not.  (Bound: one run of the
\* agent at a time.)
HandlePlanAndRun == ~IsPending("agent") /\ Send(NewPost("agent"))

\* The input is read as JSON before it is sent.
HandleStartRun ==
  /\ ~EditorLocked
  /\ InputText(Selected)[2]
  /\ Send([NewPost("start") EXCEPT !.workflow = Selected, !.input = InputText(Selected),
                                   !.runtime = runtimeDraft])

\* Cancel or terminate: off while either is under way.
HandleControlRun ==
  /\ CanControlRun /\ ~IsPending("control")
  /\ Send([NewPost("control") EXCEPT !.run = shownRun])

-----------------------------------------------------------------------------
(* The answers.                                                            *)

(* Mutation of PlanAnswered: the input goes to the definition shown. *)
PlanAnsweredOnPage(p) ==
  /\ p.kind = "plan"
  /\ \E w \in Workflows :
       /\ latestPlan' = w /\ manual' = w
       /\ inputDrafts' = [inputDrafts EXCEPT ![Selected] = <<w, TRUE>>]
  /\ posts' = posts \ {p}
  /\ UNCHANGED <<wfServerVars, wfPlaceVars, runtimeDraft>>

\* A plan selects its definition and fills in the input of it.
PlanAnswered(p) ==
  /\ p.kind = "plan"
  /\ \E w \in Workflows :
       /\ latestPlan' = w /\ manual' = w
       /\ inputDrafts' = [inputDrafts EXCEPT ![w] = <<w, TRUE>>]
  /\ posts' = posts \ {p}
  /\ UNCHANGED <<wfServerVars, wfPlaceVars, runtimeDraft>>

\* A new run of workflow w: its detail is cached, it is remembered and shown, and the queries of
\* the runs are asked again, so that what was read before is dropped.
RunStarts(w, runtime) ==
  LET r == Len(wfRuns) + 1
  IN /\ Len(wfRuns) < MaxWfRuns
     /\ wfRuns' = Append(wfRuns, [workflow |-> w, status |-> "queued", runtime |-> runtime])
     /\ details' = [details EXCEPT ![r] = "queued"]
     /\ fetching' = {}
     /\ ShowRun(r, details', wfRuns')

StartAnswered(p) ==
  /\ p.kind = "start"
  /\ RunStarts(p.workflow, p.runtime)
  /\ posts' = posts \ {p}
  /\ UNCHANGED <<manual, latestPlan, inputDrafts>>

\* A run the agent chose, which may come without a reason and then is no plan.
AgentRunAnswered(p) ==
  /\ p.kind = "agent"
  /\ \E w \in Workflows :
       /\ RunStarts(w, TRUE)
       /\ latestPlan' \in {w, NoWorkflow} /\ manual' = w
       /\ inputDrafts' = [inputDrafts EXCEPT ![w] = <<w, TRUE>>]
  /\ posts' = posts \ {p}

\* The server cancels or terminates the run, or only notes that it shall.
ControlServed(p) ==
  /\ p.kind = "control" /\ p.read = "none"
  /\ \E st \in {wfRuns[p.run].status, "ended"} :
       /\ wfRuns' = [wfRuns EXCEPT ![p.run].status = st]
       /\ posts' = (posts \ {p}) \cup {[p EXCEPT !.read = st]}
  /\ UNCHANGED <<details, fetching, wfPlaceVars, wfFormVars>>

\* Its answer is cached, however old, and the queries of the runs are asked again.
ControlAnswered(p) ==
  /\ p.kind = "control" /\ p.read # "none"
  /\ details' = [details EXCEPT ![p.run] = p.read]
  /\ fetching' = IF shownRun = 0 THEN {} ELSE {<<shownRun, wfRuns[shownRun].status>>}
  /\ posts' = posts \ {p}
  /\ UNCHANGED <<wfRuns, wfPlaceVars, wfFormVars>>

PostFails(p) ==
  /\ posts' = posts \ {p}
  /\ UNCHANGED <<wfServerVars, wfPlaceVars, wfFormVars>>

\* A run of the server goes on, or another client starts one.
RunAdvances ==
  /\ \E r \in DOMAIN wfRuns :
       \E st \in {"running", "ended"} :
         /\ wfRuns[r].status # "ended" /\ st # wfRuns[r].status
         /\ wfRuns' = [wfRuns EXCEPT ![r].status = st]
  /\ UNCHANGED <<details, fetching, wfPlaceVars, wfFormVars, posts>>

StartedElsewhere ==
  /\ Len(wfRuns) < MaxWfRuns
  /\ \E w \in Workflows :
       wfRuns' = Append(wfRuns, [workflow |-> w, status |-> "running", runtime |-> FALSE])
  /\ UNCHANGED <<details, fetching, wfPlaceVars, wfFormVars, posts>>

\* The detail of the run shown is asked for, and answered with what it was then.
GetWorkflowRunDetail ==
  /\ shownRun # 0 /\ Polls(details[shownRun])
  /\ ~\E f \in fetching : f[1] = shownRun
  /\ fetching' = fetching \cup {<<shownRun, wfRuns[shownRun].status>>}
  /\ UNCHANGED <<wfRuns, details, wfPlaceVars, wfFormVars, posts>>

RunDetailArrives ==
  /\ \E f \in fetching :
       /\ fetching' = fetching \ {f}
       /\ details' = [details EXCEPT ![f[1]] = f[2]]
       /\ runtimeDraft' = IF f[1] = shownRun THEN RuntimeOf(shownRun, details', wfRuns) ELSE runtimeDraft
  /\ UNCHANGED <<wfRuns, wfPlaceVars, manual, latestPlan, inputDrafts, posts>>

-----------------------------------------------------------------------------
\* What the user does, up to the bound.
Use ==
  /\ uses < MaxUses /\ uses' = uses + 1
  /\ \/ HandleSelectRun \/ LeaveWorkflowPage \/ OnSelectDefinition
     \/ HandleInputChange \/ HandleUseStarterInput \/ OnRuntimeConfigChange
     \/ HandlePlanGoal \/ HandlePlanAndRun \/ HandleStartRun \/ HandleControlRun

\* What the server does and answers, and the effect of the page.
Serve ==
  /\ UNCHANGED uses
  /\ \/ OpenRememberedRun
     \/ \E p \in posts : \/ PlanAnswered(p) \/ StartAnswered(p) \/ AgentRunAnswered(p)
                         \/ ControlServed(p) \/ ControlAnswered(p) \/ PostFails(p)
     \/ RunAdvances \/ StartedElsewhere

AskDetail == GetWorkflowRunDetail /\ UNCHANGED uses
ReadDetail == RunDetailArrives /\ UNCHANGED uses

WorkflowPageNext == Use \/ Serve \/ AskDetail \/ ReadDetail

WorkflowPageFairness == WF_workflowVars(AskDetail) /\ WF_workflowVars(ReadDetail)

WorkflowPageSpec ==
  WorkflowPageInit /\ [][WorkflowPageNext]_workflowVars /\ WorkflowPageFairness

-----------------------------------------------------------------------------
\* A definition is only ever started with an input made for it: by hand, by the example of its
\* schema, or by a plan of it, whichever answers come in between.
InputsAreOwn ==
  /\ \A w \in Workflows : inputDrafts[w] # <<>> => inputDrafts[w][1] = w
  /\ \A p \in posts : p.kind = "start" => p.input[1] = p.workflow

\* The run shown has ended, and the page does not know.
ShownRunIsStale ==
  shownRun # 0 /\ wfRuns[shownRun].status = "ended" /\ details[shownRun] # "ended"

\* The page does not show a run as going on for ever when it has ended, though answers may come
\* late and out of order.
DetailCatchesUp == ShownRunIsStale ~> ~ShownRunIsStale
=============================================================================
