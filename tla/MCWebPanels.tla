---------------------------- MODULE MCWebPanels -----------------------------
(***************************************************************************)
(* Instance for TLC of the parts of the web UI that keep state of their    *)
(* own: the chat page, the messages of a session, its configuration, the   *)
(* preview and the workflow page.  They meet only in the routes, so each   *)
(* is explored by itself: "panel" says which one, and the others stay as   *)
(* they are.                                                               *)
(***************************************************************************)
EXTENDS ChatPage, ChatTimeline, SessionConfig, PreviewPane, WorkflowPage

VARIABLE panel

panelVars == <<panel, chatPageVars, timelineVars, configVars, previewVars, workflowVars>>

PanelsInit ==
  /\ panel \in {"page", "timeline", "config", "preview", "workflow"}
  /\ ChatPageInit /\ TimelineInit /\ SessionConfigInit /\ PreviewInit /\ WorkflowPageInit

InPage(A) ==
  /\ panel = "page" /\ A
  /\ UNCHANGED <<panel, timelineVars, configVars, previewVars, workflowVars>>
InTimeline(A) ==
  /\ panel = "timeline" /\ A
  /\ UNCHANGED <<panel, chatPageVars, configVars, previewVars, workflowVars>>
InConfig(A) ==
  /\ panel = "config" /\ A
  /\ UNCHANGED <<panel, chatPageVars, timelineVars, previewVars, workflowVars>>
InPreview(A) ==
  /\ panel = "preview" /\ A
  /\ UNCHANGED <<panel, chatPageVars, timelineVars, configVars, workflowVars>>
InWorkflow(A) ==
  /\ panel = "workflow" /\ A
  /\ UNCHANGED <<panel, chatPageVars, timelineVars, configVars, previewVars>>

PanelsNext ==
  \/ InPage(ChatPageNext)
  \/ InTimeline(TimelineNext)
  \/ InConfig(SessionConfigNext)
  \/ InPreview(PreviewNext)
  \/ InWorkflow(WorkflowPageNext)

\* The fairness of each part, of its steps while it is the one explored.  No behaviour has
\* steps of two parts, so fairness of one step of each part is fairness of their disjunction.
FirstSteps ==
  InPage(ListSessions) \/ InPreview(Poll) \/ InWorkflow(AskDetail)
SecondSteps ==
  InPage(GetSessionDetail) \/ InWorkflow(ReadDetail)

PanelsFairness ==
  WF_panelVars(FirstSteps) /\ WF_panelVars(SecondSteps) /\ WF_panelVars(InPage(LeaveMissingSession))

PanelsSpec == PanelsInit /\ [][PanelsNext]_panelVars /\ PanelsFairness
=============================================================================
