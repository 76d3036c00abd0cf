----------------------------- MODULE PageProofs -----------------------------
(***************************************************************************)
(* Proofs about the chat page (ChatPage.tla), the workflow page            *)
(* (WorkflowPage.tla) and the form that edits the configuration of a       *)
(* session (SessionConfig.tla).                                            *)
(*                                                                         *)
(* Chat page: for any sessions, the step groups stored for a session are   *)
(* those of its own turns, as long as no turn was filed while the page     *)
(* showed another session.                                                 *)
(*                                                                         *)
(* Workflow page: for any definitions, any number of runs and of requests  *)
(* in flight, a definition is only started with its own input.             *)
(*                                                                         *)
(* Configurations travel: from the server to the cache, from there to the  *)
(* form, to a save and back to the server.  The invariant says of each     *)
(* copy what it still has to do with the server's: a copy whose version is *)
(* the server's holds the server's values, but for what the user touched.  *)
(***************************************************************************)
EXTENDS ChatPage, WorkflowPage, SessionConfig, SequenceTheorems, TLAPS

-----------------------------------------------------------------------------
(* The chat page.                                                          *)

PageInv == ChatPageTypeOK /\ GroupsAreOwn

-----------------------------------------------------------------------------
(* Navigating to a page keeps the types and the ownership of the groups,   *)
(* when the groups stored by then are owned by their sessions.             *)
LEMMA NavigateKeepsGroups ==
  ASSUME PageInv, NEW s \in Routes, NEW new \in BOOLEAN, NEW m \in Routes,
         NEW g \in [Sessions -> SUBSET Sessions], Navigate(s, new, g, m), strayed' = strayed,
         ~strayed => \A x \in Sessions : g[x] \subseteq {x}
  PROVE  /\ url' \in Routes /\ composing' \in BOOLEAN /\ missing' \in BOOLEAN /\ remembered' \in Routes
         /\ groups' \subseteq Sessions
         /\ unsaved' \in {<<>>} \cup (Sessions \X SUBSET Sessions)
         /\ ~strayed' => /\ groups' \subseteq {url'}
                         /\ unsaved' # <<>> => unsaved'[2] \subseteq {unsaved'[1]}
<1>1. CASE s = url
  BY <1>1 DEF PageInv, Navigate, ChatPageTypeOK, GroupsAreOwn
<1>2. CASE s # url
  <2>1. groups' = LoadStepGroups(s, g) /\ unsaved' = <<>>
    BY <1>2 DEF Navigate, ShowGroups
  <2>2. LoadStepGroups(s, g) \subseteq Sessions /\ (~strayed => LoadStepGroups(s, g) \subseteq {s})
    BY DEF LoadStepGroups, Routes
  <2> QED BY <2>1, <2>2 DEF PageInv, Navigate, ChatPageTypeOK, GroupsAreOwn
<1> QED BY <1>1, <1>2

(* Filing groups of a turn for its session keeps them owned.               *)
LEMMA PersistKeepsGroups ==
  ASSUME PageInv, NEW s \in Sessions, NEW g \in SUBSET Sessions, PersistStepGroups(s, g),
         g \subseteq groups \cup {s}
  PROVE  /\ groups' \subseteq Sessions /\ strayed' \in BOOLEAN
         /\ unsaved' \in {<<>>} \cup (Sessions \X SUBSET Sessions)
         /\ ~strayed' => /\ ~strayed /\ groups' \subseteq {url}
                         /\ unsaved'[2] \subseteq {unsaved'[1]}
BY DEF PageInv, PersistStepGroups, ChatPageTypeOK, GroupsAreOwn

-----------------------------------------------------------------------------
(* The invariant: the types, and everything shown, waiting or stored is of *)
(* the session it stands under.                                            *)
THEOREM PageInvariance == ChatPageSpec => []PageInv
<1> USE PagesAssumption DEF PageInv, Routes
<1>1. ChatPageInit => PageInv
  BY DEF ChatPageInit, ChatPageTypeOK, GroupsAreOwn
<1>2. PageInv /\ [ChatPageNext]_chatPageVars => PageInv'
  <2> SUFFICES ASSUME PageInv, [ChatPageNext]_chatPageVars PROVE PageInv'
    OBVIOUS
  <2> USE DEF placeVars, serverVars, groupVars, dialogVars
  <2>1. CASE HandleSelectSession
    <3>1. PICK s \in RailSessions \cup SidebarSessions : Navigate(s, FALSE, saved, remembered)
      BY <2>1 DEF HandleSelectSession
    <3>2. s \in Routes /\ remembered \in Routes /\ saved \in [Sessions -> SUBSET Sessions]
          /\ (~strayed => \A x \in Sessions : saved[x] \subseteq {x})
      BY DEF RailSessions, SidebarSessions, ChatPageTypeOK, GroupsAreOwn
    <3> QED BY <2>1, <3>1, <3>2, NavigateKeepsGroups DEF HandleSelectSession, ChatPageTypeOK, GroupsAreOwn
  <2>2. CASE HandleComposeNewSession
    <3>1. remembered \in Routes /\ saved \in [Sessions -> SUBSET Sessions]
          /\ (~strayed => \A x \in Sessions : saved[x] \subseteq {x})
      BY DEF ChatPageTypeOK, GroupsAreOwn
    <3> QED BY <2>2, <3>1, NavigateKeepsGroups DEF HandleComposeNewSession, ChatPageTypeOK, GroupsAreOwn
  <2>3. CASE OpenRemembered
    <3>1. remembered \in Routes /\ saved \in [Sessions -> SUBSET Sessions]
          /\ (~strayed => \A x \in Sessions : saved[x] \subseteq {x})
      BY DEF ChatPageTypeOK, GroupsAreOwn
    <3> QED BY <2>3, <3>1, NavigateKeepsGroups DEF OpenRemembered, ChatPageTypeOK, GroupsAreOwn
  <2>4. CASE LeavePage
    BY <2>4 DEF LeavePage, ChatPageTypeOK, GroupsAreOwn
  <2>5. CASE ListSessions
    BY <2>5 DEF ListSessions, AskedAbout, ChatPageTypeOK, GroupsAreOwn
  <2>6. CASE GetSessionDetail
    BY <2>6 DEF GetSessionDetail, ChatPageTypeOK, GroupsAreOwn
  <2>7. CASE LeaveMissingSession
    <3>1. saved' = [saved EXCEPT ![url] = {}] /\ strayed' = strayed
      BY <2>7 DEF LeaveMissingSession
    <3>2. saved' \in [Sessions -> SUBSET Sessions] /\ (~strayed => \A x \in Sessions : saved'[x] \subseteq {x})
      BY <3>1 DEF ChatPageTypeOK, GroupsAreOwn
    <3>3. PICK s \in Routes, m \in Routes : Navigate(s, FALSE, saved', m) \/ Navigate(s, TRUE, saved', m)
      <4> DEFINE others == listed \ {url}
      <4> DEFINE kept == IF remembered = url THEN NoSession ELSE remembered
      <4>1. others \subseteq Sessions /\ kept \in Routes
        BY DEF ChatPageTypeOK
      <4>2. \/ kept \in others /\ Navigate(kept, FALSE, saved', kept)
            \/ Navigate(NoSession, TRUE, saved', kept)
            \/ \E s \in others : Navigate(s, FALSE, saved', kept)
        BY <2>7 DEF LeaveMissingSession
      <4> HIDE DEF others, kept
      <4>3. CASE \E s \in others : Navigate(s, FALSE, saved', kept)
        <5>1. PICK s \in others : Navigate(s, FALSE, saved', kept)
          BY <4>3
        <5> QED BY <4>1, <5>1
      <4>4. CASE Navigate(NoSession, TRUE, saved', kept)
        <5>1. NoSession \in Routes
          OBVIOUS
        <5> QED BY <4>1, <4>4, <5>1
      <4>5. CASE kept \in others /\ Navigate(kept, FALSE, saved', kept)
        BY <4>1, <4>5
      <4> QED BY <4>2, <4>3, <4>4, <4>5
    <3>4. /\ url' \in Routes /\ composing' \in BOOLEAN /\ missing' \in BOOLEAN /\ remembered' \in Routes
          /\ groups' \subseteq Sessions
          /\ unsaved' \in {<<>>} \cup (Sessions \X SUBSET Sessions)
          /\ ~strayed' => /\ groups' \subseteq {url'}
                          /\ unsaved' # <<>> => unsaved'[2] \subseteq {unsaved'[1]}
      <4>1. CASE Navigate(s, FALSE, saved', m)
        BY <3>1, <3>2, <4>1, NavigateKeepsGroups
      <4>2. CASE Navigate(s, TRUE, saved', m)
        BY <3>1, <3>2, <4>2, NavigateKeepsGroups
      <4> QED BY <3>3, <4>1, <4>2
    <3>5. UNCHANGED <<serverVars, turn, strayed, clearing, dialogVars>>
      BY <2>7 DEF LeaveMissingSession
    <3> QED BY <3>2, <3>4, <3>5 DEF ChatPageTypeOK, GroupsAreOwn
  <2>8. CASE DeletedElsewhere
    BY <2>8 DEF DeletedElsewhere, ChatPageTypeOK, GroupsAreOwn
  <2>9. CASE TurnStarts
    BY <2>9 DEF TurnStarts, ChatPageTypeOK, GroupsAreOwn
  <2>10. CASE AppendStepGroup
    <3>1. turn \in Sessions /\ groups \cup {turn} \in SUBSET Sessions
      BY <2>10 DEF AppendStepGroup, ChatPageTypeOK
    <3> QED BY <2>10, <3>1, PersistKeepsGroups DEF AppendStepGroup, ChatPageTypeOK, GroupsAreOwn
  <2>11. CASE ReplaceLastStepGroup
    <3>1. PICK x \in SUBSET groups : PersistStepGroups(turn, (groups \ x) \cup {turn})
      BY <2>11 DEF ReplaceLastStepGroup
    <3>2. turn \in Sessions /\ (groups \ x) \cup {turn} \in SUBSET Sessions
          /\ (groups \ x) \cup {turn} \subseteq groups \cup {turn}
      BY <2>11 DEF ReplaceLastStepGroup, ChatPageTypeOK
    <3> QED BY <2>11, <3>1, <3>2, PersistKeepsGroups DEF ReplaceLastStepGroup, ChatPageTypeOK, GroupsAreOwn
  <2>12. CASE TurnFails
    BY <2>12 DEF TurnFails, ChatPageTypeOK, GroupsAreOwn
  <2>13. CASE SaveStepGroups
    BY <2>13 DEF SaveStepGroups, ChatPageTypeOK, GroupsAreOwn
  <2>14. CASE HandleDeleteMessages
    BY <2>14 DEF HandleDeleteMessages, ChatPageTypeOK, GroupsAreOwn
  <2>15. CASE MessagesDeleted
    BY <2>15 DEF MessagesDeleted, ChatPageTypeOK, GroupsAreOwn
  <2>16. CASE OnDeleteSession
    BY <2>16 DEF OnDeleteSession, SidebarSessions, ChatPageTypeOK, GroupsAreOwn
  <2>17. CASE HandleCancelDeleteSession
    BY <2>17 DEF HandleCancelDeleteSession, DialogBusy, ChatPageTypeOK, GroupsAreOwn
  <2>18. CASE HandleConfirmDeleteSession
    BY <2>18 DEF HandleConfirmDeleteSession, DialogOpen, DialogBusy, ChatPageTypeOK, GroupsAreOwn
  <2>19. CASE SessionDeleted
    <3>1. saved' = [saved EXCEPT ![removing] = {}] /\ strayed' = strayed
      BY <2>19 DEF SessionDeleted
    <3>2. saved' \in [Sessions -> SUBSET Sessions] /\ (~strayed => \A x \in Sessions : saved'[x] \subseteq {x})
      BY <3>1 DEF ChatPageTypeOK, GroupsAreOwn
    <3>3. PICK m \in Routes : IF url = removing THEN Navigate(NoSession, TRUE, saved', m)
                              ELSE remembered' = m /\ UNCHANGED <<placeVars, groups, unsaved>>
      BY <2>19 DEF SessionDeleted, ChatPageTypeOK
    <3>4. CASE url = removing
      <4>1. Navigate(NoSession, TRUE, saved', m) /\ NoSession \in Routes
        BY <3>3, <3>4
      <4>2. /\ url' \in Routes /\ composing' \in BOOLEAN /\ missing' \in BOOLEAN /\ remembered' \in Routes
            /\ groups' \subseteq Sessions
            /\ unsaved' \in {<<>>} \cup (Sessions \X SUBSET Sessions)
            /\ ~strayed' => /\ groups' \subseteq {url'}
                            /\ unsaved' # <<>> => unsaved'[2] \subseteq {unsaved'[1]}
        BY <3>1, <3>2, <4>1, NavigateKeepsGroups
      <4> QED BY <2>19, <3>1, <3>2, <4>2 DEF SessionDeleted, ChatPageTypeOK, GroupsAreOwn
    <3>5. CASE url # removing
      BY <2>19, <3>1, <3>2, <3>3, <3>5 DEF SessionDeleted, ChatPageTypeOK, GroupsAreOwn
    <3> QED BY <3>4, <3>5
  <2>20. CASE SessionDeleteFails
    BY <2>20 DEF SessionDeleteFails, AskedAbout, ChatPageTypeOK, GroupsAreOwn
  <2>21. CASE UNCHANGED chatPageVars
    BY <2>21 DEF chatPageVars, ChatPageTypeOK, GroupsAreOwn
  <2> QED BY <2>1, <2>2, <2>3, <2>4, <2>5, <2>6, <2>7, <2>8, <2>9, <2>10, <2>11, <2>12, <2>13, <2>14,
             <2>15, <2>16, <2>17, <2>18, <2>19, <2>20, <2>21 DEF ChatPageNext
<1> HIDE DEF PageInv
<1> QED BY <1>1, <1>2, PTL DEF ChatPageSpec

(* Unless a turn was filed while the page showed another session, the step *)
(* groups a browser keeps for a session are of turns of that session.      *)
THEOREM StoredGroupsAreOwn == ChatPageSpec => []SavedGroupsAreOwn
<1>1. PageInv => SavedGroupsAreOwn
  BY DEF PageInv, GroupsAreOwn, SavedGroupsAreOwn
<1> QED BY <1>1, PageInvariance, PTL

-----------------------------------------------------------------------------
(* The workflow page.                                                      *)

(* A control is of a run that exists, so what the server reads of it is a  *)
(* status, and a start is of a definition.                                 *)
RequestsKnowTheirs ==
  \A p \in posts : /\ p.kind = "control" => p.run \in DOMAIN wfRuns
                   /\ p.kind = "start" => p.workflow \in Workflows

WfInv == WorkflowPageTypeOK /\ InputsAreOwn /\ RequestsKnowTheirs

Run == [workflow : Workflows, status : RunStatuses, runtime : BOOLEAN]

-----------------------------------------------------------------------------
(* The definition selected is one, and the input offered for it is its own. *)
LEMMA SelectedIsDefinition ==
  ASSUME WorkflowPageTypeOK PROVE Selected \in Workflows
<1>1. CASE HasDetail
  <2>1. wfRuns \in Seq(Run) /\ shownRun \in 1..Len(wfRuns)
    BY <1>1 DEF HasDetail, WorkflowPageTypeOK, Run
  <2>2. wfRuns[shownRun] \in Run
    BY <2>1, ElementOfSeq
  <2> QED BY <1>1, <2>2 DEF Selected, Run
<1>2. CASE ~HasDetail
  BY <1>2, WorkflowPageAssumption DEF Selected, WorkflowPageTypeOK, Options
<1> QED BY <1>1, <1>2

(* The input offered for a definition, drafted or an example, is its own.  *)
LEMMA OfferedInputIsOwn ==
  ASSUME WorkflowPageTypeOK, InputsAreOwn, NEW w \in Workflows
  PROVE  InputText(w) \in Input /\ InputText(w)[1] = w
BY DEF InputText, StarterInput, Input, WorkflowPageTypeOK, InputsAreOwn

(* The runtime draft shown after a detail has come is a Boolean.           *)
LEMMA RuntimeIsBoolean ==
  ASSUME WorkflowPageTypeOK, NEW runs \in Seq(Run), NEW r \in 0..Len(runs), NEW d
  PROVE  RuntimeOf(r, d, runs) \in BOOLEAN
<1>1. CASE r # 0 /\ d[r] # "none" /\ (r # shownRun \/ details[r] = "none")
  <2>1. runs[r] \in Run
    BY <1>1
  <2> QED BY <1>1, <2>1 DEF RuntimeOf, Run
<1>2. CASE ~(r # 0 /\ d[r] # "none" /\ (r # shownRun \/ details[r] = "none"))
  BY <1>2 DEF RuntimeOf, WorkflowPageTypeOK
<1> QED BY <1>1, <1>2

(* A new request is one, of its kind.                                       *)
LEMMA NewPostIsPost ==
  ASSUME NEW kind \in {"plan", "agent", "start", "control"}
  PROVE  NewPost(kind) \in Post /\ NewPost(kind).kind = kind
BY WorkflowPageAssumption DEF NewPost, Post, RunStatuses, Options

(* Setting the status of a run, and adding one, keeps a list of runs.      *)
LEMMA StatusOfRun ==
  ASSUME WorkflowPageTypeOK, NEW r \in DOMAIN wfRuns, NEW st \in RunStatuses
  PROVE  /\ [wfRuns EXCEPT ![r].status = st] \in Seq(Run)
         /\ Len([wfRuns EXCEPT ![r].status = st]) = Len(wfRuns)
<1>1. wfRuns \in Seq(Run) /\ r \in 1..Len(wfRuns)
  BY DEF WorkflowPageTypeOK, Run
<1>2. wfRuns[r] \in Run
  BY <1>1, ElementOfSeq
<1>3. [wfRuns[r] EXCEPT !.status = st] \in Run
  BY <1>2 DEF Run
<1> QED BY <1>1, <1>3, ExceptSeq

(* Another run makes the list of runs longer by one.                       *)
LEMMA OneRunMore ==
  ASSUME WorkflowPageTypeOK, NEW x \in Run
  PROVE  /\ Append(wfRuns, x) \in Seq(Run)
         /\ Len(Append(wfRuns, x)) = Len(wfRuns) + 1
         /\ Len(wfRuns) \in Nat
BY AppendProperties DEF WorkflowPageTypeOK, Run

-----------------------------------------------------------------------------
(* What the user does.                                                     *)

(* Whatever the user does keeps the invariant.                             *)
LEMMA UseKeepsInv ==
  ASSUME WfInv, Use PROVE WfInv'
<1> USE WorkflowPageAssumption DEF WfInv, RunStatuses, RunIds, Options
<1>a. Selected \in Workflows
  BY SelectedIsDefinition
<1>b. wfRuns \in Seq(Run) /\ uses' \in 0..MaxUses
  BY DEF WorkflowPageTypeOK, Run, Use
<1>1. ASSUME HandleSelectRun PROVE WfInv'
  <2>1. PICK r \in SidebarRuns \cup RecentRuns : ShowRun(r, details, wfRuns)
    BY <1>1 DEF HandleSelectRun
  <2>2. r \in 0..Len(wfRuns)
    BY <2>1, <1>b DEF SidebarRuns, RecentRuns
  <2>3. runtimeDraft' \in BOOLEAN
    BY <2>1, <2>2, <1>b, RuntimeIsBoolean DEF ShowRun
  <2> QED BY <1>1, <1>b, <2>1, <2>2, <2>3
          DEF HandleSelectRun, ShowRun, WorkflowPageTypeOK, InputsAreOwn, RequestsKnowTheirs, wfServerVars
<1>2. ASSUME LeaveWorkflowPage PROVE WfInv'
  BY <1>2, <1>b DEF LeaveWorkflowPage, WorkflowPageTypeOK, InputsAreOwn, RequestsKnowTheirs, wfServerVars
<1>3. ASSUME OnSelectDefinition PROVE WfInv'
  BY <1>3, <1>b
     DEF OnSelectDefinition, WorkflowPageTypeOK, InputsAreOwn, RequestsKnowTheirs, wfServerVars, wfPlaceVars
<1>4. ASSUME HandleInputChange \/ HandleUseStarterInput PROVE WfInv'
  <2>1. PICK json \in BOOLEAN : inputDrafts' = [inputDrafts EXCEPT ![Selected] = <<Selected, json>>]
    BY <1>4 DEF HandleInputChange, HandleUseStarterInput, StarterInput
  <2>2. inputDrafts' \in [Workflows -> {<<>>} \cup Input]
    BY <1>a, <2>1 DEF WorkflowPageTypeOK, Input
  <2>3. \A w \in Workflows : inputDrafts'[w] # <<>> => inputDrafts'[w][1] = w
    BY <1>a, <2>1 DEF WorkflowPageTypeOK, InputsAreOwn
  <2> HIDE DEF Input
  <2> QED BY <1>4, <1>b, <2>2, <2>3
          DEF HandleInputChange, HandleUseStarterInput, WorkflowPageTypeOK, InputsAreOwn, RequestsKnowTheirs,
              wfServerVars, wfPlaceVars
<1>5. ASSUME OnRuntimeConfigChange PROVE WfInv'
  BY <1>5, <1>b
     DEF OnRuntimeConfigChange, WorkflowPageTypeOK, InputsAreOwn, RequestsKnowTheirs, wfServerVars,
         wfPlaceVars
<1>6. ASSUME NEW p \in Post, Send(p),
             p.kind = "start" => p.workflow \in Workflows /\ p.input[1] = p.workflow,
             p.kind = "control" => p.run \in DOMAIN wfRuns
      PROVE  WfInv'
  BY <1>6, <1>b
     DEF Send, WorkflowPageTypeOK, InputsAreOwn, RequestsKnowTheirs, wfServerVars, wfPlaceVars, wfFormVars
<1>7. ASSUME HandlePlanGoal \/ HandlePlanAndRun PROVE WfInv'
  <2>1. NewPost("plan") \in Post /\ NewPost("agent") \in Post
    BY NewPostIsPost
  <2> QED BY <1>6, <1>7, <2>1 DEF HandlePlanGoal, HandlePlanAndRun, NewPost
<1>8. ASSUME HandleStartRun PROVE WfInv'
  <2> DEFINE p == [NewPost("start") EXCEPT !.workflow = Selected, !.input = InputText(Selected),
                                           !.runtime = runtimeDraft]
  <2>1. InputText(Selected) \in Input /\ InputText(Selected)[1] = Selected
    BY <1>a, OfferedInputIsOwn
  <2>2. NewPost("start") \in Post /\ NewPost("start").kind = "start"
    BY NewPostIsPost
  <2>3. p \in Post /\ p.kind = "start" /\ p.workflow \in Workflows /\ p.input[1] = p.workflow
    BY <1>a, <2>1, <2>2 DEF Post, WorkflowPageTypeOK
  <2>4. Send(p)
    BY <1>8 DEF HandleStartRun
  <2> HIDE DEF p
  <2> QED BY <1>6, <2>3, <2>4
<1>9. ASSUME HandleControlRun PROVE WfInv'
  <2> DEFINE p == [NewPost("control") EXCEPT !.run = shownRun]
  <2>1. shownRun \in 1..Len(wfRuns) /\ shownRun \in 0..MaxWfRuns
    BY <1>9, <1>b DEF HandleControlRun, CanControlRun, HasDetail, WorkflowPageTypeOK
  <2>2. NewPost("control") \in Post /\ NewPost("control").kind = "control"
    BY NewPostIsPost
  <2>3. p \in Post /\ p.kind = "control" /\ p.run \in DOMAIN wfRuns
    BY <2>1, <2>2, <1>b DEF Post
  <2>4. Send(p)
    BY <1>9 DEF HandleControlRun
  <2> HIDE DEF p
  <2> QED BY <1>6, <2>3, <2>4
<1> QED BY <1>1, <1>2, <1>3, <1>4, <1>5, <1>7, <1>8, <1>9 DEF Use

-----------------------------------------------------------------------------
(* What the server does and answers.                                       *)

(* A new run of a definition is added, cached and shown.                   *)
LEMMA RunStartsKeepsRuns ==
  ASSUME WorkflowPageTypeOK, NEW w \in Workflows, NEW runtime \in BOOLEAN, RunStarts(w, runtime)
  PROVE  /\ wfRuns' \in Seq(Run) /\ Len(wfRuns') = Len(wfRuns) + 1 /\ Len(wfRuns') <= MaxWfRuns
         /\ details' \in [RunIds -> {"none"} \cup RunStatuses]
         /\ fetching' \subseteq RunIds \X RunStatuses
         /\ shownRun' \in 0..Len(wfRuns') /\ rememberedRun' \in 0..Len(wfRuns')
         /\ runtimeDraft' \in BOOLEAN
         /\ DOMAIN wfRuns \subseteq DOMAIN wfRuns'
<1> DEFINE x == [workflow |-> w, status |-> "queued", runtime |-> runtime]
<1>1. x \in Run
  BY DEF Run, RunStatuses
<1> HIDE DEF x
<1>2. /\ wfRuns' = Append(wfRuns, x) /\ Len(wfRuns) < MaxWfRuns
      /\ details' = [details EXCEPT ![Len(wfRuns) + 1] = "queued"] /\ fetching' = {}
      /\ ShowRun(Len(wfRuns) + 1, details', wfRuns')
  BY DEF RunStarts, x
<1>3. wfRuns' \in Seq(Run) /\ Len(wfRuns') = Len(wfRuns) + 1 /\ Len(wfRuns) \in Nat
  BY <1>1, <1>2, OneRunMore
<1>4. runtimeDraft' \in BOOLEAN
  <2>1. /\ Len(wfRuns) + 1 \in 0..Len(wfRuns')
        /\ runtimeDraft' = RuntimeOf(Len(wfRuns) + 1, details', wfRuns')
    BY <1>2, <1>3 DEF ShowRun
  <2> QED BY <1>3, <2>1, RuntimeIsBoolean
<1>5. DOMAIN wfRuns = 1..Len(wfRuns) /\ DOMAIN wfRuns' = 1..Len(wfRuns')
  BY <1>3 DEF WorkflowPageTypeOK
<1> QED BY <1>2, <1>3, <1>4, <1>5, WorkflowPageAssumption DEF ShowRun, WorkflowPageTypeOK, RunIds, RunStatuses

(* So does whatever the server does and answers.                           *)
LEMMA ServeKeepsInv ==
  ASSUME WfInv, Serve PROVE WfInv'
<1> USE WorkflowPageAssumption DEF WfInv, RunStatuses, RunIds, Options
<1>a. wfRuns \in Seq(Run) /\ DOMAIN wfRuns = 1..Len(wfRuns) /\ Len(wfRuns) \in Nat /\ uses' = uses
  BY DEF WorkflowPageTypeOK, Run, Serve
<1>1. ASSUME OpenRememberedRun PROVE WfInv'
  <2>1. runtimeDraft' \in BOOLEAN
    BY <1>1, <1>a, RuntimeIsBoolean DEF OpenRememberedRun, ShowRun, WorkflowPageTypeOK
  <2> QED BY <1>1, <1>a, <2>1
          DEF OpenRememberedRun, ShowRun, WorkflowPageTypeOK, InputsAreOwn, RequestsKnowTheirs, wfServerVars
<1>2. ASSUME NEW p \in posts, PlanAnswered(p) PROVE WfInv'
  <2>1. PICK w \in Workflows : /\ latestPlan' = w /\ manual' = w
                               /\ inputDrafts' = [inputDrafts EXCEPT ![w] = <<w, TRUE>>]
    BY <1>2 DEF PlanAnswered
  <2>2. inputDrafts' \in [Workflows -> {<<>>} \cup Input]
    BY <2>1 DEF WorkflowPageTypeOK, Input
  <2>3. \A v \in Workflows : inputDrafts'[v] # <<>> => inputDrafts'[v][1] = v
    BY <2>1 DEF WorkflowPageTypeOK, InputsAreOwn
  <2> QED BY <1>2, <1>a, <2>1, <2>2, <2>3
          DEF PlanAnswered, WorkflowPageTypeOK, InputsAreOwn, RequestsKnowTheirs, wfServerVars, wfPlaceVars
<1>3. ASSUME NEW p \in posts, StartAnswered(p) PROVE WfInv'
  <2>1. p.workflow \in Workflows /\ p.runtime \in BOOLEAN
    BY <1>3 DEF StartAnswered, WorkflowPageTypeOK, RequestsKnowTheirs, Post
  <2> QED BY <1>3, <1>a, <2>1, RunStartsKeepsRuns
          DEF StartAnswered, WorkflowPageTypeOK, InputsAreOwn, RequestsKnowTheirs, Run
<1>4. ASSUME NEW p \in posts, AgentRunAnswered(p) PROVE WfInv'
  <2>1. PICK w \in Workflows :
          /\ RunStarts(w, TRUE)
          /\ latestPlan' \in {w, NoWorkflow} /\ manual' = w
          /\ inputDrafts' = [inputDrafts EXCEPT ![w] = <<w, TRUE>>]
    BY <1>4 DEF AgentRunAnswered
  <2>2. posts' = posts \ {p}
    BY <1>4 DEF AgentRunAnswered
  <2>3. inputDrafts' \in [Workflows -> {<<>>} \cup Input]
    BY <2>1 DEF WorkflowPageTypeOK, Input
  <2>4. \A v \in Workflows : inputDrafts'[v] # <<>> => inputDrafts'[v][1] = v
    BY <2>1 DEF WorkflowPageTypeOK, InputsAreOwn
  <2> QED BY <1>a, <2>1, <2>2, <2>3, <2>4, RunStartsKeepsRuns
          DEF WorkflowPageTypeOK, InputsAreOwn, RequestsKnowTheirs, Run
<1>5. ASSUME NEW p \in posts, ControlServed(p) PROVE WfInv'
  <2>1. p \in Post /\ p.run \in DOMAIN wfRuns
    BY <1>5 DEF ControlServed, RequestsKnowTheirs, WorkflowPageTypeOK
  <2>2. wfRuns[p.run] \in Run
    BY <1>a, <2>1, ElementOfSeq
  <2>3. PICK st \in RunStatuses : /\ wfRuns' = [wfRuns EXCEPT ![p.run].status = st]
                                  /\ posts' = (posts \ {p}) \cup {[p EXCEPT !.read = st]}
    BY <1>5, <2>2 DEF ControlServed, Run
  <2>4. wfRuns' \in Seq(Run) /\ Len(wfRuns') = Len(wfRuns)
    BY <2>1, <2>3, StatusOfRun
  <2>5. [p EXCEPT !.read = st] \in Post /\ [p EXCEPT !.read = st].kind = "control"
        /\ [p EXCEPT !.read = st].run = p.run
    BY <1>5, <2>1 DEF Post, ControlServed
  <2>6. DOMAIN wfRuns' = DOMAIN wfRuns
    BY <1>a, <2>4
  <2>7. posts' \subseteq Post /\ InputsAreOwn' /\ RequestsKnowTheirs'
    BY <1>5, <2>1, <2>3, <2>5, <2>6
       DEF ControlServed, WorkflowPageTypeOK, InputsAreOwn, RequestsKnowTheirs, wfFormVars
  <2> QED BY <1>5, <1>a, <2>4, <2>7 DEF ControlServed, WorkflowPageTypeOK, wfPlaceVars, wfFormVars, Run
<1>6. ASSUME NEW p \in posts, ControlAnswered(p) PROVE WfInv'
  <2>1. p \in Post /\ p.read \in RunStatuses
    BY <1>6 DEF ControlAnswered, WorkflowPageTypeOK, Post
  <2>2. shownRun # 0 => wfRuns[shownRun] \in Run /\ shownRun \in RunIds
    BY <1>a, ElementOfSeq DEF WorkflowPageTypeOK
  <2>3. fetching' \subseteq RunIds \X RunStatuses
    BY <1>6, <2>2 DEF ControlAnswered, Run
  <2>4. details' \in [RunIds -> {"none"} \cup RunStatuses]
    BY <1>6, <2>1 DEF ControlAnswered, WorkflowPageTypeOK
  <2> QED BY <1>6, <1>a, <2>3, <2>4
          DEF ControlAnswered, WorkflowPageTypeOK, InputsAreOwn, RequestsKnowTheirs, wfPlaceVars, wfFormVars
<1>7. ASSUME NEW p \in posts, PostFails(p) PROVE WfInv'
  BY <1>7, <1>a DEF PostFails, WorkflowPageTypeOK, InputsAreOwn, RequestsKnowTheirs, wfServerVars,
                    wfPlaceVars, wfFormVars
<1>8. ASSUME RunAdvances PROVE WfInv'
  <2>1. PICK r \in DOMAIN wfRuns, st \in RunStatuses : wfRuns' = [wfRuns EXCEPT ![r].status = st]
    BY <1>8 DEF RunAdvances
  <2>2. wfRuns' \in Seq(Run) /\ Len(wfRuns') = Len(wfRuns)
    BY <2>1, StatusOfRun
  <2>3. DOMAIN wfRuns' = DOMAIN wfRuns
    BY <1>a, <2>2
  <2> QED BY <1>8, <1>a, <2>2, <2>3
          DEF RunAdvances, WorkflowPageTypeOK, InputsAreOwn, RequestsKnowTheirs, wfPlaceVars, wfFormVars, Run
<1>9. ASSUME StartedElsewhere PROVE WfInv'
  <2>1. PICK w \in Workflows :
          wfRuns' = Append(wfRuns, [workflow |-> w, status |-> "running", runtime |-> FALSE])
    BY <1>9 DEF StartedElsewhere
  <2>2. [workflow |-> w, status |-> "running", runtime |-> FALSE] \in Run
    BY DEF Run
  <2>3. wfRuns' \in Seq(Run) /\ Len(wfRuns') = Len(wfRuns) + 1
    BY <2>1, <2>2, OneRunMore
  <2>4. DOMAIN wfRuns \subseteq DOMAIN wfRuns'
    BY <1>a, <2>3
  <2> QED BY <1>9, <1>a, <2>3, <2>4
          DEF StartedElsewhere, WorkflowPageTypeOK, InputsAreOwn, RequestsKnowTheirs, wfPlaceVars,
              wfFormVars, Run
<1> QED BY <1>1, <1>2, <1>3, <1>4, <1>5, <1>6, <1>7, <1>8, <1>9 DEF Serve

-----------------------------------------------------------------------------
(* The queries of the detail.                                              *)

(* So do asking for a detail and reading it, however late.                 *)
LEMMA DetailKeepsInv ==
  ASSUME WfInv, AskDetail \/ ReadDetail PROVE WfInv'
<1> USE WorkflowPageAssumption DEF WfInv, RunStatuses, RunIds, Options
<1>a. wfRuns \in Seq(Run) /\ DOMAIN wfRuns = 1..Len(wfRuns) /\ Len(wfRuns) \in Nat
  BY DEF WorkflowPageTypeOK, Run
<1>1. ASSUME AskDetail PROVE WfInv'
  <2>1. shownRun \in RunIds /\ wfRuns[shownRun] \in Run
    BY <1>1, <1>a, ElementOfSeq DEF AskDetail, GetWorkflowRunDetail, WorkflowPageTypeOK
  <2> QED BY <1>1, <1>a, <2>1
          DEF AskDetail, GetWorkflowRunDetail, WorkflowPageTypeOK, InputsAreOwn, RequestsKnowTheirs,
              wfPlaceVars, wfFormVars, Run
<1>2. ASSUME ReadDetail PROVE WfInv'
  <2>1. PICK f \in fetching :
          /\ fetching' = fetching \ {f}
          /\ details' = [details EXCEPT ![f[1]] = f[2]]
          /\ runtimeDraft' = IF f[1] = shownRun THEN RuntimeOf(shownRun, details', wfRuns) ELSE runtimeDraft
    BY <1>2 DEF ReadDetail, RunDetailArrives
  <2>2. f[1] \in RunIds /\ f[2] \in RunStatuses
    BY DEF WorkflowPageTypeOK
  <2>3. RuntimeOf(shownRun, details', wfRuns) \in BOOLEAN
    BY <1>a, RuntimeIsBoolean DEF WorkflowPageTypeOK
  <2>4. runtimeDraft' \in BOOLEAN
    BY <2>1, <2>3 DEF WorkflowPageTypeOK
  <2>5. details' \in [RunIds -> {"none"} \cup RunStatuses]
    BY <2>1, <2>2 DEF WorkflowPageTypeOK
  <2>6. fetching' \subseteq RunIds \X RunStatuses
    BY <2>1 DEF WorkflowPageTypeOK
  <2> QED BY <1>2, <1>a, <2>4, <2>5, <2>6
          DEF ReadDetail, RunDetailArrives, WorkflowPageTypeOK, InputsAreOwn, RequestsKnowTheirs, wfPlaceVars
<1> QED BY <1>1, <1>2

-----------------------------------------------------------------------------
(* The invariant of the page.                                              *)
THEOREM WorkflowInvariance == WorkflowPageSpec => []WfInv
<1>1. WorkflowPageInit => WfInv
  BY WorkflowPageAssumption
     DEF WorkflowPageInit, WfInv, WorkflowPageTypeOK, InputsAreOwn, RequestsKnowTheirs, RunStatuses, Options
<1>2. WfInv /\ [WorkflowPageNext]_workflowVars => WfInv'
  <2>1. CASE UNCHANGED workflowVars
    BY <2>1 DEF workflowVars, wfServerVars, wfPlaceVars, wfFormVars, WfInv, WorkflowPageTypeOK,
                InputsAreOwn, RequestsKnowTheirs
  <2>2. CASE WorkflowPageNext
    BY <2>2, UseKeepsInv, ServeKeepsInv, DetailKeepsInv DEF WorkflowPageNext
  <2> QED BY <2>1, <2>2
<1> QED BY <1>1, <1>2, PTL DEF WorkflowPageSpec

(* A definition is only ever started with an input made for it, whatever   *)
(* plans, runs of the agent and edits come in between.                     *)
THEOREM StartsOwnInputs == WorkflowPageSpec => []InputsAreOwn
<1>1. WfInv => InputsAreOwn
  BY DEF WfInv
<1> QED BY <1>1, WorkflowInvariance, PTL

-----------------------------------------------------------------------------
(* Drafts, payloads, forms and saves.                                      *)

(* No tool that asks a human without one.                                  *)
HitlSafe(d) == d.tools \cap HITL_ONLY_TOOL_NAMES # {} => d.hitl

(* The fields that decide about others have their types; a draft shows an  *)
(* effort, even one that is not sent.                                      *)
HasDraftFields(d) ==
  /\ DOMAIN d = Fields
  /\ d.tools \subseteq Tools /\ d.hitl \in BOOLEAN /\ d.thinking \in BOOLEAN
  /\ d.effort # "null"

IsDraft(d) == HasDraftFields(d) /\ HitlSafe(d)

(* A configuration of the server has an effort exactly if the model thinks. *)
IsPayload(c) ==
  /\ DOMAIN c = Fields
  /\ c.tools \subseteq Tools /\ c.hitl \in BOOLEAN /\ c.thinking \in BOOLEAN
  /\ HitlSafe(c)
  /\ c.effort = "null" <=> ~c.thinking

IsForm(fm) ==
  /\ DOMAIN fm = {"session", "version", "touched", "draft"}
  /\ fm.session \in Sessions /\ fm.version \in Nat /\ fm.touched \subseteq Fields
  /\ IsDraft(fm.draft)

IsSave(x) ==
  /\ DOMAIN x = {"no", "quick", "session", "form", "payload", "applied"}
  /\ x.session \in Sessions /\ x.no \in 1..MaxSaves
  /\ IsForm(x.form) /\ x.form.session = x.session
  /\ x.payload = BuildSessionPayload(x.form.draft) /\ ~PayloadFails(x.form.draft)

(* Form fm is not ahead of a server with the configurations c of the       *)
(* versions v, and if it is of the server's version, only what the user    *)
(* touched differs.                                                        *)
FormIsOf(fm, c, v) ==
  /\ c[fm.session] # NoValue /\ fm.version <= v[fm.session]
  /\ fm.version = v[fm.session] =>
       \A f \in Fields \ fm.touched : fm.draft[f] = SessionDetailToDraft(c[fm.session])[f]

(* Answer a about session s is not ahead of the server either.             *)
AnswerIsOf(s, a, c, v) ==
  /\ c[s] # NoValue /\ a.version \in Nat /\ a.version <= v[s] /\ IsPayload(a.config)
  /\ a.version = v[s] => a.config = c[s]

SaveIsOf(x, c, v) ==
  /\ IsSave(x) /\ FormIsOf(x.form, c, v)
  /\ x.applied # NoValue => AnswerIsOf(x.session, x.applied, c, v)

(* The server moves from c, v to c2, v2: what it had changes only with its *)
(* version.                                                                *)
ServerMoves(c, v, c2, v2) ==
  \A s \in Sessions : c[s] # NoValue => /\ c2[s] # NoValue /\ v[s] <= v2[s]
                                        /\ v2[s] = v[s] => c2[s] = c[s]

-----------------------------------------------------------------------------
(* The invariant.                                                          *)

(* The server's own configurations.                                        *)
IsServer(c, v) ==
  /\ DOMAIN c = Sessions /\ v \in [Sessions -> Nat]
  /\ \A s \in Sessions : c[s] # NoValue => IsPayload(c[s])

ServerInv == IsServer(config, version)

(* The cached details, and the session the page shows.                     *)
IsCache(d, c, v) ==
  /\ DOMAIN d = Sessions
  /\ \A s \in Sessions : d[s] # NoValue => AnswerIsOf(s, d[s], c, v)

CacheInv == IsCache(detail, config, version)
ShownInv == shown \in Routes /\ (shown # NoSession => config[shown] # NoValue)

(* The form is that of the session shown.                                  *)
FormInv ==
  form # NoValue => /\ IsForm(form) /\ FormIsOf(form, config, version)
                    /\ form.session = shown /\ detail[shown] # NoValue

(* The saves in flight came from such forms.                               *)
SavesInv == \A x \in saves : SaveIsOf(x, config, version)

(* A new session.                                                          *)
NewSessionInv ==
  /\ IsDraft(draft)
  /\ creating # NoValue => IsPayload(creating)

CountersInv ==
  /\ edits \in 0..MaxEdits /\ saved_ \in 0..MaxSaves
  /\ catalog \in BOOLEAN /\ hydrating \in BOOLEAN

ConfigInv ==
  ServerInv /\ CacheInv /\ ShownInv /\ FormInv /\ SavesInv /\ NewSessionInv /\ CountersInv

-----------------------------------------------------------------------------
(* What the editors make of a draft.                                       *)

(* The fields of a draft.                                                  *)
LEMMA FieldNames ==
  Fields = {"text", "mode", "url", "thinking", "effort", "tools", "hitl", "approvals", "rules",
            "toolRules", "servers", "agents", "format", "memory", "sandbox"}
BY DEF Fields, DEFAULT_SESSION_DRAFT

(* A record with those fields is no missing value.                         *)
LEMMA FieldsAreSomething ==
  ASSUME NEW c, DOMAIN c = Fields
  PROVE  c # NoValue
<1>1. "tools" \in DOMAIN c
  BY FieldNames
<1>2. DOMAIN NoValue = {}
  BY DEF NoValue
<1> QED
  BY <1>1, <1>2

(* A change of another field keeps the fields that matter.                 *)
LEMMA PutKeepsFields ==
  ASSUME NEW d, HasDraftFields(d), NEW f, f \notin {"tools", "hitl", "thinking", "effort"},
         NEW S, NEW e \in Put(d, f, S)
  PROVE  HasDraftFields(e)
<1>1. PICK v \in S : e = [d EXCEPT ![f] = v]
  BY DEF Put
<1>2. DOMAIN e = DOMAIN d
  BY <1>1
<1>3. \A g \in Fields : g # f => e[g] = d[g]
  BY <1>1 DEF HasDraftFields
<1>4. e.tools = d.tools /\ e.hitl = d.hitl /\ e.thinking = d.thinking /\ e.effort = d.effort
  BY <1>3, FieldNames
<1> QED
  BY <1>2, <1>4 DEF HasDraftFields

(* Neither does one of these fields itself, with values it may have.       *)
LEMMA PutOwnFields ==
  ASSUME NEW d, HasDraftFields(d), NEW e,
         \/ e \in Put(d, "thinking", BOOLEAN)
         \/ e \in Put(d, "hitl", BOOLEAN)
         \/ e \in Put(d, "effort", {"medium", "high"})
  PROVE  HasDraftFields(e)
<1>1. CASE e \in Put(d, "thinking", BOOLEAN)
  <2>1. PICK v \in BOOLEAN : e = [d EXCEPT !.thinking = v]
    BY <1>1 DEF Put
  <2> QED
    BY <2>1, FieldNames DEF HasDraftFields
<1>2. CASE e \in Put(d, "hitl", BOOLEAN)
  <2>1. PICK v \in BOOLEAN : e = [d EXCEPT !.hitl = v]
    BY <1>2 DEF Put
  <2> QED
    BY <2>1, FieldNames DEF HasDraftFields
<1>3. CASE e \in Put(d, "effort", {"medium", "high"})
  <2>1. PICK v \in {"medium", "high"} : e = [d EXCEPT !.effort = v]
    BY <1>3 DEF Put
  <2> QED
    BY <2>1, FieldNames DEF HasDraftFields
<1> QED
  BY <1>1, <1>2, <1>3

(* EnsureHitlDraftSafety makes a draft of them.                            *)
LEMMA EnsureMakesDraft ==
  ASSUME NEW d, HasDraftFields(d)
  PROVE  IsDraft(EnsureHitlDraftSafety(d))
<1> DEFINE e == EnsureHitlDraftSafety(d)
<1>1. CASE d.hitl
  <2>1. e = d
    BY <1>1 DEF EnsureHitlDraftSafety
  <2> QED
    BY <1>1, <2>1 DEF IsDraft, HitlSafe
<1>2. CASE ~d.hitl
  <2>1. e = [d EXCEPT !.tools = d.tools \ HITL_ONLY_TOOL_NAMES]
    BY <1>2 DEF EnsureHitlDraftSafety
  <2>2. DOMAIN e = Fields /\ e.tools = d.tools \ HITL_ONLY_TOOL_NAMES
    BY <2>1, FieldNames DEF HasDraftFields
  <2>3. e.hitl = d.hitl /\ e.thinking = d.thinking /\ e.effort = d.effort
    BY <2>1, FieldNames DEF HasDraftFields
  <2> HIDE DEF e
  <2>4. HasDraftFields(e) /\ HitlSafe(e)
    BY <2>2, <2>3 DEF HasDraftFields, HitlSafe
  <2> QED
    BY <2>4 DEF IsDraft, e
<1> QED
  BY <1>1, <1>2

(* What the panel changes is a draft again.                                *)
LEMMA PanelEditsAreDrafts ==
  ASSUME NEW d, IsDraft(d), NEW e \in PanelEdits(d)
  PROVE  IsDraft(e)
<1>1. PICK r : /\ e = EnsureHitlDraftSafety(r)
               /\ \/ r \in ModelFieldEdits(d)
                  \/ r \in ThinkingEdits(d)
                  \/ r \in HitlEdits(d)
                  \/ r \in GuardrailEdits(d)
                  \/ r \in Put(d, "servers", McpServerEdits(d.servers))
                  \/ r \in Put(d, "agents", {"ok", "ok2", "bad"})
                  \/ r \in Put(d, "format", ResponseFormatEdits(d.format))
                  \/ r \in Put(d, "memory", MemoryEdits(d.memory))
                  \/ r \in Put(d, "sandbox", SandboxEdits(d.sandbox))
  BY Zenon DEF PanelEdits
<1>2. HasDraftFields(d)
  BY DEF IsDraft
<1>3. CASE r \in ModelFieldEdits(d)
  <2>1. \/ r \in Put(d, "text", {"a", "b", "bad"})
        \/ r \in Put(d, "mode", {"inherit", "override"})
        \/ r \in Put(d, "url", {"", "u"})
    BY <1>3 DEF ModelFieldEdits
  <2> QED
    BY <1>1, <1>2, <2>1, PutKeepsFields, EnsureMakesDraft
<1>4. CASE r \in ThinkingEdits(d)
  <2>1. r \in Put(d, "thinking", BOOLEAN) \/ r \in Put(d, "effort", {"medium", "high"})
    BY <1>4 DEF ThinkingEdits
  <2> QED
    BY <1>1, <1>2, <2>1, PutOwnFields, EnsureMakesDraft
<1>5. CASE r \in HitlEdits(d)
  <2>1. \/ r \in Put(d, "hitl", BOOLEAN)
        \/ r \in Put(d, "approvals", StringListEdits(d.approvals, {"", "bash"}))
    BY <1>5 DEF HitlEdits
  <2> QED
    BY <1>1, <1>2, <2>1, PutOwnFields, PutKeepsFields, EnsureMakesDraft
<1>6. CASE r \in GuardrailEdits(d)
  <2>1. \/ r \in Put(d, "rules", RuleListEdits(d.rules))
        \/ r \in Put(d, "toolRules", ToolRuleEdits(d.toolRules))
    BY <1>6 DEF GuardrailEdits
  <2> QED
    BY <1>1, <1>2, <2>1, PutKeepsFields, EnsureMakesDraft
<1>7. CASE \/ r \in Put(d, "servers", McpServerEdits(d.servers))
           \/ r \in Put(d, "agents", {"ok", "ok2", "bad"})
           \/ r \in Put(d, "format", ResponseFormatEdits(d.format))
           \/ r \in Put(d, "memory", MemoryEdits(d.memory))
           \/ r \in Put(d, "sandbox", SandboxEdits(d.sandbox))
  BY <1>1, <1>2, <1>7, PutKeepsFields, EnsureMakesDraft
<1> QED
  BY <1>1, <1>3, <1>4, <1>5, <1>6, <1>7

(* And what the bar under the composer makes of it.                        *)
LEMMA QuickEditsAreDrafts ==
  ASSUME NEW d, IsDraft(d), NEW e \in QuickEdits(d)
  PROVE  IsDraft(e)
<1>1. PICK r : /\ e = EnsureHitlDraftSafety(r)
               /\ \/ r \in Put(d, "text", {"a", "b"})
                  \/ r = [d EXCEPT !.thinking = FALSE]
                  \/ \E v \in {"medium", "high"} : r = [d EXCEPT !.thinking = TRUE, !.effort = v]
  BY Zenon DEF QuickEdits
<1>2. HasDraftFields(d)
  BY DEF IsDraft
<1>3. CASE r \in Put(d, "text", {"a", "b"})
  BY <1>1, <1>2, <1>3, PutKeepsFields, EnsureMakesDraft
<1>4. CASE r = [d EXCEPT !.thinking = FALSE]
  <2>1. HasDraftFields(r)
    BY <1>2, <1>4, FieldNames DEF HasDraftFields
  <2> QED
    BY <1>1, <2>1, EnsureMakesDraft
<1>5. CASE \E v \in {"medium", "high"} : r = [d EXCEPT !.thinking = TRUE, !.effort = v]
  <2>1. PICK v \in {"medium", "high"} : r = [d EXCEPT !.thinking = TRUE, !.effort = v]
    BY <1>5
  <2>2. HasDraftFields(r)
    BY <1>2, <2>1, FieldNames DEF HasDraftFields
  <2> QED
    BY <1>1, <2>2, EnsureMakesDraft
<1> QED
  BY <1>1, <1>3, <1>4, <1>5

(* So do the toggle of a tool and the presets.                             *)
LEMMA ToggleAndPresetsAreDrafts ==
  ASSUME NEW d, IsDraft(d)
  PROVE  /\ \A t \in Tools : IsDraft(ToggleTool(d, t))
         /\ IsDraft(ApplyHitlQuestionPreset(d))
         /\ IsDraft(ApplyHitlApprovalPreset(d))
<1>1. HasDraftFields(d)
  BY DEF IsDraft
<1>2. ASSUME NEW t \in Tools
      PROVE  IsDraft(ToggleTool(d, t))
  <2> DEFINE r == [d EXCEPT !.tools = IF t \in @ THEN @ \ {t} ELSE @ \cup {t}]
  <2>1. HasDraftFields(r)
    BY <1>1, <1>2, FieldNames DEF HasDraftFields
  <2> HIDE DEF r
  <2>2. IsDraft(EnsureHitlDraftSafety(r))
    BY <2>1, EnsureMakesDraft
  <2> QED
    BY <2>2 DEF ToggleTool, r
<1>3. IsDraft(ApplyHitlQuestionPreset(d))
  <2> DEFINE r == ApplyHitlQuestionPreset(d)
  <2>1. DOMAIN r = Fields /\ r.tools = {"ask_user_question"} /\ r.hitl = TRUE
        /\ r.thinking = d.thinking /\ r.effort = d.effort
    BY <1>1, FieldNames DEF HasDraftFields, ApplyHitlQuestionPreset
  <2> HIDE DEF r
  <2>2. IsDraft(r)
    BY <1>1, <2>1 DEF IsDraft, HasDraftFields, HitlSafe, Tools
  <2> QED
    BY <2>2 DEF r
<1>4. IsDraft(ApplyHitlApprovalPreset(d))
  <2> DEFINE r == ApplyHitlApprovalPreset(d)
  <2>1. DOMAIN r = Fields /\ r.tools = {"bash"} /\ r.hitl = TRUE
        /\ r.thinking = d.thinking /\ r.effort = d.effort
    BY <1>1, FieldNames DEF HasDraftFields, ApplyHitlApprovalPreset
  <2> HIDE DEF r
  <2>2. IsDraft(r)
    BY <1>1, <2>1 DEF IsDraft, HasDraftFields, HitlSafe, Tools
  <2> QED
    BY <2>2 DEF r
<1> QED
  BY <1>2, <1>3, <1>4

(* The draft the program starts with, and what the catalog makes of one.   *)
LEMMA FirstDrafts ==
  /\ IsDraft(DEFAULT_SESSION_DRAFT)
  /\ \A d : IsDraft(d) => IsDraft(EnsureHitlDraftSafety([d EXCEPT !.tools = CatalogDefaults]))
<1>1. IsDraft(DEFAULT_SESSION_DRAFT)
  <2> DEFINE r == DEFAULT_SESSION_DRAFT
  <2>1. r.tools = Tools \ HITL_ONLY_TOOL_NAMES /\ r.hitl = FALSE /\ r.thinking = TRUE
        /\ r.effort = "medium" /\ DOMAIN r = Fields
    BY DEF DEFAULT_SESSION_DRAFT, DEFAULT_ENABLED_TOOLS, Fields
  <2> HIDE DEF r
  <2>2. IsDraft(r)
    BY <2>1 DEF IsDraft, HasDraftFields, HitlSafe
  <2> QED
    BY <2>2 DEF r
<1>2. ASSUME NEW d, IsDraft(d)
      PROVE  IsDraft(EnsureHitlDraftSafety([d EXCEPT !.tools = CatalogDefaults]))
  <2> DEFINE r == [d EXCEPT !.tools = CatalogDefaults]
  <2>1. HasDraftFields(r)
    BY <1>2, FieldNames DEF IsDraft, HasDraftFields, CatalogDefaults, Tools
  <2> HIDE DEF r
  <2>2. IsDraft(EnsureHitlDraftSafety(r))
    BY <2>1, EnsureMakesDraft
  <2> QED
    BY <2>2 DEF r
<1> QED
  BY <1>1, <1>2

-----------------------------------------------------------------------------
(* To the server and back.                                                 *)

(* A payload: the effort goes if the model does not think, the rest is the *)
(* draft.                                                                  *)
LEMMA PayloadOfDraft ==
  ASSUME NEW d, IsDraft(d)
  PROVE  /\ IsPayload(BuildSessionPayload(d))
         /\ \A f \in Fields \ {"effort"} : BuildSessionPayload(d)[f] = d[f]
         /\ BuildSessionPayload(d).effort = IF d.thinking THEN d.effort ELSE "null"
<1> DEFINE e == EnsureHitlDraftSafety(d)
           p == BuildSessionPayload(d)
<1>1. DOMAIN e = Fields /\ \A f \in Fields : e[f] = d[f]
  <2>1. CASE d.hitl
    BY <2>1 DEF EnsureHitlDraftSafety, IsDraft, HasDraftFields
  <2>2. CASE ~d.hitl
    <3>1. e = [d EXCEPT !.tools = d.tools \ HITL_ONLY_TOOL_NAMES]
      BY <2>2 DEF EnsureHitlDraftSafety
    <3>2. d.tools \ HITL_ONLY_TOOL_NAMES = d.tools
      BY <2>2 DEF IsDraft, HitlSafe
    <3>3. DOMAIN d = Fields
      BY DEF IsDraft, HasDraftFields
    <3> HIDE DEF e
    <3> QED
      BY <3>1, <3>2, <3>3
  <2> QED
    BY <2>1, <2>2
<1>2. p = [e EXCEPT !.effort = IF d.thinking THEN e.effort ELSE "null"]
  BY DEF BuildSessionPayload
<1> HIDE DEF e, p
<1>3. DOMAIN p = Fields /\ p.effort = IF d.thinking THEN d.effort ELSE "null"
  BY <1>1, <1>2, FieldNames
<1>4. \A f \in Fields \ {"effort"} : p[f] = d[f]
  BY <1>1, <1>2
<1>5. p.tools = d.tools /\ p.hitl = d.hitl /\ p.thinking = d.thinking
  BY <1>4, FieldNames
<1>6. IsPayload(p)
  BY <1>3, <1>5 DEF IsDraft, HasDraftFields, IsPayload, HitlSafe
<1> QED
  BY <1>3, <1>4, <1>6 DEF p

(* A draft of a configuration shows its values, but for the effort that is *)
(* not sent and the empty list of tools.                                   *)
LEMMA DraftOfPayload ==
  ASSUME NEW c, IsPayload(c)
  PROVE  /\ IsDraft(SessionDetailToDraft(c))
         /\ \A f \in Fields \ {"effort", "tools"} : SessionDetailToDraft(c)[f] = c[f]
         /\ c.thinking => SessionDetailToDraft(c).effort = c.effort
         /\ c.tools # {} => SessionDetailToDraft(c).tools = c.tools
<1> DEFINE d == SessionDetailToDraft(c)
<1>1. DOMAIN c = Fields /\ "effort" \in Fields /\ "tools" \in Fields
  BY FieldNames DEF IsPayload
<1>2. /\ DOMAIN d = Fields
      /\ d.effort = IF c.effort = "null" THEN "medium" ELSE c.effort
      /\ d.tools = IF c.tools = {} THEN DEFAULT_ENABLED_TOOLS ELSE c.tools
      /\ \A f \in Fields \ {"effort", "tools"} : d[f] = c[f]
  BY <1>1 DEF SessionDetailToDraft
<1> HIDE DEF d
<1>3. d.hitl = c.hitl /\ d.thinking = c.thinking
  BY <1>2, FieldNames
<1>4. d.tools \subseteq Tools /\ HitlSafe(d)
  BY <1>2, <1>3 DEF IsPayload, HitlSafe, DEFAULT_ENABLED_TOOLS
<1>5. IsDraft(d)
  BY <1>2, <1>3, <1>4 DEF IsDraft, HasDraftFields, IsPayload
<1>6. c.thinking => c.effort # "null"
  BY DEF IsPayload
<1> QED
  BY <1>2, <1>5, <1>6 DEF d

(* Saving the form of the server's version changes only what was touched.  *)
LEMMA RoundTrip ==
  ASSUME NEW c, IsPayload(c), c.tools # {}, NEW d, IsDraft(d), NEW touched,
         \A f \in Fields \ touched : d[f] = SessionDetailToDraft(c)[f]
  PROVE  \A f \in Fields \ WithEffort(touched) : BuildSessionPayload(d)[f] = c[f]
<1> SUFFICES ASSUME NEW f \in Fields, f \notin WithEffort(touched)
             PROVE  BuildSessionPayload(d)[f] = c[f]
  OBVIOUS
<1>1. f \notin touched /\ (f = "effort" => "thinking" \notin touched)
  BY DEF WithEffort
<1>2. d[f] = SessionDetailToDraft(c)[f]
  BY <1>1
<1>3. CASE f = "effort"
  <2>1. d.thinking = c.thinking
    BY <1>1, <1>3, DraftOfPayload, FieldNames
  <2>2. CASE c.thinking
    BY <1>2, <1>3, <2>1, <2>2, DraftOfPayload, PayloadOfDraft
  <2>3. CASE ~c.thinking
    <3>1. BuildSessionPayload(d).effort = "null"
      BY <2>1, <2>3, PayloadOfDraft
    <3>2. c.effort = "null"
      BY <2>3 DEF IsPayload
    <3> QED
      BY <1>3, <3>1, <3>2
  <2> QED
    BY <2>2, <2>3
<1>4. CASE f = "tools"
  <2>1. BuildSessionPayload(d)[f] = d[f]
    BY <1>4, PayloadOfDraft
  <2>2. SessionDetailToDraft(c).tools = c.tools
    BY DraftOfPayload
  <2> QED
    BY <1>2, <1>4, <2>1, <2>2
<1>5. CASE f \notin {"effort", "tools"}
  BY <1>2, <1>5, DraftOfPayload, PayloadOfDraft
<1> QED
  BY <1>3, <1>4, <1>5

(* The configuration the instances start with is one.                      *)
LEMMA FirstConfigIsPayload == IsPayload(FirstConfig)
<1> DEFINE q == ApplyHitlQuestionPreset(DEFAULT_SESSION_DRAFT)
           rule == [NewRule EXCEPT !.pattern = "p"]
           r == [q EXCEPT !.thinking = FALSE, !.approvals = {"bash"}, !.rules = <<rule>>,
                          !.toolRules = <<[NewToolRule EXCEPT !.name = "n", !.rules = <<rule>>]>>,
                          !.servers = <<[NewServer("remote_http") EXCEPT !.name = "n"]>>,
                          !.format = <<[NewField EXCEPT !.name = "n"]>>]
<1>1. IsDraft(q)
  BY FirstDrafts, ToggleAndPresetsAreDrafts
<1>2. FirstConfig = BuildSessionPayload(r)
  BY DEF FirstConfig
<1> HIDE DEF q, rule
<1>3. DOMAIN r = Fields /\ r.tools = q.tools /\ r.hitl = q.hitl /\ r.thinking = FALSE /\ r.effort = q.effort
  BY <1>1, FieldNames DEF IsDraft, HasDraftFields
<1> HIDE DEF r
<1>4. IsDraft(r)
  BY <1>1, <1>3 DEF IsDraft, HasDraftFields, HitlSafe
<1> QED
  BY <1>2, <1>4, PayloadOfDraft

-----------------------------------------------------------------------------
(* What a step of the server leaves of the copies.                         *)

(* A form stays one of the server's.                                       *)
LEMMA FormStays ==
  ASSUME NEW c, NEW v, NEW c2, NEW v2, IsServer(c, v), IsServer(c2, v2), ServerMoves(c, v, c2, v2),
         NEW fm, IsForm(fm), FormIsOf(fm, c, v)
  PROVE  FormIsOf(fm, c2, v2)
<1> DEFINE s == fm.session
<1>1. /\ s \in Sessions /\ fm.version \in Nat /\ v[s] \in Nat /\ v2[s] \in Nat
      /\ c[s] # NoValue /\ fm.version <= v[s]
  BY DEF IsForm, IsServer, FormIsOf
<1>2. c2[s] # NoValue /\ v[s] <= v2[s] /\ (v2[s] = v[s] => c2[s] = c[s])
  BY <1>1 DEF ServerMoves
<1>3. fm.version <= v2[s]
  BY <1>1, <1>2
<1>4. ASSUME fm.version = v2[s]
      PROVE  \A f \in Fields \ fm.touched : fm.draft[f] = SessionDetailToDraft(c2[s])[f]
  <2>1. v2[s] = v[s] /\ c2[s] = c[s]
    BY <1>1, <1>2, <1>4
  <2> QED
    BY <1>4, <2>1 DEF FormIsOf
<1> QED
  BY <1>2, <1>3, <1>4 DEF FormIsOf

(* So does an answer.                                                      *)
LEMMA AnswerStays ==
  ASSUME NEW c, NEW v, NEW c2, NEW v2, IsServer(c, v), IsServer(c2, v2), ServerMoves(c, v, c2, v2),
         NEW s \in Sessions, NEW a, AnswerIsOf(s, a, c, v)
  PROVE  AnswerIsOf(s, a, c2, v2)
<1>1. /\ a.version \in Nat /\ v[s] \in Nat /\ v2[s] \in Nat
      /\ c[s] # NoValue /\ a.version <= v[s] /\ (a.version = v[s] => a.config = c[s])
  BY DEF IsServer, AnswerIsOf
<1>2. c2[s] # NoValue /\ v[s] <= v2[s] /\ (v2[s] = v[s] => c2[s] = c[s])
  BY <1>1 DEF ServerMoves
<1>3. a.version <= v2[s] /\ (a.version = v2[s] => a.config = c2[s])
  BY <1>1, <1>2
<1> QED
  BY <1>2, <1>3 DEF AnswerIsOf

(* And so does all the cache, and what is in flight.                       *)
LEMMA CopiesStay ==
  ASSUME NEW c, NEW v, NEW c2, NEW v2, IsServer(c, v), IsServer(c2, v2), ServerMoves(c, v, c2, v2)
  PROVE  /\ \A d : IsCache(d, c, v) => IsCache(d, c2, v2)
         /\ \A x : SaveIsOf(x, c, v) => SaveIsOf(x, c2, v2)
         /\ \A fm : IsForm(fm) /\ FormIsOf(fm, c, v) => FormIsOf(fm, c2, v2)
<1>1. ASSUME NEW d, IsCache(d, c, v)
      PROVE  IsCache(d, c2, v2)
  BY <1>1, AnswerStays DEF IsCache
<1>2. ASSUME NEW x, SaveIsOf(x, c, v)
      PROVE  SaveIsOf(x, c2, v2)
  <2>1. IsSave(x) /\ IsForm(x.form) /\ x.session \in Sessions
    BY <1>2 DEF SaveIsOf, IsSave
  <2>2. FormIsOf(x.form, c2, v2)
    BY <1>2, <2>1, FormStays DEF SaveIsOf
  <2>3. x.applied # NoValue => AnswerIsOf(x.session, x.applied, c2, v2)
    BY <1>2, <2>1, AnswerStays DEF SaveIsOf
  <2> QED
    BY <2>1, <2>2, <2>3 DEF SaveIsOf
<1>3. ASSUME NEW fm, IsForm(fm), FormIsOf(fm, c, v)
      PROVE  FormIsOf(fm, c2, v2)
  BY <1>3, FormStays
<1> QED
  BY <1>1, <1>2, <1>3

(* A form filled from an answer is of the server's.                        *)
LEMMA FilledForm ==
  ASSUME NEW c, NEW v, NEW s \in Sessions, NEW d, d[s] # NoValue, AnswerIsOf(s, d[s], c, v)
  PROVE  IsForm(FormOf(s, d)) /\ FormIsOf(FormOf(s, d), c, v) /\ FormOf(s, d).session = s
<1> DEFINE fm == FormOf(s, d)
<1>1. /\ DOMAIN fm = {"session", "version", "touched", "draft"}
      /\ fm.session = s /\ fm.version = d[s].version /\ fm.touched = {}
      /\ fm.draft = SessionDetailToDraft(d[s].config)
  BY DEF FormOf
<1> HIDE DEF fm
<1>2. IsDraft(fm.draft)
  BY <1>1, DraftOfPayload DEF AnswerIsOf
<1>3. IsForm(fm)
  BY <1>1, <1>2 DEF IsForm, AnswerIsOf
<1>4. FormIsOf(fm, c, v)
  BY <1>1 DEF FormIsOf, AnswerIsOf
<1> QED
  BY <1>1, <1>3, <1>4 DEF fm

-----------------------------------------------------------------------------
(* The steps of the page.                                                  *)

(* What the page shows is of the server's.                                 *)
LEMMA ShowsKeeps ==
  ASSUME NEW s \in Routes, NEW d, Shows(s, d), IsCache(d, config', version'),
         s # NoSession => config'[s] # NoValue,
         form # NoValue => IsForm(form) /\ FormIsOf(form, config', version')
  PROVE  CacheInv' /\ ShownInv' /\ FormInv'
<1>1. shown' = s /\ detail' = d /\ form' = SyncedForm(s, d)
  BY DEF Shows
<1>2. CacheInv' /\ ShownInv'
  BY <1>1 DEF CacheInv, ShownInv
<1>3. FormInv'
  <2>1. CASE ~HasSession(s, d)
    <3>1. form' = NoValue
      BY <1>1, <2>1 DEF SyncedForm
    <3> QED
      BY <3>1 DEF FormInv
  <2>2. CASE HasSession(s, d)
    <3>1. s \in Sessions /\ d[s] # NoValue
      BY <2>2 DEF HasSession, Routes
    <3>2. CASE form # NoValue /\ form.session = s /\ form.version = d[s].version
      <4>1. form' = form
        BY <1>1, <2>2, <3>2 DEF SyncedForm
      <4> QED
        BY <1>1, <3>1, <3>2, <4>1 DEF FormInv
    <3>3. CASE ~(form # NoValue /\ form.session = s /\ form.version = d[s].version)
      <4>1. form' = FormOf(s, d)
        BY <1>1, <2>2, <3>3 DEF SyncedForm
      <4>2. AnswerIsOf(s, d[s], config', version')
        BY <3>1 DEF IsCache
      <4>3. IsForm(form') /\ FormIsOf(form', config', version') /\ form'.session = s
        BY <3>1, <4>1, <4>2, FilledForm
      <4> QED
        BY <1>1, <3>1, <4>3 DEF FormInv
    <3> QED
      BY <3>2, <3>3
  <2> QED
    BY <2>1, <2>2
<1> QED
  BY <1>2, <1>3

(* The catalog leaves a draft a draft.                                     *)
LEMMA HydrateKeeps ==
  ASSUME NEW dr, IsDraft(dr), NEW pending \in BOOLEAN, NEW c, NEW has, Hydrate(dr, pending, c, has)
  PROVE  /\ IsDraft(draft') /\ hydrating' \in BOOLEAN
         /\ dr.tools # DEFAULT_ENABLED_TOOLS => draft' = dr
<1>1. \/ draft' = dr /\ hydrating' = pending
      \/ /\ dr.tools = DEFAULT_ENABLED_TOOLS /\ hydrating' = FALSE
         /\ draft' = EnsureHitlDraftSafety([dr EXCEPT !.tools = CatalogDefaults])
      \/ draft' = dr /\ hydrating' = FALSE
  BY DEF Hydrate
<1> QED
  BY <1>1, FirstDrafts

(* A step that leaves the server and the saves alone.                      *)
LEMMA PageStep ==
  ASSUME ConfigInv, UNCHANGED <<configServerVars, saveVars>>,
         CacheInv', ShownInv', FormInv', NewSessionInv',
         edits' \in 0..MaxEdits, catalog' \in BOOLEAN, hydrating' \in BOOLEAN
  PROVE  ConfigInv'
<1>1. ServerInv'
  BY DEF ConfigInv, ServerInv, configServerVars
<1>2. SavesInv'
  BY DEF ConfigInv, SavesInv, configServerVars, saveVars
<1>3. CountersInv'
  BY DEF ConfigInv, CountersInv, saveVars
<1> QED
  BY <1>1, <1>2, <1>3 DEF ConfigInv

(* What is shown stays valid while nothing of it moves.                    *)
LEMMA ShownStays ==
  ASSUME ConfigInv, UNCHANGED <<configServerVars, shown, detail>>
  PROVE  /\ CacheInv' /\ ShownInv'
         /\ form' = form => FormInv'
BY DEF ConfigInv, CacheInv, ShownInv, FormInv, configServerVars

(* Another session, a new draft, the catalog: ConfigInv holds after them.  *)
LEMMA MovesKeep ==
  ASSUME ConfigInv, ShowAnotherSession \/ ComposeNewDraft \/ CatalogArrives \/ DetailArrives
  PROVE  ConfigInv'
<1> USE DEF ConfigInv
<1>0. /\ form # NoValue => IsForm(form) /\ FormIsOf(form, config, version)
      /\ IsDraft(draft) /\ hydrating \in BOOLEAN /\ catalog \in BOOLEAN
      /\ IsCache(detail, config, version) /\ IsServer(config, version)
      /\ edits \in 0..MaxEdits
  BY DEF FormInv, NewSessionInv, CountersInv, CacheInv, ServerInv
<1>1. CASE ShowAnotherSession
  <2>1. PICK s \in Sessions : config[s] # NoValue /\ Shows(s, detail)
    BY <1>1 DEF ShowAnotherSession
  <2>2. config' = config /\ version' = version /\ creating' = creating /\ edits' = edits
        /\ UNCHANGED <<configServerVars, saveVars>>
    BY <1>1 DEF ShowAnotherSession, configServerVars
  <2>3. CacheInv' /\ ShownInv' /\ FormInv'
    BY <1>0, <2>1, <2>2, ShowsKeeps DEF Routes
  <2>4. DraftSettles
    BY <1>1 DEF ShowAnotherSession
  <2>5. IsDraft(draft') /\ hydrating' \in BOOLEAN /\ catalog' = catalog
    BY <1>0, <2>4, HydrateKeeps DEF DraftSettles
  <2>6. NewSessionInv'
    BY <2>2, <2>5 DEF NewSessionInv
  <2> QED
    BY <1>0, <2>2, <2>3, <2>5, <2>6, PageStep
<1>2. CASE ComposeNewDraft
  <2>1. config' = config /\ version' = version /\ creating' = creating /\ edits' = edits
        /\ UNCHANGED <<configServerVars, saveVars>> /\ catalog' = catalog
    BY <1>2 DEF ComposeNewDraft, configServerVars
  <2>2. Shows(NoSession, detail) /\ Hydrate(DEFAULT_SESSION_DRAFT, TRUE, catalog, FALSE)
    BY <1>2 DEF ComposeNewDraft
  <2>3. CacheInv' /\ ShownInv' /\ FormInv'
    BY <1>0, <2>1, <2>2, ShowsKeeps DEF Routes
  <2>4. IsDraft(draft') /\ hydrating' \in BOOLEAN
    BY <2>2, FirstDrafts, HydrateKeeps
  <2>5. NewSessionInv'
    BY <2>1, <2>4 DEF NewSessionInv
  <2> QED
    BY <1>0, <2>1, <2>3, <2>4, <2>5, PageStep
<1>3. CASE CatalogArrives
  <2>1. /\ UNCHANGED <<configServerVars, shown, detail>> /\ form' = form
        /\ UNCHANGED <<configServerVars, saveVars>>
        /\ creating' = creating /\ edits' = edits /\ catalog' = TRUE
    BY <1>3 DEF CatalogArrives
  <2>2. CacheInv' /\ ShownInv' /\ FormInv'
    BY <2>1, ShownStays
  <2>3. IsDraft(draft') /\ hydrating' \in BOOLEAN
    BY <1>0, <1>3, HydrateKeeps DEF CatalogArrives
  <2>4. NewSessionInv'
    BY <2>1, <2>3 DEF NewSessionInv
  <2> QED
    BY <1>0, <2>1, <2>2, <2>3, <2>4, PageStep
<1>4. CASE DetailArrives
  <2> DEFINE d == [detail EXCEPT ![shown] = [config |-> config[shown], version |-> version[shown]]]
  <2>1. config' = config /\ version' = version /\ creating' = creating /\ edits' = edits
        /\ UNCHANGED <<configServerVars, saveVars>>
    BY <1>4 DEF DetailArrives, configServerVars
  <2>2. shown \in Sessions /\ config[shown] # NoValue /\ Shows(shown, d) /\ DraftSettles
    BY <1>4 DEF DetailArrives, ShownInv, Routes
  <2>3. DOMAIN d = Sessions /\ \A s \in Sessions : d[s] = IF s = shown THEN
                                  [config |-> config[shown], version |-> version[shown]] ELSE detail[s]
    BY <1>0 DEF IsCache
  <2>4. AnswerIsOf(shown, [config |-> config[shown], version |-> version[shown]], config, version)
    BY <1>0, <2>2 DEF AnswerIsOf, IsServer
  <2> HIDE DEF d
  <2>5. IsCache(d, config', version')
    BY <1>0, <2>1, <2>3, <2>4 DEF IsCache
  <2>6. CacheInv' /\ ShownInv' /\ FormInv'
    BY <1>0, <2>1, <2>2, <2>5, ShowsKeeps DEF Routes
  <2>7. IsDraft(draft') /\ hydrating' \in BOOLEAN /\ catalog' = catalog
    BY <1>0, <2>2, HydrateKeeps DEF DraftSettles
  <2>8. NewSessionInv'
    BY <2>1, <2>7 DEF NewSessionInv
  <2> QED
    BY <1>0, <2>1, <2>6, <2>7, <2>8, PageStep
<1> QED
  BY <1>1, <1>2, <1>3, <1>4

(* What is active is a draft, of the form shown or of a new session.       *)
LEMMA ActiveIsDraft ==
  ASSUME ConfigInv
  PROVE  /\ IsDraft(ActiveConfig)
         /\ HasForm => IsForm(form) /\ FormIsOf(form, config, version) /\ form.session = shown
BY DEF ConfigInv, FormInv, NewSessionInv, IsForm, ActiveConfig, HasForm

(* A form that is edited stays one of the server's.                        *)
LEMMA EditedForm ==
  ASSUME NEW c, NEW v, IsForm(form), FormIsOf(form, c, v), NEW e, IsDraft(e), EditForm(e)
  PROVE  /\ IsForm(form') /\ FormIsOf(form', c, v) /\ form'.session = form.session
         /\ form'.draft = e
<1> DEFINE t == form.touched \cup {f \in Fields : e[f] # form.draft[f]}
<1>1. form' = [form EXCEPT !.draft = e, !.touched = t]
  BY DEF EditForm
<1>2. t \subseteq Fields /\ form.touched \subseteq t /\ \A f \in Fields \ t : e[f] = form.draft[f]
  BY DEF IsForm
<1> HIDE DEF t
<1>3. /\ DOMAIN form' = {"session", "version", "touched", "draft"}
      /\ form'.session = form.session /\ form'.version = form.version
      /\ form'.touched = t /\ form'.draft = e
  BY <1>1 DEF IsForm
<1>4. IsForm(form')
  BY <1>2, <1>3 DEF IsForm
<1>5. FormIsOf(form', c, v)
  BY <1>2, <1>3 DEF FormIsOf
<1> QED
  BY <1>3, <1>4, <1>5

(* A draft of a new session stays a draft.                                 *)
LEMMA EditedDraft ==
  ASSUME ConfigInv, NEW e, IsDraft(e), EditDraft(e)
  PROVE  IsDraft(draft') /\ hydrating' \in BOOLEAN
BY HydrateKeeps DEF ConfigInv, CountersInv, EditDraft

(* Whatever the user changes: ConfigInv holds after it.                    *)
LEMMA EditKeeps ==
  ASSUME ConfigInv, NEW Es, \A e \in Es : IsDraft(e), EditActive(Es)
  PROVE  ConfigInv'
<1>1. PICK e \in Es \ {ActiveConfig} :
        IF HasForm THEN EditForm(e) /\ UNCHANGED <<draft, hydrating, chosen>>
        ELSE EditDraft(e) /\ UNCHANGED form
  BY DEF EditActive
<1>2. IsDraft(e)
  OBVIOUS
<1>3. /\ UNCHANGED <<configServerVars, shown, detail>> /\ UNCHANGED <<configServerVars, saveVars>>
      /\ config' = config /\ version' = version /\ shown' = shown /\ detail' = detail
      /\ catalog' = catalog /\ creating' = creating
  BY DEF EditActive, configServerVars
<1>4. edits' \in 0..MaxEdits
  BY ConfigBoundsAssumption DEF EditActive, Edit, ConfigInv, CountersInv
<1>5. catalog' \in BOOLEAN
  BY <1>3 DEF ConfigInv, CountersInv
<1>6. CacheInv' /\ ShownInv' /\ (form' = form => FormInv')
  BY <1>3, ShownStays
<1>7. CASE HasForm
  <2>1. EditForm(e) /\ draft' = draft /\ hydrating' = hydrating
    BY <1>1, <1>7
  <2>2. IsForm(form) /\ FormIsOf(form, config, version) /\ form.session = shown
    BY <1>7, ActiveIsDraft
  <2>3. IsForm(form') /\ FormIsOf(form', config, version) /\ form'.session = form.session
    BY <1>2, <2>1, <2>2, EditedForm
  <2>4. detail[shown] # NoValue
    BY <1>7 DEF ConfigInv, FormInv, HasForm
  <2>5. FormInv'
    BY <1>3, <2>2, <2>3, <2>4 DEF FormInv
  <2>6. NewSessionInv' /\ hydrating' \in BOOLEAN
    BY <1>3, <2>1 DEF ConfigInv, NewSessionInv, CountersInv
  <2> QED
    BY <1>3, <1>4, <1>5, <1>6, <2>5, <2>6, PageStep
<1>8. CASE ~HasForm
  <2>1. EditDraft(e) /\ form' = form
    BY <1>1, <1>8
  <2>2. IsDraft(draft') /\ hydrating' \in BOOLEAN
    BY <1>2, <2>1, EditedDraft
  <2>3. NewSessionInv'
    BY <1>3, <2>2 DEF ConfigInv, NewSessionInv
  <2> QED
    BY <1>3, <1>4, <1>5, <1>6, <2>1, <2>2, <2>3, PageStep
<1> QED
  BY <1>7, <1>8

(* The panel's changes and the reset: ConfigInv holds after them.          *)
LEMMA PanelKeeps ==
  ASSUME ConfigInv,
         HandleConfigChange \/ HandleToggleTool \/ HandleApplyHitlPreset \/ HandleResetConfig
  PROVE  ConfigInv'
<1>1. IsDraft(ActiveConfig)
  BY ActiveIsDraft
<1>2. CASE HandleConfigChange
  <2>1. \A e \in PanelEdits(ActiveConfig) : IsDraft(e)
    BY <1>1, PanelEditsAreDrafts
  <2> QED
    BY <1>2, <2>1, EditKeeps DEF HandleConfigChange
<1>3. CASE HandleToggleTool
  <2>1. \A e \in {ToggleTool(ActiveConfig, t) : t \in Tools} : IsDraft(e)
    BY <1>1, ToggleAndPresetsAreDrafts
  <2> QED
    BY <1>3, <2>1, EditKeeps DEF HandleToggleTool
<1>4. CASE HandleApplyHitlPreset
  <2>1. \A e \in {ApplyHitlQuestionPreset(ActiveConfig), ApplyHitlApprovalPreset(ActiveConfig)} : IsDraft(e)
    BY <1>1, ToggleAndPresetsAreDrafts
  <2> QED
    BY <1>4, <2>1, EditKeeps DEF HandleApplyHitlPreset
<1>5. CASE HandleResetConfig
  <2>1. /\ UNCHANGED <<configServerVars, shown, detail>> /\ UNCHANGED <<configServerVars, saveVars>>
        /\ config' = config /\ version' = version /\ shown' = shown /\ detail' = detail
        /\ catalog' = catalog /\ creating' = creating /\ edits' = edits
    BY <1>5 DEF HandleResetConfig, configServerVars
  <2>2. CacheInv' /\ ShownInv' /\ (form' = form => FormInv')
    BY <2>1, ShownStays
  <2>3. edits' \in 0..MaxEdits /\ catalog' \in BOOLEAN
    BY <2>1 DEF ConfigInv, CountersInv
  <2>4. CASE HasForm
    <3>1. form' = FormOf(shown, detail) /\ draft' = draft /\ hydrating' = hydrating
      BY <1>5, <2>4 DEF HandleResetConfig
    <3>2. shown \in Sessions /\ detail[shown] # NoValue
      BY <2>4 DEF ConfigInv, FormInv, HasForm, IsForm
    <3>3. AnswerIsOf(shown, detail[shown], config, version)
      BY <3>2 DEF ConfigInv, CacheInv, IsCache
    <3>4. IsForm(form') /\ FormIsOf(form', config, version) /\ form'.session = shown
      BY <3>1, <3>2, <3>3, FilledForm
    <3>5. FormInv'
      BY <2>1, <3>2, <3>4 DEF FormInv
    <3>6. NewSessionInv' /\ hydrating' \in BOOLEAN
      BY <2>1, <3>1 DEF ConfigInv, NewSessionInv, CountersInv
    <3> QED
      BY <2>1, <2>2, <2>3, <3>5, <3>6, PageStep
  <2>5. CASE ~HasForm
    <3>1. Hydrate(DEFAULT_SESSION_DRAFT, TRUE, catalog, FALSE) /\ form' = form
      BY <1>5, <2>5 DEF HandleResetConfig
    <3>2. IsDraft(draft') /\ hydrating' \in BOOLEAN
      BY <3>1, FirstDrafts, HydrateKeeps
    <3>3. NewSessionInv'
      BY <2>1, <3>2 DEF ConfigInv, NewSessionInv
    <3> QED
      BY <2>1, <2>2, <2>3, <3>1, <3>2, <3>3, PageStep
  <2> QED
    BY <2>4, <2>5
<1> QED
  BY <1>2, <1>3, <1>4, <1>5

-----------------------------------------------------------------------------
(* The saves.                                                              *)

(* A save that starts carries what its form makes.                         *)
LEMMA NewSave ==
  ASSUME ConfigInv, NEW fm, IsForm(fm), FormIsOf(fm, config, version), fm.session = shown,
         NEW quick, PersistCurrentSessionConfig(fm, quick)
  PROVE  /\ \A x \in saves' : SaveIsOf(x, config, version)
         /\ saved_' \in 0..MaxSaves
<1>1. saved_' \in 1..MaxSaves
  BY ConfigBoundsAssumption DEF PersistCurrentSessionConfig, ConfigInv, CountersInv
<1> DEFINE n == [no |-> saved_', quick |-> quick, session |-> shown, form |-> fm,
                 payload |-> BuildSessionPayload(fm.draft), applied |-> NoValue]
<1>2. ASSUME ~PayloadFails(fm.draft)
      PROVE  SaveIsOf(n, config, version)
  <2>1. /\ DOMAIN n = {"no", "quick", "session", "form", "payload", "applied"}
        /\ n.no = saved_' /\ n.session = shown /\ n.form = fm
        /\ n.payload = BuildSessionPayload(fm.draft) /\ n.applied = NoValue
    OBVIOUS
  <2> HIDE DEF n
  <2>2. shown \in Sessions
    BY DEF IsForm
  <2>3. IsSave(n)
    BY <1>1, <1>2, <2>1, <2>2 DEF IsSave
  <2> QED
    BY <2>1, <2>3 DEF SaveIsOf
<1>3. \A x \in saves' : x \in saves \/ (~PayloadFails(fm.draft) /\ x = n)
  BY DEF PersistCurrentSessionConfig
<1>4. \A x \in saves : SaveIsOf(x, config, version)
  BY DEF ConfigInv, SavesInv
<1> HIDE DEF n
<1> QED
  BY <1>1, <1>2, <1>3, <1>4

(* The button and the bar: ConfigInv holds after them.                     *)
LEMMA SavesStart ==
  ASSUME ConfigInv, HandleSaveCurrentSession \/ HandleQuickConfigChange
  PROVE  ConfigInv'
<1>1. ServerInv /\ CountersInv /\ NewSessionInv /\ IsServer(config, version)
  BY DEF ConfigInv, ServerInv
<1>2. CASE HandleSaveCurrentSession
  <2>1. /\ UNCHANGED <<configServerVars, shown, detail>> /\ config' = config /\ version' = version
        /\ form' = form /\ draft' = draft /\ creating' = creating
        /\ catalog' = catalog /\ hydrating' = hydrating /\ edits' = edits
    BY <1>2 DEF HandleSaveCurrentSession, configServerVars, draftVars
  <2>2. IsForm(form) /\ FormIsOf(form, config, version) /\ form.session = shown
    BY <1>2, ActiveIsDraft DEF HandleSaveCurrentSession
  <2>3. (\A x \in saves' : SaveIsOf(x, config, version)) /\ saved_' \in 0..MaxSaves
    BY <1>2, <2>2, NewSave DEF HandleSaveCurrentSession
  <2>4. CacheInv' /\ ShownInv' /\ FormInv'
    BY <2>1, ShownStays
  <2>5. ServerInv' /\ SavesInv' /\ NewSessionInv' /\ CountersInv'
    BY <1>1, <2>1, <2>3 DEF ServerInv, SavesInv, NewSessionInv, CountersInv
  <2> QED
    BY <2>4, <2>5 DEF ConfigInv
<1>3. CASE HandleQuickConfigChange
  <2>1. PICK e \in QuickEdits(ActiveConfig) \ {ActiveConfig} :
          IF HasForm
          THEN /\ EditForm(e)
               /\ PersistCurrentSessionConfig(form', TRUE)
               /\ UNCHANGED <<draft, hydrating, chosen>>
          ELSE EditDraft(e) /\ UNCHANGED <<form, saveVars>>
    BY <1>3 DEF HandleQuickConfigChange
  <2>2. IsDraft(e)
    BY ActiveIsDraft, QuickEditsAreDrafts
  <2>3. /\ UNCHANGED <<configServerVars, shown, detail>> /\ UNCHANGED configServerVars
        /\ config' = config /\ version' = version /\ shown' = shown /\ detail' = detail
        /\ catalog' = catalog /\ creating' = creating
    BY <1>3 DEF HandleQuickConfigChange, configServerVars
  <2>4. edits' \in 0..MaxEdits
    BY <1>1, <1>3, ConfigBoundsAssumption DEF HandleQuickConfigChange, Edit, CountersInv
  <2>5. catalog' \in BOOLEAN
    BY <1>1, <2>3 DEF CountersInv
  <2>6. CacheInv' /\ ShownInv' /\ (form' = form => FormInv')
    BY <2>3, ShownStays
  <2>7. CASE HasForm
    <3>1. EditForm(e) /\ PersistCurrentSessionConfig(form', TRUE) /\ draft' = draft /\ hydrating' = hydrating
      BY <2>1, <2>7
    <3>2. IsForm(form) /\ FormIsOf(form, config, version) /\ form.session = shown
          /\ detail[shown] # NoValue
      BY <2>7, ActiveIsDraft DEF ConfigInv, FormInv, HasForm
    <3>3. IsForm(form') /\ FormIsOf(form', config, version) /\ form'.session = shown
      BY <2>2, <3>1, <3>2, EditedForm
    <3>4. (\A x \in saves' : SaveIsOf(x, config, version)) /\ saved_' \in 0..MaxSaves
      <4>1. PICK g : g = form'
        OBVIOUS
      <4> QED
        BY <3>1, <3>3, <4>1, NewSave
    <3>5. FormInv'
      BY <2>3, <3>2, <3>3 DEF FormInv
    <3>6. ServerInv' /\ SavesInv' /\ NewSessionInv' /\ CountersInv'
      BY <1>1, <2>3, <2>4, <2>5, <3>1, <3>4 DEF ServerInv, SavesInv, NewSessionInv, CountersInv
    <3> QED
      BY <2>6, <3>5, <3>6 DEF ConfigInv
  <2>8. CASE ~HasForm
    <3>1. EditDraft(e) /\ form' = form /\ UNCHANGED saveVars
      BY <2>1, <2>8
    <3>2. IsDraft(draft') /\ hydrating' \in BOOLEAN
      BY <2>2, <3>1, EditedDraft
    <3>3. NewSessionInv'
      BY <1>1, <2>3, <3>2 DEF NewSessionInv
    <3>4. UNCHANGED <<configServerVars, saveVars>>
      BY <2>3, <3>1
    <3> QED
      BY <2>4, <2>5, <2>6, <3>1, <3>2, <3>3, <3>4, PageStep
  <2> QED
    BY <2>7, <2>8
<1> QED
  BY <1>2, <1>3

(* A step of the server that keeps the page's state.                       *)
LEMMA ServerStep ==
  ASSUME ConfigInv, IsServer(config', version'), ServerMoves(config, version, config', version'),
         UNCHANGED <<shown, detail, form, draftVars, saved_, edits>>,
         creating' # NoValue => IsPayload(creating'), SavesInv'
  PROVE  ConfigInv'
<1>1. /\ IsServer(config, version) /\ IsCache(detail, config, version)
      /\ form # NoValue => IsForm(form) /\ FormIsOf(form, config, version)
  BY DEF ConfigInv, ServerInv, CacheInv, FormInv
<1>2. /\ shown' = shown /\ detail' = detail /\ form' = form /\ draft' = draft
      /\ catalog' = catalog /\ hydrating' = hydrating /\ saved_' = saved_ /\ edits' = edits
  BY DEF draftVars
<1>3. IsCache(detail, config', version')
  BY <1>1, CopiesStay
<1>4. form # NoValue => FormIsOf(form, config', version')
  BY <1>1, CopiesStay
<1>5. ServerInv' /\ CacheInv'
  BY <1>2, <1>3 DEF ServerInv, CacheInv
<1>6. ShownInv'
  BY <1>2 DEF ConfigInv, ShownInv, ServerMoves, Routes
<1>7. FormInv'
  BY <1>2, <1>4 DEF ConfigInv, FormInv
<1>8. NewSessionInv' /\ CountersInv'
  BY <1>2 DEF ConfigInv, NewSessionInv, CountersInv
<1> QED
  BY <1>5, <1>6, <1>7, <1>8 DEF ConfigInv

(* The server takes a save: ConfigInv holds after it.                      *)
LEMMA ApplyKeeps ==
  ASSUME ConfigInv, NEW x \in saves, ApplySave(x)
  PROVE  ConfigInv'
<1> DEFINE s == x.session
           a == [config |-> x.payload, version |-> version'[s]]
           y == [x EXCEPT !.applied = a]
<1>1. IsServer(config, version) /\ SaveIsOf(x, config, version) /\ IsSave(x) /\ s \in Sessions
  BY DEF ConfigInv, ServerInv, SavesInv, SaveIsOf, IsSave
<1>2. /\ config' = [config EXCEPT ![s] = x.payload]
      /\ version' = [version EXCEPT ![s] = version[s] + 1]
      /\ saves' = (saves \ {x}) \cup {y}
      /\ UNCHANGED <<shown, detail, form, draftVars, saved_, edits>> /\ creating' = creating
  BY DEF ApplySave
<1>3. IsDraft(x.form.draft) /\ x.payload = BuildSessionPayload(x.form.draft)
  BY <1>1 DEF IsSave, IsForm
<1>4. IsPayload(x.payload) /\ x.payload # NoValue
  BY <1>3, PayloadOfDraft, FieldsAreSomething DEF IsPayload
<1>5. /\ config'[s] = x.payload /\ version'[s] = version[s] + 1 /\ version[s] \in Nat
      /\ \A t \in Sessions \ {s} : config'[t] = config[t] /\ version'[t] = version[t]
  BY <1>1, <1>2 DEF IsServer
<1>6. IsServer(config', version')
  <2>1. DOMAIN config' = Sessions /\ version' \in [Sessions -> Nat]
    BY <1>1, <1>2 DEF IsServer
  <2>2. \A t \in Sessions : config'[t] # NoValue => IsPayload(config'[t])
    BY <1>1, <1>4, <1>5 DEF IsServer
  <2> QED
    BY <2>1, <2>2 DEF IsServer
<1>7. ServerMoves(config, version, config', version')
  <2> SUFFICES ASSUME NEW t \in Sessions, config[t] # NoValue
               PROVE  /\ config'[t] # NoValue /\ version[t] <= version'[t]
                      /\ version'[t] = version[t] => config'[t] = config[t]
    BY DEF ServerMoves
  <2>1. version[t] \in Nat
    BY <1>1 DEF IsServer
  <2>2. CASE t = s
    BY <1>4, <1>5, <2>2
  <2>3. CASE t # s
    BY <1>5, <2>1, <2>3
  <2> QED
    BY <2>2, <2>3
<1>8. SaveIsOf(y, config', version')
  <2>1. SaveIsOf(x, config', version')
    BY <1>1, <1>6, <1>7, CopiesStay
  <2>2. a.config = x.payload /\ a.version = version'[s]
    OBVIOUS
  <2> HIDE DEF a
  <2>3. /\ DOMAIN y = DOMAIN x /\ y.applied = a
        /\ y.no = x.no /\ y.session = s /\ y.form = x.form /\ y.payload = x.payload
    BY <1>1 DEF IsSave
  <2>4. AnswerIsOf(s, a, config', version')
    BY <1>4, <1>5, <2>2 DEF AnswerIsOf
  <2> HIDE DEF y
  <2>5. IsSave(y)
    BY <1>1, <2>3 DEF IsSave
  <2> QED
    BY <2>1, <2>3, <2>4, <2>5 DEF SaveIsOf
<1>9. SavesInv'
  <2>1. \A z \in saves : SaveIsOf(z, config', version')
    BY <1>1, <1>6, <1>7, CopiesStay DEF ConfigInv, SavesInv
  <2> HIDE DEF y
  <2> QED
    BY <1>2, <1>8, <2>1 DEF SavesInv
<1>10. creating' # NoValue => IsPayload(creating')
  BY <1>2 DEF ConfigInv, NewSessionInv
<1> QED
  BY <1>2, <1>6, <1>7, <1>9, <1>10, ServerStep

(* The answer to a save, or its failure: ConfigInv holds after them.       *)
LEMMA SavesEnd ==
  ASSUME ConfigInv, NEW x \in saves, SaveAnswered(x) \/ SaveFails(x)
  PROVE  ConfigInv'
<1>1. /\ SaveIsOf(x, config, version) /\ IsServer(config, version) /\ IsCache(detail, config, version)
      /\ form # NoValue => IsForm(form) /\ FormIsOf(form, config, version)
      /\ shown \in Routes /\ (shown # NoSession => config[shown] # NoValue)
      /\ IsDraft(draft) /\ hydrating \in BOOLEAN /\ CountersInv /\ ServerInv /\ SavesInv
  BY DEF ConfigInv, ServerInv, CacheInv, ShownInv, FormInv, SavesInv, NewSessionInv, CountersInv
<1>2. /\ config' = config /\ version' = version /\ saves' = saves \ {x}
      /\ creating' = creating /\ saved_' = saved_ /\ edits' = edits
  BY DEF SaveAnswered, SaveFails, configServerVars
<1>3. ServerInv' /\ SavesInv'
  BY <1>1, <1>2 DEF ServerInv, SavesInv
<1>4. CASE SaveAnswered(x)
  <2> DEFINE d == [detail EXCEPT ![x.session] = x.applied]
  <2>1. x.applied # NoValue /\ Shows(shown, d) /\ DraftSettles
    BY <1>4 DEF SaveAnswered
  <2>2. x.session \in Sessions /\ AnswerIsOf(x.session, x.applied, config, version)
    BY <1>1, <2>1 DEF SaveIsOf, IsSave
  <2>3. DOMAIN d = Sessions /\ \A t \in Sessions : d[t] = IF t = x.session THEN x.applied ELSE detail[t]
    BY <1>1 DEF IsCache
  <2> HIDE DEF d
  <2>4. IsCache(d, config', version')
    BY <1>1, <1>2, <2>2, <2>3 DEF IsCache
  <2>5. CacheInv' /\ ShownInv' /\ FormInv'
    BY <1>1, <1>2, <2>1, <2>4, ShowsKeeps
  <2>6. IsDraft(draft') /\ hydrating' \in BOOLEAN /\ catalog' = catalog
    BY <1>1, <2>1, HydrateKeeps DEF DraftSettles
  <2>7. NewSessionInv' /\ CountersInv'
    BY <1>1, <1>2, <2>6 DEF ConfigInv, NewSessionInv, CountersInv
  <2> QED
    BY <1>3, <2>5, <2>7 DEF ConfigInv
<1>5. CASE SaveFails(x)
  <2>1. /\ UNCHANGED <<configServerVars, shown, detail>> /\ form' = form /\ draft' = draft
        /\ catalog' = catalog /\ hydrating' = hydrating
    BY <1>5 DEF SaveFails, configServerVars, draftVars
  <2>2. CacheInv' /\ ShownInv' /\ FormInv'
    BY <2>1, ShownStays
  <2>3. NewSessionInv' /\ CountersInv'
    BY <1>2, <2>1 DEF ConfigInv, NewSessionInv, CountersInv
  <2> QED
    BY <1>3, <2>2, <2>3 DEF ConfigInv
<1> QED
  BY <1>4, <1>5

-----------------------------------------------------------------------------
(* New sessions and other clients.                                         *)

(* The steps of a new session: ConfigInv holds after them.                 *)
LEMMA CreatingKeeps ==
  ASSUME ConfigInv, HandleCreateSession \/ SessionCreated \/ CreateFails
  PROVE  ConfigInv'
<1>1. /\ IsServer(config, version) /\ IsCache(detail, config, version)
      /\ form # NoValue => IsForm(form) /\ FormIsOf(form, config, version)
      /\ IsDraft(draft) /\ hydrating \in BOOLEAN /\ (creating # NoValue => IsPayload(creating))
  BY DEF ConfigInv, ServerInv, CacheInv, FormInv, NewSessionInv, CountersInv
<1>2. CASE HandleCreateSession \/ CreateFails
  <2>1. /\ UNCHANGED <<configServerVars, shown, detail>> /\ UNCHANGED <<configServerVars, saveVars>>
        /\ form' = form /\ draft' = draft
        /\ edits' = edits /\ catalog' = catalog /\ hydrating' = hydrating
    BY <1>2 DEF HandleCreateSession, CreateFails, configServerVars, draftVars
  <2>2. creating' # NoValue => IsPayload(creating')
    BY <1>1, <1>2, PayloadOfDraft DEF HandleCreateSession, CreateFails
  <2>3. NewSessionInv'
    BY <1>1, <2>1, <2>2 DEF NewSessionInv
  <2>4. edits' \in 0..MaxEdits /\ catalog' \in BOOLEAN /\ hydrating' \in BOOLEAN
    BY <2>1 DEF ConfigInv, CountersInv
  <2>5. CacheInv' /\ ShownInv' /\ FormInv'
    BY <2>1, ShownStays
  <2> QED
    BY <2>1, <2>3, <2>4, <2>5, PageStep
<1>3. CASE SessionCreated
  <2>1. PICK s \in {x \in Sessions : config[x] = NoValue} :
          /\ config' = [config EXCEPT ![s] = creating]
          /\ Shows(s, [detail EXCEPT ![s] = [config |-> creating, version |-> version[s]]])
    BY <1>3 DEF SessionCreated
  <2>2. /\ creating # NoValue /\ creating' = NoValue /\ DraftSettles /\ version' = version
        /\ saves' = saves /\ saved_' = saved_ /\ edits' = edits
    BY <1>3 DEF SessionCreated, saveVars
  <2> DEFINE a == [config |-> creating, version |-> version[s]]
             d == [detail EXCEPT ![s] = a]
  <2>3. s \in Sessions /\ config[s] = NoValue /\ Shows(s, d)
    BY <2>1
  <2>4. config'[s] = creating /\ \A t \in Sessions \ {s} : config'[t] = config[t]
    BY <1>1, <2>1 DEF IsServer
  <2>5. IsServer(config', version')
    <3>1. DOMAIN config' = Sessions
      BY <1>1, <2>1 DEF IsServer
    <3>2. \A t \in Sessions : config'[t] # NoValue => IsPayload(config'[t])
      BY <1>1, <2>2, <2>4 DEF IsServer
    <3> QED
      BY <1>1, <2>2, <3>1, <3>2 DEF IsServer
  <2>6. ServerMoves(config, version, config', version')
    <3> SUFFICES ASSUME NEW t \in Sessions, config[t] # NoValue
                 PROVE  /\ config'[t] # NoValue /\ version[t] <= version'[t]
                        /\ version'[t] = version[t] => config'[t] = config[t]
      BY DEF ServerMoves
    <3>1. t # s /\ version[t] \in Nat
      BY <1>1, <2>3 DEF IsServer
    <3> QED
      BY <2>2, <2>4, <3>1
  <2>7. a.config = creating /\ a.version = version[s]
    OBVIOUS
  <2> HIDE DEF a
  <2>8. AnswerIsOf(s, a, config', version')
    BY <1>1, <2>2, <2>3, <2>4, <2>7 DEF AnswerIsOf, IsServer
  <2>9. DOMAIN d = Sessions /\ \A t \in Sessions : d[t] = IF t = s THEN a ELSE detail[t]
    BY <1>1 DEF IsCache
  <2> HIDE DEF d
  <2>10. IsCache(detail, config', version')
    BY <1>1, <2>5, <2>6, CopiesStay
  <2>11. IsCache(d, config', version')
    BY <2>8, <2>9, <2>10 DEF IsCache
  <2>12. form # NoValue => IsForm(form) /\ FormIsOf(form, config', version')
    BY <1>1, <2>5, <2>6, CopiesStay
  <2>13. CacheInv' /\ ShownInv' /\ FormInv'
    BY <2>2, <2>3, <2>4, <2>11, <2>12, ShowsKeeps DEF Routes
  <2>14. IsDraft(draft') /\ hydrating' \in BOOLEAN /\ catalog' = catalog
    BY <1>1, <2>2, HydrateKeeps DEF DraftSettles
  <2>15. NewSessionInv' /\ CountersInv'
    BY <2>2, <2>14 DEF ConfigInv, NewSessionInv, CountersInv
  <2>16. SavesInv'
    BY <1>1, <2>2, <2>5, <2>6, CopiesStay DEF ConfigInv, SavesInv
  <2> QED
    BY <2>5, <2>13, <2>15, <2>16 DEF ConfigInv, ServerInv
<1> QED
  BY <1>2, <1>3

(* Another client changes a session: ConfigInv holds after it.             *)
LEMMA ChangedElsewhereKeeps ==
  ASSUME ConfigInv, ChangedElsewhere
  PROVE  ConfigInv'
<1>1. IsServer(config, version)
  BY DEF ConfigInv, ServerInv
<1>2. PICK s \in Sessions : /\ config[s] # NoValue
                            /\ version' = [version EXCEPT ![s] = version[s] + 1]
                            /\ config' = [config EXCEPT ![s].text = "b"]
  BY DEF ChangedElsewhere
<1>3. /\ UNCHANGED <<shown, detail, form, draftVars, saved_, edits>>
      /\ creating' = creating /\ saves' = saves
  BY DEF ChangedElsewhere, saveVars
<1> DEFINE c == [config[s] EXCEPT !.text = "b"]
<1>4. IsPayload(config[s])
  BY <1>1, <1>2 DEF IsServer
<1>5. DOMAIN c = Fields /\ \A f \in Fields \ {"text"} : c[f] = config[s][f]
  BY <1>4 DEF IsPayload
<1>6. config' = [config EXCEPT ![s] = c]
  BY <1>2
<1> HIDE DEF c
<1>7. IsPayload(c)
  <2>1. c.tools = config[s].tools /\ c.hitl = config[s].hitl /\ c.thinking = config[s].thinking
        /\ c.effort = config[s].effort
    BY <1>5, FieldNames
  <2> QED
    BY <1>4, <1>5, <2>1 DEF IsPayload, HitlSafe
<1>8. /\ config'[s] = c /\ c # NoValue /\ version'[s] = version[s] + 1 /\ version[s] \in Nat
      /\ \A t \in Sessions \ {s} : config'[t] = config[t] /\ version'[t] = version[t]
  BY <1>1, <1>2, <1>5, <1>6, FieldsAreSomething DEF IsServer
<1>9. IsServer(config', version')
  <2>1. DOMAIN config' = Sessions /\ version' \in [Sessions -> Nat]
    BY <1>1, <1>2, <1>6 DEF IsServer
  <2>2. \A t \in Sessions : config'[t] # NoValue => IsPayload(config'[t])
    BY <1>1, <1>7, <1>8 DEF IsServer
  <2> QED
    BY <2>1, <2>2 DEF IsServer
<1>10. ServerMoves(config, version, config', version')
  <2> SUFFICES ASSUME NEW t \in Sessions, config[t] # NoValue
               PROVE  /\ config'[t] # NoValue /\ version[t] <= version'[t]
                      /\ version'[t] = version[t] => config'[t] = config[t]
    BY DEF ServerMoves
  <2>1. version[t] \in Nat
    BY <1>1 DEF IsServer
  <2>2. CASE t = s
    BY <1>8, <2>2
  <2>3. CASE t # s
    BY <1>8, <2>1, <2>3
  <2> QED
    BY <2>2, <2>3
<1>11. SavesInv'
  BY <1>1, <1>3, <1>9, <1>10, CopiesStay DEF ConfigInv, SavesInv
<1>12. creating' # NoValue => IsPayload(creating')
  BY <1>3 DEF ConfigInv, NewSessionInv
<1> QED
  BY <1>3, <1>9, <1>10, <1>11, <1>12, ServerStep

-----------------------------------------------------------------------------
(* The theorems.                                                           *)

(* Every session of the start has the same first configuration.            *)
LEMMA ConfigInit ==
  ASSUME SessionConfigInit
  PROVE  ConfigInv
<1>1. \A s \in Sessions : config[s] # NoValue => IsPayload(config[s])
  BY FirstConfigIsPayload DEF SessionConfigInit
<1>2. ServerInv
  BY <1>1 DEF SessionConfigInit, ServerInv, IsServer
<1>3. CacheInv /\ ShownInv /\ FormInv /\ SavesInv
  BY DEF SessionConfigInit, CacheInv, IsCache, ShownInv, FormInv, SavesInv, Routes
<1>4. NewSessionInv /\ CountersInv
  <2>1. IsDraft(draft) /\ creating = NoValue
    BY FirstDrafts DEF SessionConfigInit
  <2>2. edits = 0 /\ saved_ = 0 /\ catalog = FALSE /\ hydrating = TRUE
    BY DEF SessionConfigInit
  <2>3. NewSessionInv
    BY <2>1 DEF NewSessionInv
  <2>4. 0 \in 0..MaxEdits /\ 0 \in 0..MaxSaves
    BY ConfigBoundsAssumption
  <2>5. CountersInv
    BY <2>2, <2>4 DEF CountersInv
  <2> QED
    BY <2>3, <2>5
<1> QED
  BY <1>2, <1>3, <1>4 DEF ConfigInv

(* Every step keeps ConfigInv.                                             *)
LEMMA ConfigStep ==
  ASSUME ConfigInv, [SessionConfigNext]_configVars
  PROVE  ConfigInv'
<1>1. CASE SessionConfigNext
  <2>1. CASE \E x \in saves : ApplySave(x) \/ SaveAnswered(x) \/ SaveFails(x)
    BY <2>1, ApplyKeeps, SavesEnd
  <2>2. CASE ShowAnotherSession \/ ComposeNewDraft \/ CatalogArrives \/ DetailArrives
    BY <2>2, MovesKeep
  <2>3. CASE HandleConfigChange \/ HandleToggleTool \/ HandleApplyHitlPreset \/ HandleResetConfig
    BY <2>3, PanelKeeps
  <2>4. CASE HandleSaveCurrentSession \/ HandleQuickConfigChange
    BY <2>4, SavesStart
  <2>5. CASE HandleCreateSession \/ SessionCreated \/ CreateFails
    BY <2>5, CreatingKeeps
  <2>6. CASE ChangedElsewhere
    BY <2>6, ChangedElsewhereKeeps
  <2> QED
    BY <1>1, <2>1, <2>2, <2>3, <2>4, <2>5, <2>6 DEF SessionConfigNext
<1>2. CASE UNCHANGED configVars
  BY <1>2 DEF configVars, configServerVars, draftVars, saveVars, ConfigInv, ServerInv, CacheInv,
              ShownInv, FormInv, SavesInv, NewSessionInv, CountersInv
<1> QED
  BY <1>1, <1>2

(* Each copy of a configuration - cached, shown, in a save - is not ahead  *)
(* of the server, and one of the server's version holds the server's       *)
(* values, but for what the user touched.                                  *)
THEOREM ConfigInvariant == SessionConfigSpec => []ConfigInv
<1>1. SessionConfigInit => ConfigInv
  BY ConfigInit
<1>2. ConfigInv /\ [SessionConfigNext]_configVars => ConfigInv'
  BY ConfigStep
<1> QED
  BY <1>1, <1>2, PTL DEF SessionConfigSpec

(* The state of the configuration panel keeps its types.                   *)
THEOREM ConfigTypeCorrect == SessionConfigSpec => []SessionConfigTypeOK
<1>1. ConfigInv => SessionConfigTypeOK
  <2> SUFFICES ASSUME ConfigInv
               PROVE  SessionConfigTypeOK
    OBVIOUS
  <2>1. shown \in Routes /\ version \in [Sessions -> Nat]
    BY DEF ConfigInv, ShownInv, ServerInv, IsServer
  <2>2. \A s \in Sessions : config[s] # NoValue => DOMAIN config[s] = Fields
    BY DEF ConfigInv, ServerInv, IsServer, IsPayload
  <2>3. form # NoValue => form.session \in Sessions /\ form.touched \subseteq Fields
    BY DEF ConfigInv, FormInv, IsForm
  <2>4. DOMAIN draft = Fields /\ draft.tools \subseteq Tools
    BY DEF ConfigInv, NewSessionInv, IsDraft, HasDraftFields
  <2>5. \A x \in saves : x.session \in Sessions /\ x.no \in 1..MaxSaves
    BY DEF ConfigInv, SavesInv, SaveIsOf, IsSave
  <2>6. edits \in 0..MaxEdits /\ saved_ \in 0..MaxSaves /\ catalog \in BOOLEAN /\ hydrating \in BOOLEAN
    BY DEF ConfigInv, CountersInv
  <2> QED
    BY <2>1, <2>2, <2>3, <2>4, <2>5, <2>6 DEF SessionConfigTypeOK
<1> QED
  BY <1>1, ConfigInvariant, PTL

(* The form is that of the session shown, a save came from a form of its   *)
(* own session, and what is saved or created has no tool that asks a human *)
(* without one and no rule half written.                                   *)
THEOREM SavedPayloadsAreSound == SessionConfigSpec => []PayloadsAreSound
<1>1. ConfigInv => PayloadsAreSound
  <2> SUFFICES ASSUME ConfigInv
               PROVE  PayloadsAreSound
    OBVIOUS
  <2>1. form # NoValue => form.session = shown
    BY DEF ConfigInv, FormInv
  <2>2. ASSUME NEW x \in saves
        PROVE  /\ x.form.session = x.session
               /\ x.payload.tools \cap HITL_ONLY_TOOL_NAMES # {} => x.payload.hitl
               /\ RulesAreComplete(x.payload.rules) /\ ToolRulesAreComplete(x.payload.toolRules)
    <3>1. /\ x.form.session = x.session /\ IsDraft(x.form.draft)
          /\ x.payload = BuildSessionPayload(x.form.draft) /\ ~PayloadFails(x.form.draft)
      BY DEF ConfigInv, SavesInv, SaveIsOf, IsSave, IsForm
    <3>2. IsPayload(x.payload)
      BY <3>1, PayloadOfDraft
    <3>3. x.payload.rules = x.form.draft.rules /\ x.payload.toolRules = x.form.draft.toolRules
      BY <3>1, FieldNames, PayloadOfDraft
    <3>4. RulesAreComplete(x.form.draft.rules) /\ ToolRulesAreComplete(x.form.draft.toolRules)
      BY <3>1 DEF PayloadFails
    <3> QED
      BY <3>1, <3>2, <3>3, <3>4 DEF IsPayload, HitlSafe
  <2>3. creating # NoValue => (creating.tools \cap HITL_ONLY_TOOL_NAMES # {} => creating.hitl)
    BY DEF ConfigInv, NewSessionInv, IsPayload, HitlSafe
  <2> QED
    BY <2>1, <2>2, <2>3 DEF PayloadsAreSound
<1> QED
  BY <1>1, ConfigInvariant, PTL

(* A save of a form of the server's version changes no field the user did  *)
(* not touch.                                                              *)
THEOREM SavesKeepTheRest == SessionConfigSpec => SaveChangesOnlyEdits
<1>1. ASSUME ConfigInv, NEW x \in saves, ApplySave(x),
             version[x.session] = x.form.version, config[x.session].tools # {}
      PROVE  \A f \in Fields \ WithEffort(x.form.touched) :
                config'[x.session][f] = config[x.session][f]
  <2> DEFINE s == x.session
  <2>1. /\ s \in Sessions /\ x.form.session = s /\ IsDraft(x.form.draft)
        /\ x.payload = BuildSessionPayload(x.form.draft)
        /\ FormIsOf(x.form, config, version) /\ IsServer(config, version)
    BY <1>1 DEF ConfigInv, SavesInv, SaveIsOf, IsSave, IsForm, ServerInv
  <2>2. config'[s] = x.payload
    BY <1>1, <2>1 DEF ApplySave, IsServer
  <2>3. IsPayload(config[s])
    BY <2>1 DEF FormIsOf, IsServer
  <2>4. \A f \in Fields \ x.form.touched : x.form.draft[f] = SessionDetailToDraft(config[s])[f]
    BY <1>1, <2>1 DEF FormIsOf
  <2>5. \A f \in Fields \ WithEffort(x.form.touched) :
           BuildSessionPayload(x.form.draft)[f] = config[s][f]
    BY <1>1, <2>1, <2>3, <2>4, RoundTrip
  <2> QED
    BY <2>1, <2>2, <2>5
<1>2. ConfigInv => [\A x \in saves :
        ApplySave(x) /\ version[x.session] = x.form.version /\ config[x.session].tools # {} =>
          \A f \in Fields \ WithEffort(x.form.touched) :
             config'[x.session][f] = config[x.session][f]]_configVars
  BY <1>1
<1> QED
  BY <1>2, ConfigInvariant, PTL DEF SaveChangesOnlyEdits

(* What the user chose for a new session stays when the catalog arrives.   *)
LEMMA ChoiceStep ==
  ASSUME CatalogKeepsChoice, [SessionConfigNext]_configVars
  PROVE  CatalogKeepsChoice'
<1>1. ASSUME NEW dr, NEW pending, NEW c, NEW has, Hydrate(dr, pending, c, has),
             dr.tools # DEFAULT_ENABLED_TOOLS
      PROVE  draft' = dr
  BY <1>1 DEF Hydrate
<1>2. CASE chosen' = chosen /\ draft' = draft
  BY <1>2 DEF CatalogKeepsChoice
<1>3. CASE chosen' = chosen /\ \E p, c, has : Hydrate(draft, p, c, has)
  <2>1. CASE draft.tools = DEFAULT_ENABLED_TOOLS
    BY <1>3, <2>1 DEF CatalogKeepsChoice
  <2>2. CASE draft.tools # DEFAULT_ENABLED_TOOLS
    BY <1>1, <1>3, <2>2 DEF CatalogKeepsChoice
  <2> QED
    BY <2>1, <2>2
<1>4. CASE chosen' = NoValue
  BY <1>4 DEF CatalogKeepsChoice
<1>5. CASE \E e : EditDraft(e)
  <2>1. PICK e : EditDraft(e)
    BY <1>5
  <2>2. Hydrate(e, hydrating, catalog, FALSE)
        /\ chosen' = IF e.tools # draft.tools THEN <<e.tools>> ELSE chosen
    BY <2>1 DEF EditDraft
  <2>3. CASE e.tools = DEFAULT_ENABLED_TOOLS
    <3>1. CASE e.tools # draft.tools
      <4>1. chosen'[1] = DEFAULT_ENABLED_TOOLS
        BY <2>2, <2>3, <3>1
      <4> QED
        BY <4>1 DEF CatalogKeepsChoice
    <3>2. CASE e.tools = draft.tools
      BY <2>2, <2>3, <3>2 DEF CatalogKeepsChoice
    <3> QED
      BY <3>1, <3>2
  <2>4. CASE e.tools # DEFAULT_ENABLED_TOOLS
    <3>1. draft' = e
      BY <1>1, <2>2, <2>4
    <3> QED
      BY <2>2, <3>1 DEF CatalogKeepsChoice
  <2> QED
    BY <2>3, <2>4
<1>6. CASE ShowAnotherSession \/ DetailArrives \/ SessionCreated \/ \E x \in saves : SaveAnswered(x)
  <2>1. DraftSettles
    BY <1>6 DEF ShowAnotherSession, DetailArrives, SessionCreated, SaveAnswered
  <2> QED
    BY <1>3, <2>1 DEF DraftSettles
<1>7. CASE CatalogArrives
  BY <1>3, <1>7 DEF CatalogArrives
<1>8. CASE ComposeNewDraft
  BY <1>4, <1>8 DEF ComposeNewDraft
<1>9. CASE \E Es : EditActive(Es)
  <2>1. \/ UNCHANGED <<draft, hydrating, chosen>>
        \/ \E e : EditDraft(e)
    BY <1>9 DEF EditActive
  <2> QED
    BY <1>2, <1>5, <2>1
<1>10. CASE HandleResetConfig
  BY <1>2, <1>4, <1>10 DEF HandleResetConfig
<1>11. CASE HandleQuickConfigChange
  <2>1. \/ UNCHANGED <<draft, hydrating, chosen>>
        \/ \E e : EditDraft(e)
    BY <1>11 DEF HandleQuickConfigChange
  <2> QED
    BY <1>2, <1>5, <2>1
<1>12. CASE \/ HandleSaveCurrentSession \/ HandleCreateSession \/ CreateFails \/ ChangedElsewhere
            \/ \E x \in saves : ApplySave(x) \/ SaveFails(x)
  BY <1>2, <1>12 DEF HandleSaveCurrentSession, HandleCreateSession, CreateFails, ChangedElsewhere,
                     ApplySave, SaveFails, draftVars
<1>13. CASE HandleConfigChange \/ HandleToggleTool \/ HandleApplyHitlPreset
  BY <1>9, <1>13 DEF HandleConfigChange, HandleToggleTool, HandleApplyHitlPreset
<1>14. CASE UNCHANGED configVars
  BY <1>2, <1>14 DEF configVars, draftVars
<1> QED
  BY <1>6, <1>7, <1>8, <1>10, <1>11, <1>12, <1>13, <1>14 DEF SessionConfigNext

(* The tools chosen for a new session stay, unless they are the default    *)
(* ones, which the catalog may replace.                                    *)
THEOREM ChoiceIsKept == SessionConfigSpec => []CatalogKeepsChoice
<1>1. SessionConfigInit => CatalogKeepsChoice
  BY DEF SessionConfigInit, CatalogKeepsChoice
<1>2. CatalogKeepsChoice /\ [SessionConfigNext]_configVars => CatalogKeepsChoice'
  BY ChoiceStep
<1> QED
  BY <1>1, <1>2, PTL DEF SessionConfigSpec
=============================================================================
