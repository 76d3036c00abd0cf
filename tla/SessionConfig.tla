--------------------------- MODULE SessionConfig ----------------------------
(***************************************************************************)
(* The configuration of a session on the chat page: the draft of a new     *)
(* session, the form of the session shown (sessionConfig), the cached      *)
(* details it is filled from, the saves in flight, and the catalog of      *)
(* tools that arrives some time after the page.                            *)
(*                                                                         *)
(* A form remembers, for the properties, which session and which version   *)
(* of it (updated_at) it was filled from and which fields the user has     *)
(* touched since.                                                          *)
(***************************************************************************)
EXTENDS Pages, ConfigDraft, FiniteSets

CONSTANTS
  MaxEdits,     \* bound: changes made by the user
  MaxSaves,     \* bound: saves started
  MaxVersion    \* bound: changes of configurations on the server

ASSUME ConfigBoundsAssumption == MaxEdits \in Nat /\ MaxSaves \in Nat /\ MaxVersion \in Nat

VARIABLES
  shown,        \* sessionId of the URL
  config,       \* the configurations of the server; <<>> for a session not created yet
  version,      \* their updated_at
  detail,       \* the cached detail of each session, or <<>>
  form,         \* sessionConfig, or <<>>
  draft,        \* the draft of a new session
  catalog,      \* has the catalog of tools arrived?
  hydrating,    \* pendingToolCatalogHydration
  creating,     \* the draft of the session being created, or <<>>
  saves,        \* the saves in flight
  chosen,       \* history: the tools the user chose for a new session, or <<>>
  edits, saved_ \* counters for the bounds

configServerVars == <<config, version>>
draftVars == <<draft, catalog, hydrating, chosen>>
saveVars == <<saves, saved_>>
configVars == <<shown, configServerVars, detail, form, draftVars, creating, saveVars, edits>>

NoValue == <<>>

\* The configuration of a session that has something in every list and asks a human.
FirstConfig ==
  LET rule == [NewRule EXCEPT !.pattern = "p"]
  IN BuildSessionPayload(
       [ApplyHitlQuestionPreset(DEFAULT_SESSION_DRAFT) EXCEPT
          !.thinking = FALSE, !.approvals = {"bash"}, !.rules = <<rule>>,
          !.toolRules = <<[NewToolRule EXCEPT !.name = "n", !.rules = <<rule>>]>>,
          !.servers = <<[NewServer("remote_http") EXCEPT !.name = "n"]>>,
          !.format = <<[NewField EXCEPT !.name = "n"]>>])

SessionConfigInit ==
  /\ shown = NoSession
  /\ config = [s \in Sessions |-> IF s \in Existing THEN FirstConfig ELSE NoValue]
  /\ version = [s \in Sessions |-> 0]
  /\ detail = [s \in Sessions |-> NoValue]
  /\ form = NoValue
  /\ draft = DEFAULT_SESSION_DRAFT /\ catalog = FALSE /\ hydrating = TRUE
  /\ creating = NoValue
  /\ saves = {}
  /\ chosen = NoValue /\ edits = 0 /\ saved_ = 0

SessionConfigTypeOK ==
  /\ shown \in Routes
  /\ \A s \in Sessions : config[s] # NoValue => DOMAIN config[s] = Fields
  /\ version \in [Sessions -> Nat]
  /\ form # NoValue => form.session \in Sessions /\ form.touched \subseteq Fields
  /\ DOMAIN draft = Fields /\ draft.tools \subseteq Tools
  /\ \A x \in saves : x.session \in Sessions /\ x.no \in 1..MaxSaves
  /\ edits \in 0..MaxEdits /\ saved_ \in 0..MaxSaves
  /\ catalog \in BOOLEAN /\ hydrating \in BOOLEAN

-----------------------------------------------------------------------------
(* What the render and the effects after a step do.                        *)

\* currentSession: the cached detail of the session shown.
HasSession(s, d) == s # NoSession /\ d[s] # NoValue

FormOf(s, d) ==
  [session |-> s, version |-> d[s].version, touched |-> {}, draft |-> SessionDetailToDraft(d[s].config)]

(* Mutation of SyncedForm: only a new updated_at counts. *)
SyncedFormByVersion(s, d) ==
  IF ~HasSession(s, d) THEN NoValue
  ELSE IF form # NoValue /\ form.version = d[s].version THEN form
       ELSE FormOf(s, d)

\* The effect on the id and the updated_at of the session shown: what is not saved is lost.
SyncedForm(s, d) ==
  IF ~HasSession(s, d) THEN NoValue
  ELSE IF form # NoValue /\ form.session = s /\ form.version = d[s].version THEN form
       ELSE FormOf(s, d)

\* The page shows session s with the details d.
Shows(s, d) == shown' = s /\ detail' = d /\ form' = SyncedForm(s, d)

(* Mutation of Hydrate: whatever the draft says. *)
HydrateAlways(dr, pending, c, has) ==
  IF has \/ ~pending \/ ~c
  THEN draft' = dr /\ hydrating' = pending
  ELSE /\ draft' = EnsureHitlDraftSafety([dr EXCEPT !.tools = CatalogDefaults])
       /\ hydrating' = FALSE

\* The effect that takes the tools of the catalog into the draft of a new session once, if the
\* draft still has the default ones.
Hydrate(dr, pending, c, has) ==
  IF has \/ ~pending \/ ~c
  THEN draft' = dr /\ hydrating' = pending
  ELSE /\ draft' = IF dr.tools = DEFAULT_ENABLED_TOOLS
                     THEN EnsureHitlDraftSafety([dr EXCEPT !.tools = CatalogDefaults]) ELSE dr
       /\ hydrating' = FALSE

\* The draft stays, but for the effect.
DraftSettles == catalog' = catalog /\ Hydrate(draft, hydrating, catalog, HasSession(shown', detail')) /\ UNCHANGED chosen

-----------------------------------------------------------------------------
(* Moving, and the catalog.                                                *)

\* A session of the list.
ShowAnotherSession ==
  /\ \E s \in {x \in Sessions : config[x] # NoValue} \ {shown} : Shows(s, detail)
  /\ DraftSettles
  /\ UNCHANGED <<configServerVars, creating, saveVars, edits>>

\* handleComposeNewSession: a fresh draft, whose tools the catalog may still replace.
ComposeNewDraft ==
  /\ Shows(NoSession, detail)
  /\ catalog' = catalog /\ Hydrate(DEFAULT_SESSION_DRAFT, TRUE, catalog, FALSE) /\ chosen' = NoValue
  /\ UNCHANGED <<configServerVars, creating, saveVars, edits>>

CatalogArrives ==
  /\ ~catalog /\ catalog' = TRUE
  /\ Hydrate(draft, hydrating, TRUE, HasSession(shown, detail))
  /\ UNCHANGED <<shown, configServerVars, detail, form, chosen, creating, saveVars, edits>>

-----------------------------------------------------------------------------
(* Editing.                                                                *)

\* updateSessionMutation.isPending: the last save is on its way.
(* While a turn streams the panel and the bar are locked as well; as that only forbids what    *)
(* else could happen, it is left out.                                                          *)
IsSaving == \E x \in saves : x.no = saved_
FormLocked == IsSaving

\* What the user changes goes to the form or, without a session, to the draft.
HasForm == form # NoValue
ActiveConfig == IF HasForm THEN form.draft ELSE draft

Edit ==
  /\ edits < MaxEdits
  /\ edits' = edits + 1

\* The form with draft e.
EditForm(e) ==
  form' = [form EXCEPT !.draft = e,
                       !.touched = @ \cup {f \in Fields : e[f] # form.draft[f]}]

\* The draft of a new session becomes e.
EditDraft(e) ==
  /\ Hydrate(e, hydrating, catalog, FALSE)
  /\ chosen' = IF e.tools # draft.tools THEN <<e.tools>> ELSE chosen

\* The user makes one of the changes "Es" to what is active.
EditActive(Es) ==
  /\ Edit
  /\ \E e \in Es \ {ActiveConfig} :
       IF HasForm THEN EditForm(e) /\ UNCHANGED <<draft, hydrating, chosen>>
       ELSE EditDraft(e) /\ UNCHANGED form
  /\ UNCHANGED <<shown, configServerVars, detail, catalog, creating, saveVars>>

\* updateCurrentSessionDraft and updateCreateDraft.
HandleConfigChange == ~FormLocked /\ EditActive(PanelEdits(ActiveConfig))

HandleToggleTool == ~FormLocked /\ EditActive({ToggleTool(ActiveConfig, t) : t \in Tools})

HandleApplyHitlPreset ==
  ~FormLocked /\ EditActive({ApplyHitlQuestionPreset(ActiveConfig), ApplyHitlApprovalPreset(ActiveConfig)})

\* Back to the detail, or to the default draft.
HandleResetConfig ==
  /\ ~FormLocked
  /\ IF HasForm
       THEN form' = FormOf(shown, detail) /\ UNCHANGED <<draft, hydrating, chosen>>
       ELSE Hydrate(DEFAULT_SESSION_DRAFT, TRUE, catalog, FALSE) /\ chosen' = NoValue /\ UNCHANGED form
  /\ catalog' = catalog
  /\ UNCHANGED <<shown, configServerVars, detail, creating, saveVars, edits>>

-----------------------------------------------------------------------------
(* Saving.                                                                 *)

\* persistCurrentSessionConfig of form f: a payload that cannot be built is an error at once.
PersistCurrentSessionConfig(f, quick) ==
  /\ saved_ < MaxSaves
  /\ saved_' = saved_ + 1
  /\ saves' = IF PayloadFails(f.draft) THEN saves
              ELSE saves \cup {[no |-> saved_', quick |-> quick, session |-> shown, form |-> f,
                                payload |-> BuildSessionPayload(f.draft), applied |-> NoValue]}

HandleSaveCurrentSession ==
  /\ HasForm /\ ~FormLocked
  /\ PersistCurrentSessionConfig(form, FALSE)
  /\ UNCHANGED <<shown, configServerVars, detail, form, draftVars, creating, edits>>

\* handleQuickConfigChange: a choice from a menu of the bar is saved at once.  A menu opens
\* while the bar is enabled, but its options stay enabled: one that is open when the button
\* saves (by keyboard; a click outside would close it) may be used once more.
HandleQuickConfigChange ==
  /\ \A x \in saves : x.no = saved_ => ~x.quick
  /\ Edit
  /\ \E e \in QuickEdits(ActiveConfig) \ {ActiveConfig} :
       IF HasForm
       THEN /\ EditForm(e)
            /\ PersistCurrentSessionConfig(form', TRUE)
            /\ UNCHANGED <<draft, hydrating, chosen>>
       ELSE EditDraft(e) /\ UNCHANGED <<form, saveVars>>
  /\ catalog' = catalog
  /\ UNCHANGED <<shown, configServerVars, detail, creating>>

Changes == FoldSet(LAMBDA s, n : version[s] + n, 0, Sessions)

\* The server takes save x.
ApplySave(x) ==
  /\ x.applied = NoValue /\ Changes < MaxVersion
  /\ config' = [config EXCEPT ![x.session] = x.payload]
  /\ version' = [version EXCEPT ![x.session] = @ + 1]
  /\ saves' = (saves \ {x}) \cup
                {[x EXCEPT !.applied = [config |-> x.payload, version |-> version'[x.session]]]}
  /\ UNCHANGED <<shown, detail, form, draftVars, creating, saved_, edits>>

\* The answer fills the cache.  (The queries of the page start again, so that an answer to an
\* older one is dropped.)
SaveAnswered(x) ==
  /\ x.applied # NoValue
  /\ saves' = saves \ {x}
  /\ Shows(shown, [detail EXCEPT ![x.session] = x.applied])
  /\ DraftSettles
  /\ UNCHANGED <<configServerVars, creating, saved_, edits>>

\* The request or its answer is lost, or the server refuses it.
SaveFails(x) ==
  /\ saves' = saves \ {x}
  /\ UNCHANGED <<shown, configServerVars, detail, form, draftVars, creating, saved_, edits>>

-----------------------------------------------------------------------------
(* Creating.                                                               *)

\* The button of the panel, or the first message of a new session.
HandleCreateSession ==
  /\ ~HasForm /\ ~FormLocked /\ creating = NoValue
  /\ ~PayloadFails(draft)
  /\ creating' = BuildSessionPayload(draft)
  /\ UNCHANGED <<shown, configServerVars, detail, form, draftVars, saveVars, edits>>

\* The session exists, its detail is cached and the page goes there.
SessionCreated ==
  /\ creating # NoValue
  /\ \E s \in {x \in Sessions : config[x] = NoValue} :
       /\ config' = [config EXCEPT ![s] = creating]
       /\ Shows(s, [detail EXCEPT ![s] = [config |-> creating, version |-> version[s]]])
  /\ creating' = NoValue
  /\ DraftSettles
  /\ UNCHANGED <<version, saveVars, edits>>

CreateFails ==
  /\ creating # NoValue
  /\ creating' = NoValue
  /\ UNCHANGED <<shown, configServerVars, detail, form, draftVars, saveVars, edits>>

-----------------------------------------------------------------------------
(* The polls, and other clients.                                           *)

\* The detail query of the session shown answers.
DetailArrives ==
  /\ shown # NoSession
  /\ Shows(shown, [detail EXCEPT ![shown] = [config |-> config[shown], version |-> version[shown]]])
  /\ DraftSettles
  /\ UNCHANGED <<configServerVars, creating, saveVars, edits>>

\* Something else changes a session: another client, or the end of a turn.
ChangedElsewhere ==
  /\ \E s \in Sessions :
       /\ config[s] # NoValue /\ Changes < MaxVersion
       /\ version' = [version EXCEPT ![s] = @ + 1]
       /\ config' = [config EXCEPT ![s].text = "b"]
  /\ UNCHANGED <<shown, detail, form, draftVars, creating, saveVars, edits>>

-----------------------------------------------------------------------------
SessionConfigNext ==
  \/ ShowAnotherSession \/ ComposeNewDraft \/ CatalogArrives
  \/ HandleConfigChange \/ HandleToggleTool \/ HandleApplyHitlPreset \/ HandleResetConfig
  \/ HandleSaveCurrentSession \/ HandleQuickConfigChange
  \/ \E x \in saves : ApplySave(x) \/ SaveAnswered(x) \/ SaveFails(x)
  \/ HandleCreateSession \/ SessionCreated \/ CreateFails
  \/ DetailArrives \/ ChangedElsewhere

SessionConfigSpec == SessionConfigInit /\ [][SessionConfigNext]_configVars

-----------------------------------------------------------------------------
\* The form of the page is that of the session shown, and what is saved or created came from a
\* form of its own session and is complete: no tool that asks a human without one, no rule
\* half written.
PayloadsAreSound ==
  /\ form # NoValue => form.session = shown
  /\ \A x \in saves : /\ x.form.session = x.session
                      /\ x.payload.tools \cap HITL_ONLY_TOOL_NAMES # {} => x.payload.hitl
                      /\ RulesAreComplete(x.payload.rules) /\ ToolRulesAreComplete(x.payload.toolRules)
  /\ creating # NoValue => (creating.tools \cap HITL_ONLY_TOOL_NAMES # {} => creating.hitl)

\* Without thinking no effort is sent.
WithEffort(fs) == IF "thinking" \in fs THEN fs \cup {"effort"} ELSE fs

\* A save changes nothing the user did not touch, unless the session changed after the form was
\* filled or was left without tools (which the form shows as the default ones).
SaveChangesOnlyEdits ==
  [][\A x \in saves :
       ApplySave(x) /\ version[x.session] = x.form.version /\ config[x.session].tools # {} =>
         \A f \in Fields \ WithEffort(x.form.touched) : config'[x.session][f] = config[x.session][f]]_configVars

\* The tools the user chose for a new session stay when the catalog arrives, unless they are
\* the default ones, which it may replace.
CatalogKeepsChoice ==
  chosen # NoValue /\ chosen[1] # DEFAULT_ENABLED_TOOLS => draft.tools = chosen[1]
=============================================================================
