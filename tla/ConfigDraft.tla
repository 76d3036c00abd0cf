---------------------------- MODULE ConfigDraft -----------------------------
(***************************************************************************)
(* The draft of a session's configuration (features/sessions/constants.ts) *)
(* and what the editors of the configuration panel make of it: one change  *)
(* of one input.  Texts are abstracted to a few values, of which "" is the *)
(* empty one and "bad" one that is not what the field should hold.         *)
(***************************************************************************)
EXTENDS Naturals, Sequences, SequencesExt

CONSTANT MaxItems   \* bound: entries of a list the panel edits

ASSUME MaxItemsAssumption == MaxItems \in Nat

Tools == {"bash", "search", "ask_user_question"}
HITL_ONLY_TOOL_NAMES == {"ask_user_question"}
DEFAULT_ENABLED_TOOLS == Tools \ HITL_ONLY_TOOL_NAMES

\* getDefaultEnabledTools of a catalog that lacks one of the built-in tools.
CatalogDefaults == {"bash"}

-----------------------------------------------------------------------------
(* Rules, servers, sandbox, response fields and memory.                    *)

\* createDefaultGuardrailRule, createDefaultToolGuardrail, createDefaultMcpServer,
\* createDefaultSandbox, createDefaultResponseFormat's new field, createDefaultMemory.
NewRule == [kind |-> "regex", pattern |-> "", max |-> "null"]
NewToolRule == [name |-> "", fields |-> {}, rules |-> <<>>]
NewServer(t) == [transport |-> t, name |-> "", target |-> IF t = "remote_http" THEN "https://" ELSE "",
                 sandbox |-> <<>>]
NewSandbox(p) == [provider |-> p, place |-> "", env |-> ""]
NewField == [name |-> "", type |-> "string"]
NewMemory == [type |-> "compact", model |-> "m", cap |-> "c"]

\* d with field f set to one of S.
Put(d, f, S) == {[d EXCEPT ![f] = v] : v \in S}

\* updateItemAtIndex with one of the values changes[k] of item k, the removal of an item, or one
\* of New at the end.
ListEdits(l, New, changes) ==
  UNION {{ReplaceAt(l, k, v) : v \in changes[k]} : k \in DOMAIN l}
    \cup {RemoveAt(l, k) : k \in DOMAIN l}
    \cup {Append(l, v) : v \in IF Len(l) < MaxItems THEN New ELSE {}}

\* A list of distinct strings: a blank or a known one is not added.
StringListEdits(s, Values) == {s \cup {v} : v \in Values \ {""}} \cup {s \ {v} : v \in s}

\* The kind decides which input a rule shows; going to max_length fills in a maximum.
RuleEdits(r) ==
  IF r.kind = "max_length"
  THEN Put(r, "max", {"null", "0", "1"}) \cup {[r EXCEPT !.kind = "regex", !.max = "null"]}
  ELSE Put(r, "pattern", {"", "p"}) \cup {[r EXCEPT !.kind = "max_length", !.max = "1"]}

RuleListEdits(l) == ListEdits(l, {NewRule}, [k \in DOMAIN l |-> RuleEdits(l[k])])

ToolRuleEdits(l) ==
  LET Changes(r) == Put(r, "name", {"", "n"}) \cup Put(r, "fields", StringListEdits(r.fields, {"", "f"}))
                      \cup Put(r, "rules", RuleListEdits(r.rules))
  IN ListEdits(l, {NewToolRule}, [k \in DOMAIN l |-> Changes(l[k])])

\* Another provider starts afresh but for the environment.
SandboxEdits(s) ==
  {[NewSandbox(p) EXCEPT !.env = s.env] : p \in {"local", "docker", "cloud"}}
    \cup Put(s, "place", {"", "x"}) \cup Put(s, "env", {"", "k=v"})

\* Another transport starts the server afresh.
ServerHeadEdits(s) ==
  Put(s, "name", {"", "n"}) \cup {NewServer(t) : t \in {"remote_http", "local_stdio"} \ {s.transport}}

\* The address of a remote server, the command of a local one.
ServerTargetEdits(s) == Put(s, "target", {"", "t"})

\* A sandbox of its own is made, edited or dropped.
ServerSandboxEdits(s) ==
  IF s.sandbox = <<>> THEN {[s EXCEPT !.sandbox = NewSandbox("local")]}
  ELSE {[s EXCEPT !.sandbox = <<>>]} \cup Put(s, "sandbox", SandboxEdits(s.sandbox))

McpServerEdits(l) ==
  LET Changes(s) == ServerHeadEdits(s) \cup ServerTargetEdits(s) \cup ServerSandboxEdits(s)
  IN ListEdits(l, {NewServer("remote_http"), NewServer("local_stdio")}, [k \in DOMAIN l |-> Changes(l[k])])

ResponseFormatEdits(l) ==
  LET Changes(f) == Put(f, "name", {"", "n"}) \cup Put(f, "type", {"string", "integer"})
  IN ListEdits(l, {NewField}, [k \in DOMAIN l |-> Changes(l[k])])

\* The model of a compaction may be emptied; the cap of tool results keeps its value instead.
MemoryEdits(m) ==
  Put(m, "type", {"basic", "compact"}) \cup Put(m, "cap", {"c", "c2"})
    \cup (IF m.type = "compact" THEN Put(m, "model", {"null", "m", "m2"}) ELSE {})

-----------------------------------------------------------------------------
(* The draft.                                                              *)

\* DEFAULT_SESSION_DRAFT.  "text" stands for the texts and numbers that are always open.
DEFAULT_SESSION_DRAFT ==
  [text |-> "a", mode |-> "inherit", url |-> "", thinking |-> TRUE, effort |-> "medium",
   tools |-> DEFAULT_ENABLED_TOOLS, hitl |-> FALSE, approvals |-> {}, rules |-> <<>>, toolRules |-> <<>>,
   servers |-> <<>>, agents |-> "ok", format |-> <<>>, memory |-> NewMemory, sandbox |-> NewSandbox("local")]

Fields == DOMAIN DEFAULT_SESSION_DRAFT

(* Mutation of EnsureHitlDraftSafety: the tools are left alone. *)
EnsureNothing(d) == d

\* Without a human in the loop the tool that asks one goes.
EnsureHitlDraftSafety(d) ==
  IF d.hitl THEN d ELSE [d EXCEPT !.tools = @ \ HITL_ONLY_TOOL_NAMES]

ApplyHitlQuestionPreset(d) ==
  [d EXCEPT !.hitl = TRUE, !.tools = {"ask_user_question"}, !.approvals = {}]

ApplyHitlApprovalPreset(d) == [d EXCEPT !.hitl = TRUE, !.tools = {"bash"}, !.approvals = {"bash"}]

\* Title, prompt and the options of the model; some are locked by others.
ModelFieldEdits(d) ==
  Put(d, "text", {"a", "b", "bad"}) \cup Put(d, "mode", {"inherit", "override"})
    \cup (IF d.mode = "override" THEN Put(d, "url", {"", "u"}) ELSE {})

ThinkingEdits(d) ==
  Put(d, "thinking", BOOLEAN) \cup (IF d.thinking THEN Put(d, "effort", {"medium", "high"}) ELSE {})

HitlEdits(d) ==
  Put(d, "hitl", BOOLEAN) \cup Put(d, "approvals", StringListEdits(d.approvals, {"", "bash"}))

GuardrailEdits(d) ==
  Put(d, "rules", RuleListEdits(d.rules)) \cup Put(d, "toolRules", ToolRuleEdits(d.toolRules))

\* One change of the panel.
PanelEdits(d) ==
  {EnsureHitlDraftSafety(e) :
     e \in ModelFieldEdits(d) \cup ThinkingEdits(d) \cup HitlEdits(d) \cup GuardrailEdits(d)
             \cup Put(d, "servers", McpServerEdits(d.servers))
             \cup Put(d, "agents", {"ok", "ok2", "bad"})
             \cup Put(d, "format", ResponseFormatEdits(d.format))
             \cup Put(d, "memory", MemoryEdits(d.memory))
             \cup Put(d, "sandbox", SandboxEdits(d.sandbox))} \ {d}

\* One choice of the bar under the composer: the model, thinking, steps, the time-out.
QuickEdits(d) ==
  {EnsureHitlDraftSafety(e) :
     e \in Put(d, "text", {"a", "b"}) \cup {[d EXCEPT !.thinking = FALSE]}
             \cup {[d EXCEPT !.thinking = TRUE, !.effort = v] : v \in {"medium", "high"}}}

\* handleToggleTool.
ToggleTool(d, t) ==
  EnsureHitlDraftSafety([d EXCEPT !.tools = IF t \in @ THEN @ \ {t} ELSE @ \cup {t}])

-----------------------------------------------------------------------------
(* To the server and back.                                                 *)

\* validateGuardrailRuleForSave, validateToolGuardrailForSave.
RuleIsComplete(r) == IF r.kind = "max_length" THEN r.max = "1" ELSE r.pattern # ""
RulesAreComplete(l) == \A k \in DOMAIN l : RuleIsComplete(l[k])
ToolRulesAreComplete(l) == \A k \in DOMAIN l : l[k].name # "" /\ RulesAreComplete(l[k].rules)

\* Does building the payload throw?
PayloadFails(d) ==
  \/ d.text = "bad" \/ d.agents = "bad"
  \/ ~RulesAreComplete(d.rules) \/ ~ToolRulesAreComplete(d.toolRules)
  \/ \E k \in DOMAIN d.format : d.format[k].name = ""

\* buildSessionCreatePayload and buildSessionUpdatePayload.
BuildSessionPayload(d) ==
  [EnsureHitlDraftSafety(d) EXCEPT !.effort = IF d.thinking THEN @ ELSE "null"]

(* Mutation of SessionDetailToDraft: the approvals are forgotten. *)
SessionDetailToDraftShort(c) ==
  [c EXCEPT !.effort = IF @ = "null" THEN "medium" ELSE @,
            !.tools = IF @ = {} THEN DEFAULT_ENABLED_TOOLS ELSE @,
            !.approvals = {}]

\* The draft of a configuration: an empty list of tools comes back as the default one.
SessionDetailToDraft(c) ==
  [c EXCEPT !.effort = IF @ = "null" THEN "medium" ELSE @,
            !.tools = IF @ = {} THEN DEFAULT_ENABLED_TOOLS ELSE @]
=============================================================================
