--------------------------- MODULE PreviewTerminal ---------------------------
(***************************************************************************)
(* One terminal preview of core/preview/service.py: a Python program on a  *)
(* pseudo-terminal, its pump task, and the requests of                     *)
(* core/servers/api_routes/previews.py that poll, write to, resize and     *)
(* terminate it.                                                           *)
(*                                                                         *)
(* Everything but the program runs on one event loop; a step of the model  *)
(* is the code between two awaits.  A run may be launched again: the       *)
(* terminal does not survive the server, so the first request that finds a *)
(* run "running" without a terminal starts its program anew.               *)
(***************************************************************************)
EXTENDS Naturals

CONSTANTS Requests,     \* bound: requests being served at a time
          Terminals,    \* bound: TerminalPreviewSession objects in use at a time
          NoTerminal,
          MaxCrashes    \* bound: restarts of the server

ASSUME TerminalsAssumption == NoTerminal \notin Terminals
ASSUME BoundsAssumption == MaxCrashes \in Nat

Ended      == {"completed", "error"}
Statuses   == {"running"} \cup Ended

VARIABLES
    entry,      \* _terminal_sessions.get(key)
    manifest,   \* status in run.json, or absent, or torn by a crash
    phase,      \* where the launch of each terminal, then its pump task stands
    shown,      \* response.status of each terminal
    proc,       \* the program: alive, or how it exited
    reaped,     \* terminals whose process.returncode is set
    byUser,     \* terminals with terminated_by_user
    killed,     \* terminals whose process group was sent SIGKILL
    raised,     \* terminals whose pump task ends with an exception
    stage,      \* the await each request is at
    held,       \* the terminal a request holds across that await
    overlapped, \* history: a launch began while another was under way
    crashes     \* restarts so far, at most MaxCrashes

terminalVars == <<phase, shown, proc, reaped, byUser, killed, raised>>
vars == <<entry, manifest, terminalVars, stage, held, overlapped, crashes>>

Pumping(x) == phase[x] \in {"reading", "draining"}

Await(q, label, x) ==
    /\ stage' = [stage EXCEPT ![q] = label]
    /\ held' = [held EXCEPT ![q] = x]

Answer(q) == Await(q, "idle", NoTerminal)

----------------------------------------------------------------------------
(* Launching: up to and after "await create_subprocess_exec". *)

Launching(x) == phase[x] = "launching"

(* A terminal object that is over and that no other request holds.         *)
Spare(q) == {x \in Terminals : /\ ~Launching(x) /\ ~Pumping(x)
                               /\ \A p \in Requests \ {q} : held[p] # x}

Launch(q, label) == \E x \in Spare(q) :
    /\ phase' = [phase EXCEPT ![x] = "launching"]
    /\ shown' = [shown EXCEPT ![x] = "running"]
    /\ proc'  = [proc EXCEPT ![x] = "none"]
    /\ reaped' = reaped \ {x} /\ byUser' = byUser \ {x}
    /\ killed' = killed \ {x} /\ raised' = raised \ {x}
    /\ overlapped' = (overlapped \/ \E y \in Terminals : Launching(y))
    /\ Await(q, label, x)

(* run_preview of a script that wants a terminal; only its answer makes    *)
(* the id of the run known.                                                *)
RunPreview(q) ==
    /\ stage[q] = "idle"
    /\ manifest = "absent" /\ \A x \in Terminals : ~Launching(x)
    /\ Launch(q, "creating")
    /\ UNCHANGED <<entry, manifest, crashes>>

(* Mutation of Lost: the manifest is looked at before the terminals. *)
LostByManifest == manifest = "running"

(* get_run finds no terminal and a manifest that says running.             *)
Lost == entry = NoTerminal /\ manifest = "running"

(* get_run, by which the other requests answer too when they find no       *)
(* terminal: _resume_terminal_run.  Otherwise it changes nothing.          *)
Resume(q) ==
    /\ Lost
    /\ Launch(q, "resuming")
    /\ UNCHANGED <<entry, manifest, crashes>>

RequestResumes(q) == stage[q] = "idle" /\ Resume(q)

(* The program has started: the pump is created and the terminal entered.  *)
(* run_preview saves the response before it answers, a resumption does not.*)
LaunchDone(q) ==
    /\ stage[q] \in {"creating", "resuming"}
    /\ entry' = held[q]
    /\ phase' = [phase EXCEPT ![held[q]] = "reading"]
    /\ proc'  = [proc EXCEPT ![held[q]] = "alive"]
    /\ manifest' = IF stage[q] = "creating" THEN "running" ELSE manifest
    /\ Answer(q)
    /\ UNCHANGED <<shown, reaped, byUser, killed, raised, overlapped, crashes>>

(* create_subprocess_exec raises: run_preview reports that in the          *)
(* response, a resumption answers with an error and saves nothing.         *)
LaunchFails(q) ==
    /\ stage[q] \in {"creating", "resuming"}
    /\ phase' = [phase EXCEPT ![held[q]] = "failed"]
    /\ manifest' = IF stage[q] = "creating" THEN "error" ELSE manifest
    /\ Answer(q)
    /\ UNCHANGED <<entry, shown, proc, reaped, byUser, killed, raised,
                   overlapped, crashes>>

----------------------------------------------------------------------------
(* Requests that find a terminal. *)

(* resize_terminal, and write_terminal_input when it has nothing to write: *)
(* the response is saved at once.                                          *)
Resize ==
    /\ entry # NoTerminal
    /\ manifest' = shown[entry]
    /\ UNCHANGED <<entry, terminalVars, stage, held, overlapped, crashes>>

(* write_terminal_input writes, then sleeps with the terminal in hand ...  *)
BeginInput(q) ==
    /\ stage[q] = "idle"
    /\ entry # NoTerminal /\ entry \notin reaped
    /\ Await(q, "typing", entry)
    /\ UNCHANGED <<entry, manifest, terminalVars, overlapped, crashes>>

(* Mutation of EndInput: the status from before the sleep is saved. *)
EndInputStale(q) ==
    /\ stage[q] = "typing"
    /\ manifest' = "running"
    /\ Answer(q)
    /\ UNCHANGED <<entry, terminalVars, overlapped, crashes>>

(* ... and saves whatever its response says by then.                       *)
EndInput(q) ==
    /\ stage[q] = "typing"
    /\ manifest' = shown[held[q]]
    /\ Answer(q)
    /\ UNCHANGED <<entry, terminalVars, overlapped, crashes>>

(* terminate_run sends SIGTERM and waits 1.5 seconds for the exit, or goes *)
(* straight to the pump if the exit is known already.                      *)
BeginTerminate(q) ==
    /\ stage[q] = "idle"
    /\ entry # NoTerminal
    /\ IF entry \in reaped
       THEN byUser' = byUser /\ Await(q, "joining", entry)
       ELSE byUser' = byUser \cup {entry} /\ Await(q, "grace", entry)
    /\ UNCHANGED <<entry, manifest, phase, shown, proc, reaped, killed,
                   raised, overlapped, crashes>>

(* Mutation of GraceOver: it goes on waiting and sends nothing. *)
GraceOverPatiently(q) ==
    /\ stage[q] = "grace" /\ held[q] \notin reaped
    /\ Await(q, "dying", held[q])
    /\ UNCHANGED <<entry, manifest, terminalVars, overlapped, crashes>>

GraceOver(q) ==
    /\ stage[q] = "grace" /\ held[q] \notin reaped
    /\ killed' = killed \cup {held[q]}
    /\ Await(q, "dying", held[q])
    /\ UNCHANGED <<entry, manifest, phase, shown, proc, reaped, byUser,
                   raised, overlapped, crashes>>

ExitSeen(q) ==
    /\ stage[q] \in {"grace", "dying"} /\ held[q] \in reaped
    /\ Await(q, "joining", held[q])
    /\ UNCHANGED <<entry, manifest, terminalVars, overlapped, crashes>>

(* The pump has ended: its exception is the answer, or else get_run gives  *)
(* it, which may find that the run is lost.                                *)
EndTerminate(q) ==
    /\ stage[q] = "joining" /\ phase[held[q]] = "ended"
    /\ held[q] \in raised \/ ~Lost \/ Spare(q) = {}  \* bound
    /\ Answer(q)
    /\ UNCHANGED <<entry, manifest, terminalVars, overlapped, crashes>>

TerminateResumes(q) ==
    /\ stage[q] = "joining" /\ phase[held[q]] = "ended"
    /\ held[q] \notin raised
    /\ Resume(q)

----------------------------------------------------------------------------
(* The program, and the child watcher of the loop that collects its exit.  *)

ProgramExits(x) ==
    /\ proc[x] = "alive"
    /\ \E how \in {"clean", "broken"} : proc' = [proc EXCEPT ![x] = how]
    /\ UNCHANGED <<entry, manifest, phase, shown, reaped, byUser, killed,
                   raised, stage, held, overlapped, crashes>>

Reap(x) ==
    /\ proc[x] \in {"clean", "broken"} /\ x \notin reaped
    /\ reaped' = reaped \cup {x}
    /\ UNCHANGED <<entry, manifest, phase, shown, proc, byUser, killed,
                   raised, stage, held, overlapped, crashes>>

----------------------------------------------------------------------------
(* The pump task, _pump_terminal_session. *)

(* A chunk of output is fed to the screen and the response saved.          *)
Output(x) ==
    /\ phase[x] = "reading"
    /\ manifest' = shown[x]
    /\ UNCHANGED <<entry, terminalVars, stage, held, overlapped, crashes>>

(* Mutation of PumpStops: an exception passes by the finally block. *)
PumpStopsAbruptly(x) ==
    /\ phase[x] = "reading"
    /\ \/ raised' = raised /\ phase' = [phase EXCEPT ![x] = "draining"]
       \/ raised' = raised \cup {x} /\ phase' = [phase EXCEPT ![x] = "failed"]
    /\ UNCHANGED <<entry, manifest, shown, proc, reaped, byUser, killed,
                   stage, held, overlapped, crashes>>

(* The end of the output, or an exception: os.read may fail, and the       *)
(* screen raises on sequences it has no cell or no number for.  The        *)
(* finally block then waits for the exit.                                  *)
PumpStops(x) ==
    /\ phase[x] = "reading"
    /\ phase' = [phase EXCEPT ![x] = "draining"]
    /\ raised' \in {raised, raised \cup {x}}
    /\ UNCHANGED <<entry, manifest, shown, proc, reaped, byUser, killed,
                   stage, held, overlapped, crashes>>

Outcome(x) == IF proc[x] = "clean" \/ x \in byUser THEN "completed" ELSE "error"

(* Mutation of PumpEnds: the terminal stays registered. *)
PumpEndsRegistered(x) ==
    /\ phase[x] = "draining" /\ x \in reaped
    /\ shown' = [shown EXCEPT ![x] = Outcome(x)]
    /\ manifest' = Outcome(x)
    /\ phase' = [phase EXCEPT ![x] = "ended"]
    /\ UNCHANGED <<entry, proc, reaped, byUser, killed, raised, stage, held,
                   overlapped, crashes>>

(* The rest of the finally block: save the outcome, remove the terminal of *)
(* the key whoever's it is, close the descriptor.                          *)
PumpEnds(x) ==
    /\ phase[x] = "draining" /\ x \in reaped
    /\ shown' = [shown EXCEPT ![x] = Outcome(x)]
    /\ manifest' = Outcome(x)
    /\ entry' = NoTerminal
    /\ phase' = [phase EXCEPT ![x] = "ended"]
    /\ UNCHANGED <<proc, reaped, byUser, killed, raised, stage, held, overlapped,
                   crashes>>

----------------------------------------------------------------------------
(* Somebody may be saving the run, be it the next process, which rewrites  *)
(* the manifests that say running.                                         *)
Saving == \/ manifest = "running"
          \/ \E x \in Terminals : Pumping(x)
          \/ \E q \in Requests : stage[q] \in {"creating", "typing"}

(* The server stops, perhaps in the middle of write_text, and the next one *)
(* has gone through the manifests; programs lose their terminal.           *)
Crash ==
    /\ crashes < MaxCrashes
    /\ crashes' = crashes + 1
    /\ manifest' \in {manifest} \cup (IF Saving THEN {"torn"} ELSE {})
    /\ entry' = NoTerminal
    /\ phase' = [x \in Terminals |-> "none"]
    /\ shown' = [x \in Terminals |-> "running"]
    /\ proc'  = [x \in Terminals |-> "none"]
    /\ reaped' = {} /\ byUser' = {} /\ killed' = {} /\ raised' = {}
    /\ stage' = [q \in Requests |-> "idle"]
    /\ held'  = [q \in Requests |-> NoTerminal]
    /\ overlapped' = FALSE

Init ==
    /\ entry = NoTerminal
    /\ manifest = "absent"
    /\ phase = [x \in Terminals |-> "none"]
    /\ shown = [x \in Terminals |-> "running"]
    /\ proc  = [x \in Terminals |-> "none"]
    /\ reaped = {} /\ byUser = {} /\ killed = {} /\ raised = {}
    /\ stage = [q \in Requests |-> "idle"]
    /\ held  = [q \in Requests |-> NoTerminal]
    /\ overlapped = FALSE
    /\ crashes = 0

RequestStep(q) ==
    \/ LaunchDone(q) \/ LaunchFails(q) \/ EndInput(q) \/ GraceOver(q) \/ ExitSeen(q)
    \/ EndTerminate(q) \/ TerminateResumes(q)

NewRequest(q) ==
    RunPreview(q) \/ RequestResumes(q) \/ BeginInput(q) \/ BeginTerminate(q)

Next ==
    \/ Resize \/ Crash
    \/ \E q \in Requests : NewRequest(q) \/ RequestStep(q)
    \/ \E x \in Terminals :
          ProgramExits(x) \/ Reap(x) \/ Output(x) \/ PumpStops(x) \/ PumpEnds(x)

Spec == Init /\ [][Next]_vars

(* The loop runs what is ready and its timers, exits are collected, a      *)
(* program does not survive SIGKILL, and once it has exited its terminal   *)
(* reports the end.  A program may otherwise run for ever.                 *)
FairSpec ==
    /\ Spec
    /\ \A q \in Requests : WF_vars(RequestStep(q))
    /\ \A x \in Terminals :
          /\ WF_vars(Reap(x)) /\ WF_vars(PumpEnds(x))
          /\ WF_vars(x \in killed /\ ProgramExits(x))
          /\ WF_vars(proc[x] # "alive" /\ PumpStops(x))

----------------------------------------------------------------------------
(* Properties. *)

(* Every variable holds a value of the kind the code puts there; statuses  *)
(* are those of PreviewStatus.                                             *)
TypeOK ==
    /\ entry \in Terminals \cup {NoTerminal}
    /\ manifest \in Statuses \cup {"absent", "torn"}
    /\ phase \in [Terminals -> {"none", "launching", "reading", "draining", "ended",
                                "failed"}]
    /\ shown \in [Terminals -> Statuses]
    /\ proc \in [Terminals -> {"none", "alive", "clean", "broken"}]
    /\ reaped \subseteq Terminals /\ byUser \subseteq Terminals
    /\ killed \subseteq Terminals /\ raised \subseteq Terminals
    /\ stage \in [Requests -> {"idle", "creating", "resuming", "typing", "grace",
                               "dying", "joining"}]
    /\ held \in [Requests -> Terminals \cup {NoTerminal}]
    /\ \A q \in Requests : stage[q] # "idle" => held[q] \in Terminals
    /\ overlapped \in BOOLEAN
    /\ crashes \in 0..MaxCrashes

(* A terminal that requests can find is one whose pump has not ended,      *)
(* whatever launches overlapped: its descriptor is open when they write to *)
(* it or resize it, and its run is shown as running.                       *)
EntryIsLive ==
    entry # NoTerminal => Pumping(entry) /\ shown[entry] = "running"

(* Unless two requests have resumed the run at the same time, a program    *)
(* that is running is the one requests find, so it can be terminated, and  *)
(* nothing is launched beside it.                                          *)
LiveRunIsReachable ==
    \A x \in Terminals :
        /\ ~overlapped /\ Pumping(x) => entry = x
        /\ ~overlapped /\ phase[x] = "launching" =>
              \A y \in Terminals \ {x} : phase[y] # "launching" /\ ~Pumping(y)

(* Unless two requests have resumed the run at the same time, an outcome   *)
(* once saved is final, though requests save the response they have held   *)
(* across an await; only a crash can tear the file.                        *)
EndedStaysEnded ==
    [][~overlapped /\ manifest \in Ended /\ crashes' = crashes
          => manifest' = manifest]_vars

(* A program that has exited stops being shown as running, even if its     *)
(* pump failed on its output.                                              *)
ExitIsShown ==
    \A x \in Terminals :
        Pumping(x) /\ proc[x] # "alive" ~> manifest # "running" \/ phase[x] = "none"

(* terminate_run is answered, even if the program ignores SIGTERM or its   *)
(* pump has failed.                                                        *)
TerminateSettles ==
    \A q \in Requests :
        stage[q] \in {"grace", "dying", "joining"} ~> stage[q] \in {"idle", "resuming"}

----------------------------------------------------------------------------
(* A statement of the repository that the code does not keep. *)

(* _resume_terminal_run (service.py:271): after a restart "the preview     *)
(* panel can go on interacting" with the program that was launched again,  *)
(* so a program that is running is the one requests find.                  *)
ResumedRunIsReachable == \A x \in Terminals : Pumping(x) => entry = x
=============================================================================
