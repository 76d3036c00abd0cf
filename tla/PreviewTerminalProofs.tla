----------------------- MODULE PreviewTerminalProofs -----------------------
(***************************************************************************)
(* Proofs about PreviewTerminal, for any number of concurrent requests,    *)
(* terminals and restarts.                                                 *)
(***************************************************************************)
EXTENDS PreviewTerminal, TLAPS

IsLaunch(q) == stage[q] \in {"creating", "resuming"}

(* What a request holds across its await.                                  *)
Holding ==
    \A q \in Requests :
        /\ IsLaunch(q) => /\ Launching(held[q])
                          /\ \A p \in Requests \ {q} : held[p] # held[q]
        /\ stage[q] \in {"typing", "grace", "dying", "joining"} =>
              Pumping(held[q]) \/ phase[held[q]] = "ended"

(* Before the answer of run_preview nothing else refers to the run.        *)
Creating ==
    /\ manifest = "absent" => \A x \in Terminals : ~Pumping(x) /\ phase[x] # "ended"
    /\ \A q \in Requests :
          /\ stage[q] = "creating" => /\ manifest = "absent"
                                      /\ \A p \in Requests \ {q} : ~IsLaunch(p)
          /\ stage[q] = "resuming" => manifest # "absent"

(* A launch is shown as running until its pump ends.                       *)
ShownRunning == \A x \in Terminals : Launching(x) \/ Pumping(x) => shown[x] = "running"

(* Once a run is over it stays so: nothing is launched or pumped, and the  *)
(* response of the ended terminal is the one on disk.                      *)
Final ==
    ~overlapped =>
        /\ manifest \in Ended => \A x \in Terminals : ~Launching(x) /\ ~Pumping(x)
        /\ \A x \in Terminals : phase[x] = "ended" =>
              manifest \in Ended /\ shown[x] = manifest

Safe == /\ EntryIsLive /\ LiveRunIsReachable
        /\ Holding /\ Creating /\ ShownRunning /\ Final

IInv == TypeOK /\ Safe

(* Every step keeps the types; the outcome is a status of the schema.      *)
LEMMA StepTypeOK == IInv /\ Next => TypeOK'
<1> SUFFICES ASSUME IInv, Next PROVE TypeOK'
  OBVIOUS
<1> USE TerminalsAssumption, BoundsAssumption DEF IInv, TypeOK, Safe, EntryIsLive,
        Statuses, Ended, Await, Answer, Pumping, terminalVars
<1>1. ASSUME Resize PROVE TypeOK'
  BY <1>1 DEF Resize
<1>2. ASSUME Crash PROVE TypeOK'
  <2>1. crashes' \in 0..MaxCrashes
    BY <1>2 DEF Crash
  <2>2. /\ entry' \in Terminals \cup {NoTerminal}
        /\ manifest' \in Statuses \cup {"absent", "torn"}
        /\ overlapped' \in BOOLEAN
    BY <1>2 DEF Crash
  <2>3. /\ reaped' \subseteq Terminals /\ byUser' \subseteq Terminals
        /\ killed' \subseteq Terminals /\ raised' \subseteq Terminals
    BY <1>2 DEF Crash
  <2>4. \A q \in Requests : stage'[q] = "idle"
    BY <1>2 DEF Crash
  <2> QED
    BY <1>2, <2>1, <2>2, <2>3, <2>4 DEF Crash
<1>3. ASSUME NEW q \in Requests, RunPreview(q) PROVE TypeOK'
  BY <1>3 DEF RunPreview, Launch, Spare
<1>4. ASSUME NEW q \in Requests, RequestResumes(q) PROVE TypeOK'
  BY <1>4 DEF RequestResumes, Resume, Lost, Launch, Spare
<1>5. ASSUME NEW q \in Requests, BeginInput(q) PROVE TypeOK'
  BY <1>5 DEF BeginInput
<1>6. ASSUME NEW q \in Requests, BeginTerminate(q) PROVE TypeOK'
  BY <1>6 DEF BeginTerminate
<1>7. ASSUME NEW q \in Requests, LaunchDone(q) PROVE TypeOK'
  BY <1>7 DEF LaunchDone
<1>8. ASSUME NEW q \in Requests, LaunchFails(q) PROVE TypeOK'
  BY <1>8 DEF LaunchFails
<1>9. ASSUME NEW q \in Requests, EndInput(q) PROVE TypeOK'
  BY <1>9 DEF EndInput
<1>10. ASSUME NEW q \in Requests, GraceOver(q) PROVE TypeOK'
  BY <1>10 DEF GraceOver
<1>11. ASSUME NEW q \in Requests, ExitSeen(q) PROVE TypeOK'
  BY <1>11 DEF ExitSeen
<1>12. ASSUME NEW q \in Requests, EndTerminate(q) PROVE TypeOK'
  BY <1>12 DEF EndTerminate
<1>13. ASSUME NEW q \in Requests, TerminateResumes(q) PROVE TypeOK'
  BY <1>13 DEF TerminateResumes, Resume, Lost, Launch, Spare
<1>14. ASSUME NEW x \in Terminals, ProgramExits(x) PROVE TypeOK'
  BY <1>14 DEF ProgramExits
<1>15. ASSUME NEW x \in Terminals, Reap(x) PROVE TypeOK'
  BY <1>15 DEF Reap
<1>16. ASSUME NEW x \in Terminals, Output(x) PROVE TypeOK'
  BY <1>16 DEF Output
<1>17. ASSUME NEW x \in Terminals, PumpStops(x) PROVE TypeOK'
  BY <1>17 DEF PumpStops
<1>18. ASSUME NEW x \in Terminals, PumpEnds(x) PROVE TypeOK'
  BY <1>18 DEF PumpEnds, Outcome
<1> HIDE DEF IInv, TypeOK, Safe, EntryIsLive, Statuses, Ended, Await, Answer, Pumping,
        terminalVars
<1> QED
  BY <1>1, <1>2, <1>3, <1>4, <1>5, <1>6, <1>7, <1>8, <1>9, <1>10,
      <1>11, <1>12, <1>13, <1>14, <1>15, <1>16, <1>17, <1>18
  DEF Next, NewRequest, RequestStep

(* Every step keeps the rest of the invariant.                             *)
LEMMA StepSafe == IInv /\ Next => Safe'
<1> SUFFICES ASSUME IInv, Next PROVE Safe'
  OBVIOUS
<1> USE TerminalsAssumption DEF IInv, TypeOK, Safe, EntryIsLive, LiveRunIsReachable,
        Holding, Creating, ShownRunning, Final, IsLaunch, Statuses, Ended, Await, Answer,
        Pumping, Launching, terminalVars
<1>1. ASSUME Resize PROVE Safe'
  BY <1>1 DEF Resize
<1>2. ASSUME Crash PROVE Safe'
  BY <1>2 DEF Crash
<1>3. ASSUME NEW q \in Requests, RunPreview(q) PROVE Safe'
  BY <1>3 DEF RunPreview, Launch, Spare
<1>4. ASSUME NEW q \in Requests, RequestResumes(q) PROVE Safe'
  <2>1. /\ stage[q] = "idle" /\ Lost
        /\ entry' = entry /\ manifest' = manifest
    BY <1>4 DEF RequestResumes, Resume
  <2>2. PICK x \in Spare(q) :
          /\ phase' = [phase EXCEPT ![x] = "launching"]
          /\ shown' = [shown EXCEPT ![x] = "running"]
          /\ overlapped' = (overlapped \/ \E y \in Terminals : Launching(y))
          /\ Await(q, "resuming", x)
    BY <1>4, Zenon DEF RequestResumes, Resume, Launch
  <2> DEFINE Quiet == \A y \in Terminals : ~Launching(y) /\ ~Pumping(y)
  <2>3. EntryIsLive' /\ LiveRunIsReachable'
    <3>1. ~overlapped' => Quiet
      BY <2>1, <2>2 DEF Lost
    <3>2. \A y \in Terminals : Pumping(y)' => Pumping(y) /\ y # x
      BY <2>2
    <3>3. \A y \in Terminals : Launching(y)' => Launching(y) \/ y = x
      BY <2>2
    <3>4. entry' = NoTerminal
      BY <2>1 DEF Lost
    <3> QED
      BY <3>1, <3>2, <3>3, <3>4
  <2>4. Holding'
    BY <2>1, <2>2 DEF Lost, Spare
  <2>5. Creating' /\ ShownRunning' /\ Final'
    BY <2>1, <2>2 DEF Lost, Spare
  <2> QED
    BY <2>3, <2>4, <2>5
<1>5. ASSUME NEW q \in Requests, BeginInput(q) PROVE Safe'
  BY <1>5 DEF BeginInput
<1>6. ASSUME NEW q \in Requests, BeginTerminate(q) PROVE Safe'
  BY <1>6 DEF BeginTerminate
<1>7. ASSUME NEW q \in Requests, LaunchDone(q) PROVE Safe'
  BY <1>7 DEF LaunchDone
<1>8. ASSUME NEW q \in Requests, LaunchFails(q) PROVE Safe'
  BY <1>8 DEF LaunchFails
<1>9. ASSUME NEW q \in Requests, EndInput(q) PROVE Safe'
  BY <1>9 DEF EndInput
<1>10. ASSUME NEW q \in Requests, GraceOver(q) PROVE Safe'
  BY <1>10 DEF GraceOver
<1>11. ASSUME NEW q \in Requests, ExitSeen(q) PROVE Safe'
  BY <1>11 DEF ExitSeen
<1>12. ASSUME NEW q \in Requests, EndTerminate(q) PROVE Safe'
  BY <1>12 DEF EndTerminate
<1>13. ASSUME NEW q \in Requests, TerminateResumes(q) PROVE Safe'
  BY <1>13 DEF TerminateResumes, Resume, Lost, Launch, Spare
<1>14. ASSUME NEW x \in Terminals, ProgramExits(x) PROVE Safe'
  BY <1>14 DEF ProgramExits
<1>15. ASSUME NEW x \in Terminals, Reap(x) PROVE Safe'
  BY <1>15 DEF Reap
<1>16. ASSUME NEW x \in Terminals, Output(x) PROVE Safe'
  BY <1>16 DEF Output
<1>17. ASSUME NEW x \in Terminals, PumpStops(x) PROVE Safe'
  BY <1>17 DEF PumpStops
<1>18. ASSUME NEW x \in Terminals, PumpEnds(x) PROVE Safe'
  BY <1>18 DEF PumpEnds, Outcome
<1> HIDE DEF IInv, TypeOK, Safe, EntryIsLive, LiveRunIsReachable, Holding, Creating,
        ShownRunning, Final, IsLaunch, Statuses, Ended, Await, Answer, Pumping,
        Launching, terminalVars
<1> QED
  BY <1>1, <1>2, <1>3, <1>4, <1>5, <1>6, <1>7, <1>8, <1>9, <1>10,
      <1>11, <1>12, <1>13, <1>14, <1>15, <1>16, <1>17, <1>18
  DEF Next, NewRequest, RequestStep

(* The inductive invariant of a terminal preview.                          *)
THEOREM Invariance == Spec => []IInv
<1>1. Init => IInv
  <2> SUFFICES ASSUME Init PROVE IInv
    OBVIOUS
  <2>1. TypeOK
    <3>1. crashes \in 0..MaxCrashes
      BY BoundsAssumption DEF Init
    <3>2. \A q \in Requests : stage[q] = "idle"
      BY DEF Init
    <3> QED
      BY <3>1, <3>2 DEF Init, TypeOK, Statuses
  <2>2. Safe
    BY TerminalsAssumption
    DEF Init, Safe, EntryIsLive, LiveRunIsReachable, Holding, Creating, ShownRunning,
        Final, IsLaunch, Ended, Pumping, Launching
  <2> QED
    BY <2>1, <2>2 DEF IInv
<1>2. IInv /\ [Next]_vars => IInv'
  <2> SUFFICES ASSUME IInv, [Next]_vars PROVE IInv'
    OBVIOUS
  <2>1. CASE Next
    BY <2>1, StepTypeOK, StepSafe DEF IInv
  <2>2. CASE UNCHANGED vars
    BY <2>2 DEF vars, terminalVars, IInv, TypeOK, Safe, EntryIsLive, LiveRunIsReachable,
       Holding, Creating, ShownRunning, Final, IsLaunch, Pumping, Launching
  <2> QED
    BY <2>1, <2>2
<1> QED
  BY <1>1, <1>2, PTL DEF Spec

(* Types, for any number of requests, terminals and restarts.              *)
THEOREM TypeCorrect == Spec => []TypeOK
<1>1. IInv => TypeOK
  BY DEF IInv
<1> QED
  BY <1>1, Invariance, PTL

(* Requests never find a terminal whose pump has ended and closed the      *)
(* descriptor, even when launches have overlapped.                         *)
THEOREM EntriesAreLive == Spec => []EntryIsLive
<1>1. IInv => EntryIsLive
  BY DEF IInv, Safe
<1> QED
  BY <1>1, Invariance, PTL

(* A program is out of reach only after two requests have resumed the run  *)
(* at the same time.                                                       *)
THEOREM LiveRunsAreReachable == Spec => []LiveRunIsReachable
<1>1. IInv => LiveRunIsReachable
  BY DEF IInv, Safe
<1> QED
  BY <1>1, Invariance, PTL

NoChange == ~overlapped /\ manifest \in Ended /\ crashes' = crashes
               => manifest' = manifest

(* No step takes a saved outcome back.                                     *)
LEMMA StepNoChange == IInv /\ Next => NoChange
<1> SUFFICES ASSUME IInv, Next PROVE NoChange
  OBVIOUS
<1> USE TerminalsAssumption, BoundsAssumption DEF NoChange, IInv, TypeOK, Safe,
        EntryIsLive, Holding, Creating, Final, IsLaunch, Ended, Await, Answer, Pumping,
        Launching, terminalVars
<1>1. ASSUME Resize PROVE NoChange
  BY <1>1 DEF Resize
<1>2. ASSUME Crash PROVE NoChange
  BY <1>2 DEF Crash
<1>3. ASSUME NEW q \in Requests, RunPreview(q) PROVE NoChange
  BY <1>3 DEF RunPreview, Launch, Spare
<1>4. ASSUME NEW q \in Requests, RequestResumes(q) PROVE NoChange
  BY <1>4 DEF RequestResumes, Resume, Lost, Launch, Spare
<1>5. ASSUME NEW q \in Requests, BeginInput(q) PROVE NoChange
  BY <1>5 DEF BeginInput
<1>6. ASSUME NEW q \in Requests, BeginTerminate(q) PROVE NoChange
  BY <1>6 DEF BeginTerminate
<1>7. ASSUME NEW q \in Requests, LaunchDone(q) PROVE NoChange
  BY <1>7 DEF LaunchDone
<1>8. ASSUME NEW q \in Requests, LaunchFails(q) PROVE NoChange
  BY <1>8 DEF LaunchFails
<1>9. ASSUME NEW q \in Requests, EndInput(q) PROVE NoChange
  BY <1>9 DEF EndInput
<1>10. ASSUME NEW q \in Requests, GraceOver(q) PROVE NoChange
  BY <1>10 DEF GraceOver
<1>11. ASSUME NEW q \in Requests, ExitSeen(q) PROVE NoChange
  BY <1>11 DEF ExitSeen
<1>12. ASSUME NEW q \in Requests, EndTerminate(q) PROVE NoChange
  BY <1>12 DEF EndTerminate
<1>13. ASSUME NEW q \in Requests, TerminateResumes(q) PROVE NoChange
  BY <1>13 DEF TerminateResumes, Resume, Lost, Launch, Spare
<1>14. ASSUME NEW x \in Terminals, ProgramExits(x) PROVE NoChange
  BY <1>14 DEF ProgramExits
<1>15. ASSUME NEW x \in Terminals, Reap(x) PROVE NoChange
  BY <1>15 DEF Reap
<1>16. ASSUME NEW x \in Terminals, Output(x) PROVE NoChange
  BY <1>16 DEF Output
<1>17. ASSUME NEW x \in Terminals, PumpStops(x) PROVE NoChange
  BY <1>17 DEF PumpStops
<1>18. ASSUME NEW x \in Terminals, PumpEnds(x) PROVE NoChange
  BY <1>18 DEF PumpEnds, Outcome
<1> HIDE DEF NoChange, IInv, TypeOK, Safe, EntryIsLive, Holding, Creating, Final,
        IsLaunch, Ended, Await, Answer, Pumping, Launching, terminalVars
<1> QED
  BY <1>1, <1>2, <1>3, <1>4, <1>5, <1>6, <1>7, <1>8, <1>9, <1>10,
      <1>11, <1>12, <1>13, <1>14, <1>15, <1>16, <1>17, <1>18
  DEF Next, NewRequest, RequestStep

(* A saved outcome is final unless launches have overlapped: requests that *)
(* save what they have held across an await do not revive the run.         *)
THEOREM OutcomesAreFinal == Spec => EndedStaysEnded
<1>1. IInv /\ [Next]_vars => [NoChange]_vars
  BY StepNoChange
<1> QED
  BY <1>1, Invariance, PTL DEF Spec, EndedStaysEnded, NoChange
=============================================================================
