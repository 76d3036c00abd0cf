------------------------- MODULE ChatSessionProofs -------------------------
(***************************************************************************)
(* Proofs about ChatSession, for any set of turns and backfills and any    *)
(* number of restarts.                                                     *)
(*                                                                         *)
(* Nothing but the lock keeps turns apart, and the lock is only looked at, *)
(* never waited for.  What is shown depends on more: reconciliation acts   *)
(* on the handle of the active task, so the handle has to be that of the   *)
(* lock's holder; and a restart reads the manifest, so the manifest has to *)
(* say what the session object says, even after the session was deleted    *)
(* under a running turn.  The inductive invariant adds these two facts.    *)
(***************************************************************************)
EXTENDS ChatSession, TLAPS

(* A manifest that can be read says what the session object says, also     *)
(* while a turn of a deleted session goes on; a listed session has one.    *)
SavedState ==
    /\ meta \in Manifests =>
          /\ meta.status = status /\ meta.error = lastError
          /\ valid => meta.title = title /\ meta.valid
    /\ listed => meta \in Manifests

(* The handle reconciliation looks at and cancels is the lock holder's.    *)
HolderIsActive == lock # NoTurn => active = lock

(* Before its creation nothing refers to the session.                      *)
Untouched ==
    ~created => /\ ~listed
                /\ status = "idle" /\ ~lastError
                /\ lock = NoTurn
                /\ meta \notin Manifests
                /\ \A t \in Turns : task[t] = "new"
                /\ \A b \in Backfills : backfill[b] = "new"

(* The inductive invariant. *)
IInv ==
    /\ TypeOK
    /\ OneTurnAtATime
    /\ HolderIsActive
    /\ TurnInFlightIsShown
    /\ SavedState
    /\ RunningHasTask
    /\ Untouched

(* What a restart leaves of the volatile state is well typed. *)
LEMMA StopTypeOK ==
    ASSUME TypeOK, Stop
    PROVE  /\ created' \in BOOLEAN /\ deleted' \in BOOLEAN
           /\ lock' \in Turns \cup {NoTurn} /\ active' \in Turns \cup {NoTurn}
           /\ activity' \in {"none", "recent", "old"}
           /\ cancelled' \subseteq Turns
           /\ task' \in [Turns -> {"new", "accepted"} \cup InTurn \cup Finished]
           /\ steps' \in [Turns -> 0..MaxSteps]
           /\ backfill' \in [Backfills -> {"new", "title", "done"}]
           /\ crashes' \in 0..MaxCrashes
<1>1. task' \in [Turns -> {"new", "accepted"} \cup InTurn \cup Finished]
  BY DEF TypeOK, Stop, Finished
<1>2. backfill' \in [Backfills -> {"new", "title", "done"}]
  BY DEF TypeOK, Stop
<1>3. crashes' \in 0..MaxCrashes
  BY BoundsAssumption DEF TypeOK, Stop
<1> QED
  BY <1>1, <1>2, <1>3 DEF TypeOK, Stop

(* The memory of the agent is well typed.                                  *)
LEMMA RememberTypeOK ==
    ASSUME TypeOK, Remember
    PROVE  messages' \in BOOLEAN /\ log' \in Logs
<1>1. CASE UNCHANGED <<messages, log>>
  BY <1>1 DEF TypeOK
<1>2. CASE messages' = TRUE /\ log' \in {log, "full"}
  BY <1>2 DEF TypeOK, Logs
<1> QED
  BY <1>1, <1>2 DEF Remember

(* Every step keeps the types.                                             *)
LEMMA StepTypeOK ==
    ASSUME TypeOK, [Next]_vars
    PROVE  TypeOK'
<1> USE TurnsAssumption, BoundsAssumption, ManifestsAssumption DEF TypeOK, Manifests,
    Statuses, Titles, Logs, InTurn, Finished, vars, fileVars, turnVars, entryVars
<1>1. ASSUME CreateSession
      PROVE  TypeOK'
  BY <1>1 DEF CreateSession, Manifest
<1>2. ASSUME Read
      PROVE  TypeOK'
  BY <1>2
  DEF Read, Reconcile, SeenStatus, SeenError, SeenCancelled, SeenTitle, Orphaned,
      Overdue, Manifest
<1>3. ASSUME ReadMessages
      PROVE  TypeOK'
  BY <1>3 DEF ReadMessages, SeenTitle, Manifest
<1>4. ASSUME Reconfigure
      PROVE  TypeOK'
  BY <1>4
  DEF Reconfigure, Reconcile, SeenStatus, SeenError, SeenCancelled, SeenTitle,
      Orphaned, Overdue, Manifest
<1>5. ASSUME ReconfigureRejected
      PROVE  TypeOK'
  BY <1>5 DEF ReconfigureRejected, SeenTitle, Manifest
<1>6. ASSUME DeleteMessages
      PROVE  TypeOK'
  BY <1>6
  DEF DeleteMessages, Reconcile, SeenStatus, SeenError, SeenCancelled, SeenTitle,
      Orphaned, Overdue, Manifest
<1>7. ASSUME DeleteSession
      PROVE  TypeOK'
  BY <1>7 DEF DeleteSession
<1>8. ASSUME NEW t \in Turns, Dispatch(t)
      PROVE  TypeOK'
  BY <1>8
  DEF Dispatch, Reconcile, SeenStatus, SeenError, SeenCancelled, SeenTitle, Orphaned,
      Overdue, Manifest, Changed
<1>9. ASSUME NEW b \in Backfills, BeginBackfill(b)
      PROVE  TypeOK'
  BY <1>9 DEF BeginBackfill
<1>10. ASSUME TimePasses
      PROVE  TypeOK'
  BY <1>10 DEF TimePasses
<1>11. ASSUME RestoreManifest
      PROVE  TypeOK'
  BY <1>11, StopTypeOK DEF RestoreManifest, Manifest
<1>12. ASSUME RestoreRaises
      PROVE  TypeOK'
  BY <1>12, StopTypeOK DEF RestoreRaises
<1>13. ASSUME RestoreLog
      PROVE  TypeOK'
  BY <1>13, StopTypeOK DEF RestoreLog, Manifest
<1>14. ASSUME RestoreNothing
      PROVE  TypeOK'
  BY <1>14, StopTypeOK DEF RestoreNothing
<1>15. ASSUME NEW t \in Turns, RefuseTurn(t)
      PROVE  TypeOK'
  BY <1>15
  DEF RefuseTurn, MayAsk, Reconcile, SeenStatus, SeenError, SeenCancelled, SeenTitle,
      Orphaned, Overdue, Manifest
<1>16. ASSUME NEW t \in Turns, NEW u \in BOOLEAN, BeginTurn(t, u)
      PROVE  TypeOK'
  BY <1>16 DEF BeginTurn, MayAsk, SeenTitle, Manifest, Remember
<1>17. ASSUME NEW t \in Turns, AgentStep(t)
      PROVE  TypeOK'
  BY <1>17, RememberTypeOK DEF AgentStep
<1>18. ASSUME NEW t \in Turns, AnswerTitled(t)
      PROVE  TypeOK'
  BY <1>18 DEF AnswerTitled, Complete, ReleaseTurn, Manifest
<1>19. ASSUME NEW t \in Turns, AwaitTitle(t)
      PROVE  TypeOK'
  BY <1>19 DEF AwaitTitle
<1>20. ASSUME NEW t \in Turns, AgentFails(t)
      PROVE  TypeOK'
  BY <1>20 DEF AgentFails, EndInError, ReleaseTurn, Manifest
<1>21. ASSUME NEW t \in Turns, AttachmentsSaved(t)
      PROVE  TypeOK'
  BY <1>21, RememberTypeOK DEF AttachmentsSaved
<1>22. ASSUME NEW t \in Turns, AttachmentsFail(t)
      PROVE  TypeOK'
  BY <1>22 DEF AttachmentsFail
<1>23. ASSUME NEW t \in Turns, TitleGenerated(t)
      PROVE  TypeOK'
  BY <1>23 DEF TitleGenerated, Complete, ReleaseTurn, Manifest
<1>24. ASSUME NEW t \in Turns, CancelDelivered(t)
      PROVE  TypeOK'
  BY <1>24 DEF CancelDelivered, EndInError, ReleaseTurn, Manifest
<1>25. ASSUME NEW b \in Backfills, EndBackfill(b)
      PROVE  TypeOK'
  BY <1>25 DEF EndBackfill, Manifest
<1>26. CASE UNCHANGED vars
  BY <1>26
<1> HIDE DEF TypeOK, Manifests, Statuses, Titles, Logs, InTurn, Finished, vars,
    fileVars, turnVars, entryVars
<1> QED
  BY <1>1, <1>2, <1>3, <1>4, <1>5, <1>6, <1>7, <1>8, <1>9, <1>10, <1>11, <1>12, <1>13,
      <1>14, <1>15, <1>16, <1>17, <1>18, <1>19, <1>20, <1>21, <1>22, <1>23, <1>24,
      <1>25, <1>26
  DEF Next, Request, Restart, BeginOrRefuse, AgentMove, TurnStep

(* Only the lock's holder is in a turn, and the active task is the holder. *)
LEMMA StepOneTurn ==
    ASSUME TypeOK, OneTurnAtATime, HolderIsActive, Untouched, [Next]_vars
    PROVE  OneTurnAtATime' /\ HolderIsActive'
<1> USE TurnsAssumption, BoundsAssumption, ManifestsAssumption DEF TypeOK, Manifests,
    Statuses, Titles, Logs, InTurn, Finished, OneTurnAtATime, HolderIsActive, Untouched,
    vars, fileVars, turnVars, entryVars
<1>1. ASSUME CreateSession
      PROVE  OneTurnAtATime' /\ HolderIsActive'
  BY <1>1 DEF CreateSession, Manifest
<1>2. ASSUME Read
      PROVE  OneTurnAtATime' /\ HolderIsActive'
  BY <1>2
  DEF Read, Reconcile, SeenStatus, SeenError, SeenCancelled, SeenTitle, Orphaned,
      Overdue, Manifest
<1>3. ASSUME ReadMessages
      PROVE  OneTurnAtATime' /\ HolderIsActive'
  BY <1>3 DEF ReadMessages, SeenTitle, Manifest
<1>4. ASSUME Reconfigure
      PROVE  OneTurnAtATime' /\ HolderIsActive'
  BY <1>4
  DEF Reconfigure, Reconcile, SeenStatus, SeenError, SeenCancelled, SeenTitle,
      Orphaned, Overdue, Manifest
<1>5. ASSUME ReconfigureRejected
      PROVE  OneTurnAtATime' /\ HolderIsActive'
  BY <1>5 DEF ReconfigureRejected, SeenTitle, Manifest
<1>6. ASSUME DeleteMessages
      PROVE  OneTurnAtATime' /\ HolderIsActive'
  BY <1>6
  DEF DeleteMessages, Reconcile, SeenStatus, SeenError, SeenCancelled, SeenTitle,
      Orphaned, Overdue, Manifest
<1>7. ASSUME DeleteSession
      PROVE  OneTurnAtATime' /\ HolderIsActive'
  BY <1>7 DEF DeleteSession
<1>8. ASSUME NEW t \in Turns, Dispatch(t)
      PROVE  OneTurnAtATime' /\ HolderIsActive'
  BY <1>8
  DEF Dispatch, Reconcile, SeenStatus, SeenError, SeenCancelled, SeenTitle, Orphaned,
      Overdue, Manifest, Changed
<1>9. ASSUME NEW b \in Backfills, BeginBackfill(b)
      PROVE  OneTurnAtATime' /\ HolderIsActive'
  BY <1>9 DEF BeginBackfill
<1>10. ASSUME TimePasses
      PROVE  OneTurnAtATime' /\ HolderIsActive'
  BY <1>10 DEF TimePasses
<1>11. ASSUME RestoreManifest
      PROVE  OneTurnAtATime' /\ HolderIsActive'
  BY <1>11 DEF RestoreManifest, Stop, Manifest
<1>12. ASSUME RestoreRaises
      PROVE  OneTurnAtATime' /\ HolderIsActive'
  BY <1>12 DEF RestoreRaises, Stop
<1>13. ASSUME RestoreLog
      PROVE  OneTurnAtATime' /\ HolderIsActive'
  BY <1>13 DEF RestoreLog, Stop, Manifest
<1>14. ASSUME RestoreNothing
      PROVE  OneTurnAtATime' /\ HolderIsActive'
  BY <1>14 DEF RestoreNothing, Stop
<1>15. ASSUME NEW t \in Turns, RefuseTurn(t)
      PROVE  OneTurnAtATime' /\ HolderIsActive'
  BY <1>15
  DEF RefuseTurn, MayAsk, Reconcile, SeenStatus, SeenError, SeenCancelled, SeenTitle,
      Orphaned, Overdue, Manifest
<1>16. ASSUME NEW t \in Turns, NEW u \in BOOLEAN, BeginTurn(t, u)
      PROVE  OneTurnAtATime' /\ HolderIsActive'
  BY <1>16 DEF BeginTurn, MayAsk, SeenTitle, Manifest, Remember
<1>17. ASSUME NEW t \in Turns, AgentStep(t)
      PROVE  OneTurnAtATime' /\ HolderIsActive'
  BY <1>17 DEF AgentStep, Remember
<1>18. ASSUME NEW t \in Turns, AnswerTitled(t)
      PROVE  OneTurnAtATime' /\ HolderIsActive'
  BY <1>18 DEF AnswerTitled, Complete, ReleaseTurn, Manifest
<1>19. ASSUME NEW t \in Turns, AwaitTitle(t)
      PROVE  OneTurnAtATime' /\ HolderIsActive'
  BY <1>19 DEF AwaitTitle
<1>20. ASSUME NEW t \in Turns, AgentFails(t)
      PROVE  OneTurnAtATime' /\ HolderIsActive'
  BY <1>20 DEF AgentFails, EndInError, ReleaseTurn, Manifest
<1>21. ASSUME NEW t \in Turns, AttachmentsSaved(t)
      PROVE  OneTurnAtATime' /\ HolderIsActive'
  BY <1>21 DEF AttachmentsSaved, Remember
<1>22. ASSUME NEW t \in Turns, AttachmentsFail(t)
      PROVE  OneTurnAtATime' /\ HolderIsActive'
  BY <1>22 DEF AttachmentsFail
<1>23. ASSUME NEW t \in Turns, TitleGenerated(t)
      PROVE  OneTurnAtATime' /\ HolderIsActive'
  BY <1>23 DEF TitleGenerated, Complete, ReleaseTurn, Manifest
<1>24. ASSUME NEW t \in Turns, CancelDelivered(t)
      PROVE  OneTurnAtATime' /\ HolderIsActive'
  BY <1>24 DEF CancelDelivered, EndInError, ReleaseTurn, Manifest
<1>25. ASSUME NEW b \in Backfills, EndBackfill(b)
      PROVE  OneTurnAtATime' /\ HolderIsActive'
  BY <1>25 DEF EndBackfill, Manifest
<1>26. CASE UNCHANGED vars
  BY <1>26
<1> HIDE DEF TypeOK, Manifests, Statuses, Titles, Logs, InTurn, Finished,
    OneTurnAtATime, HolderIsActive, Untouched, vars, fileVars, turnVars, entryVars
<1> QED
  BY <1>1, <1>2, <1>3, <1>4, <1>5, <1>6, <1>7, <1>8, <1>9, <1>10, <1>11, <1>12, <1>13,
      <1>14, <1>15, <1>16, <1>17, <1>18, <1>19, <1>20, <1>21, <1>22, <1>23, <1>24,
      <1>25, <1>26
  DEF Next, Request, Restart, BeginOrRefuse, AgentMove, TurnStep

(* The status shown follows the turn that is executing.                    *)
LEMMA StepShown ==
    ASSUME IInv, [Next]_vars
    PROVE  TurnInFlightIsShown'
<1> USE TurnsAssumption, BoundsAssumption, ManifestsAssumption DEF TypeOK, Manifests,
    Statuses, Titles, Logs, InTurn, Finished, IInv, OneTurnAtATime, HolderIsActive,
    TurnInFlightIsShown, SavedState, Untouched, vars, fileVars, turnVars, entryVars
<1>1. ASSUME CreateSession
      PROVE  TurnInFlightIsShown'
  BY <1>1 DEF CreateSession, Manifest
<1>2. ASSUME Read
      PROVE  TurnInFlightIsShown'
  BY <1>2
  DEF Read, Reconcile, SeenStatus, SeenError, SeenCancelled, SeenTitle, Orphaned,
      Overdue, Manifest
<1>3. ASSUME ReadMessages
      PROVE  TurnInFlightIsShown'
  BY <1>3 DEF ReadMessages, SeenTitle, Manifest
<1>4. ASSUME Reconfigure
      PROVE  TurnInFlightIsShown'
  BY <1>4
  DEF Reconfigure, Reconcile, SeenStatus, SeenError, SeenCancelled, SeenTitle,
      Orphaned, Overdue, Manifest
<1>5. ASSUME ReconfigureRejected
      PROVE  TurnInFlightIsShown'
  BY <1>5 DEF ReconfigureRejected, SeenTitle, Manifest
<1>6. ASSUME DeleteMessages
      PROVE  TurnInFlightIsShown'
  BY <1>6
  DEF DeleteMessages, Reconcile, SeenStatus, SeenError, SeenCancelled, SeenTitle,
      Orphaned, Overdue, Manifest
<1>7. ASSUME DeleteSession
      PROVE  TurnInFlightIsShown'
  BY <1>7 DEF DeleteSession
<1>8. ASSUME NEW t \in Turns, Dispatch(t)
      PROVE  TurnInFlightIsShown'
  BY <1>8
  DEF Dispatch, Reconcile, SeenStatus, SeenError, SeenCancelled, SeenTitle, Orphaned,
      Overdue, Manifest, Changed
<1>9. ASSUME NEW b \in Backfills, BeginBackfill(b)
      PROVE  TurnInFlightIsShown'
  BY <1>9 DEF BeginBackfill
<1>10. ASSUME TimePasses
      PROVE  TurnInFlightIsShown'
  BY <1>10 DEF TimePasses
<1>11. ASSUME RestoreManifest
      PROVE  TurnInFlightIsShown'
  BY <1>11 DEF RestoreManifest, Stop, Manifest
<1>12. ASSUME RestoreRaises
      PROVE  TurnInFlightIsShown'
  BY <1>12 DEF RestoreRaises, Stop
<1>13. ASSUME RestoreLog
      PROVE  TurnInFlightIsShown'
  BY <1>13 DEF RestoreLog, Stop, Manifest
<1>14. ASSUME RestoreNothing
      PROVE  TurnInFlightIsShown'
  BY <1>14 DEF RestoreNothing, Stop
<1>15. ASSUME NEW t \in Turns, RefuseTurn(t)
      PROVE  TurnInFlightIsShown'
  BY <1>15
  DEF RefuseTurn, MayAsk, Reconcile, SeenStatus, SeenError, SeenCancelled, SeenTitle,
      Orphaned, Overdue, Manifest
<1>16. ASSUME NEW t \in Turns, NEW u \in BOOLEAN, BeginTurn(t, u)
      PROVE  TurnInFlightIsShown'
  BY <1>16 DEF BeginTurn, MayAsk, SeenTitle, Manifest, Remember
<1>17. ASSUME NEW t \in Turns, AgentStep(t)
      PROVE  TurnInFlightIsShown'
  BY <1>17 DEF AgentStep, Remember
<1>18. ASSUME NEW t \in Turns, AnswerTitled(t)
      PROVE  TurnInFlightIsShown'
  BY <1>18 DEF AnswerTitled, Complete, ReleaseTurn, Manifest
<1>19. ASSUME NEW t \in Turns, AwaitTitle(t)
      PROVE  TurnInFlightIsShown'
  BY <1>19 DEF AwaitTitle
<1>20. ASSUME NEW t \in Turns, AgentFails(t)
      PROVE  TurnInFlightIsShown'
  BY <1>20 DEF AgentFails, EndInError, ReleaseTurn, Manifest
<1>21. ASSUME NEW t \in Turns, AttachmentsSaved(t)
      PROVE  TurnInFlightIsShown'
  BY <1>21 DEF AttachmentsSaved, Remember
<1>22. ASSUME NEW t \in Turns, AttachmentsFail(t)
      PROVE  TurnInFlightIsShown'
  BY <1>22 DEF AttachmentsFail
<1>23. ASSUME NEW t \in Turns, TitleGenerated(t)
      PROVE  TurnInFlightIsShown'
  BY <1>23 DEF TitleGenerated, Complete, ReleaseTurn, Manifest
<1>24. ASSUME NEW t \in Turns, CancelDelivered(t)
      PROVE  TurnInFlightIsShown'
  BY <1>24 DEF CancelDelivered, EndInError, ReleaseTurn, Manifest
<1>25. ASSUME NEW b \in Backfills, EndBackfill(b)
      PROVE  TurnInFlightIsShown'
  BY <1>25 DEF EndBackfill, Manifest
<1>26. CASE UNCHANGED vars
  BY <1>26
<1> HIDE DEF TypeOK, Manifests, Statuses, Titles, Logs, InTurn, Finished, IInv,
    OneTurnAtATime, HolderIsActive, TurnInFlightIsShown, SavedState, Untouched, vars,
    fileVars, turnVars, entryVars
<1> QED
  BY <1>1, <1>2, <1>3, <1>4, <1>5, <1>6, <1>7, <1>8, <1>9, <1>10, <1>11, <1>12, <1>13,
      <1>14, <1>15, <1>16, <1>17, <1>18, <1>19, <1>20, <1>21, <1>22, <1>23, <1>24,
      <1>25, <1>26
  DEF Next, Request, Restart, BeginOrRefuse, AgentMove, TurnStep

(* Every change that a reader can see is saved in the step that makes it.  *)
LEMMA StepSaved ==
    ASSUME TypeOK, SavedState, Untouched, [Next]_vars
    PROVE  SavedState'
<1> USE TurnsAssumption, BoundsAssumption, ManifestsAssumption DEF TypeOK, Manifests,
    Statuses, Titles, Logs, InTurn, Finished, SavedState, Untouched, vars, fileVars,
    turnVars, entryVars
<1>1. ASSUME CreateSession
      PROVE  SavedState'
  BY <1>1 DEF CreateSession, Manifest
<1>2. ASSUME Read
      PROVE  SavedState'
  BY <1>2
  DEF Read, Reconcile, SeenStatus, SeenError, SeenCancelled, SeenTitle, Orphaned,
      Overdue, Manifest
<1>3. ASSUME ReadMessages
      PROVE  SavedState'
  BY <1>3 DEF ReadMessages, SeenTitle, Manifest
<1>4. ASSUME Reconfigure
      PROVE  SavedState'
  BY <1>4
  DEF Reconfigure, Reconcile, SeenStatus, SeenError, SeenCancelled, SeenTitle,
      Orphaned, Overdue, Manifest
<1>5. ASSUME ReconfigureRejected
      PROVE  SavedState'
  BY <1>5 DEF ReconfigureRejected, SeenTitle, Manifest
<1>6. ASSUME DeleteMessages
      PROVE  SavedState'
  BY <1>6
  DEF DeleteMessages, Reconcile, SeenStatus, SeenError, SeenCancelled, SeenTitle,
      Orphaned, Overdue, Manifest
<1>7. ASSUME DeleteSession
      PROVE  SavedState'
  BY <1>7 DEF DeleteSession
<1>8. ASSUME NEW t \in Turns, Dispatch(t)
      PROVE  SavedState'
  BY <1>8
  DEF Dispatch, Reconcile, SeenStatus, SeenError, SeenCancelled, SeenTitle, Orphaned,
      Overdue, Manifest, Changed
<1>9. ASSUME NEW b \in Backfills, BeginBackfill(b)
      PROVE  SavedState'
  BY <1>9 DEF BeginBackfill
<1>10. ASSUME TimePasses
      PROVE  SavedState'
  BY <1>10 DEF TimePasses
<1>11. ASSUME RestoreManifest
      PROVE  SavedState'
  BY <1>11 DEF RestoreManifest, Stop, Manifest
<1>12. ASSUME RestoreRaises
      PROVE  SavedState'
  BY <1>12 DEF RestoreRaises, Stop
<1>13. ASSUME RestoreLog
      PROVE  SavedState'
  BY <1>13 DEF RestoreLog, Stop, Manifest
<1>14. ASSUME RestoreNothing
      PROVE  SavedState'
  BY <1>14 DEF RestoreNothing, Stop
<1>15. ASSUME NEW t \in Turns, RefuseTurn(t)
      PROVE  SavedState'
  BY <1>15
  DEF RefuseTurn, MayAsk, Reconcile, SeenStatus, SeenError, SeenCancelled, SeenTitle,
      Orphaned, Overdue, Manifest
<1>16. ASSUME NEW t \in Turns, NEW u \in BOOLEAN, BeginTurn(t, u)
      PROVE  SavedState'
  BY <1>16 DEF BeginTurn, MayAsk, SeenTitle, Manifest, Remember
<1>17. ASSUME NEW t \in Turns, AgentStep(t)
      PROVE  SavedState'
  BY <1>17 DEF AgentStep, Remember
<1>18. ASSUME NEW t \in Turns, AnswerTitled(t)
      PROVE  SavedState'
  BY <1>18 DEF AnswerTitled, Complete, ReleaseTurn, Manifest
<1>19. ASSUME NEW t \in Turns, AwaitTitle(t)
      PROVE  SavedState'
  BY <1>19 DEF AwaitTitle
<1>20. ASSUME NEW t \in Turns, AgentFails(t)
      PROVE  SavedState'
  BY <1>20 DEF AgentFails, EndInError, ReleaseTurn, Manifest
<1>21. ASSUME NEW t \in Turns, AttachmentsSaved(t)
      PROVE  SavedState'
  BY <1>21 DEF AttachmentsSaved, Remember
<1>22. ASSUME NEW t \in Turns, AttachmentsFail(t)
      PROVE  SavedState'
  BY <1>22 DEF AttachmentsFail
<1>23. ASSUME NEW t \in Turns, TitleGenerated(t)
      PROVE  SavedState'
  BY <1>23 DEF TitleGenerated, Complete, ReleaseTurn, Manifest
<1>24. ASSUME NEW t \in Turns, CancelDelivered(t)
      PROVE  SavedState'
  BY <1>24 DEF CancelDelivered, EndInError, ReleaseTurn, Manifest
<1>25. ASSUME NEW b \in Backfills, EndBackfill(b)
      PROVE  SavedState'
  BY <1>25 DEF EndBackfill, Manifest
<1>26. CASE UNCHANGED vars
  BY <1>26
<1> HIDE DEF TypeOK, Manifests, Statuses, Titles, Logs, InTurn, Finished, SavedState,
    Untouched, vars, fileVars, turnVars, entryVars
<1> QED
  BY <1>1, <1>2, <1>3, <1>4, <1>5, <1>6, <1>7, <1>8, <1>9, <1>10, <1>11, <1>12, <1>13,
      <1>14, <1>15, <1>16, <1>17, <1>18, <1>19, <1>20, <1>21, <1>22, <1>23, <1>24,
      <1>25, <1>26
  DEF Next, Request, Restart, BeginOrRefuse, AgentMove, TurnStep

(* No step leaves a listed session running without a task.                 *)
LEMMA StepRunning ==
    ASSUME TypeOK, RunningHasTask, OneTurnAtATime, Untouched, [Next]_vars
    PROVE  RunningHasTask'
<1> USE TurnsAssumption, BoundsAssumption, ManifestsAssumption DEF TypeOK, Manifests,
    Statuses, Titles, Logs, InTurn, Finished, RunningHasTask, OneTurnAtATime, Untouched,
    vars, fileVars, turnVars, entryVars
<1>1. ASSUME CreateSession
      PROVE  RunningHasTask'
  BY <1>1 DEF CreateSession, Manifest
<1>2. ASSUME Read
      PROVE  RunningHasTask'
  BY <1>2
  DEF Read, Reconcile, SeenStatus, SeenError, SeenCancelled, SeenTitle, Orphaned,
      Overdue, Manifest
<1>3. ASSUME ReadMessages
      PROVE  RunningHasTask'
  BY <1>3 DEF ReadMessages, SeenTitle, Manifest
<1>4. ASSUME Reconfigure
      PROVE  RunningHasTask'
  BY <1>4
  DEF Reconfigure, Reconcile, SeenStatus, SeenError, SeenCancelled, SeenTitle,
      Orphaned, Overdue, Manifest
<1>5. ASSUME ReconfigureRejected
      PROVE  RunningHasTask'
  BY <1>5 DEF ReconfigureRejected, SeenTitle, Manifest
<1>6. ASSUME DeleteMessages
      PROVE  RunningHasTask'
  BY <1>6
  DEF DeleteMessages, Reconcile, SeenStatus, SeenError, SeenCancelled, SeenTitle,
      Orphaned, Overdue, Manifest
<1>7. ASSUME DeleteSession
      PROVE  RunningHasTask'
  BY <1>7 DEF DeleteSession
<1>8. ASSUME NEW t \in Turns, Dispatch(t)
      PROVE  RunningHasTask'
  BY <1>8
  DEF Dispatch, Reconcile, SeenStatus, SeenError, SeenCancelled, SeenTitle, Orphaned,
      Overdue, Manifest, Changed
<1>9. ASSUME NEW b \in Backfills, BeginBackfill(b)
      PROVE  RunningHasTask'
  BY <1>9 DEF BeginBackfill
<1>10. ASSUME TimePasses
      PROVE  RunningHasTask'
  BY <1>10 DEF TimePasses
<1>11. ASSUME RestoreManifest
      PROVE  RunningHasTask'
  BY <1>11 DEF RestoreManifest, Stop, Manifest
<1>12. ASSUME RestoreRaises
      PROVE  RunningHasTask'
  BY <1>12 DEF RestoreRaises, Stop
<1>13. ASSUME RestoreLog
      PROVE  RunningHasTask'
  BY <1>13 DEF RestoreLog, Stop, Manifest
<1>14. ASSUME RestoreNothing
      PROVE  RunningHasTask'
  BY <1>14 DEF RestoreNothing, Stop
<1>15. ASSUME NEW t \in Turns, RefuseTurn(t)
      PROVE  RunningHasTask'
  BY <1>15
  DEF RefuseTurn, MayAsk, Reconcile, SeenStatus, SeenError, SeenCancelled, SeenTitle,
      Orphaned, Overdue, Manifest
<1>16. ASSUME NEW t \in Turns, NEW u \in BOOLEAN, BeginTurn(t, u)
      PROVE  RunningHasTask'
  BY <1>16 DEF BeginTurn, MayAsk, SeenTitle, Manifest, Remember
<1>17. ASSUME NEW t \in Turns, AgentStep(t)
      PROVE  RunningHasTask'
  BY <1>17 DEF AgentStep, Remember
<1>18. ASSUME NEW t \in Turns, AnswerTitled(t)
      PROVE  RunningHasTask'
  BY <1>18 DEF AnswerTitled, Complete, ReleaseTurn, Manifest
<1>19. ASSUME NEW t \in Turns, AwaitTitle(t)
      PROVE  RunningHasTask'
  BY <1>19 DEF AwaitTitle
<1>20. ASSUME NEW t \in Turns, AgentFails(t)
      PROVE  RunningHasTask'
  BY <1>20 DEF AgentFails, EndInError, ReleaseTurn, Manifest
<1>21. ASSUME NEW t \in Turns, AttachmentsSaved(t)
      PROVE  RunningHasTask'
  BY <1>21 DEF AttachmentsSaved, Remember
<1>22. ASSUME NEW t \in Turns, AttachmentsFail(t)
      PROVE  RunningHasTask'
  BY <1>22 DEF AttachmentsFail
<1>23. ASSUME NEW t \in Turns, TitleGenerated(t)
      PROVE  RunningHasTask'
  BY <1>23 DEF TitleGenerated, Complete, ReleaseTurn, Manifest
<1>24. ASSUME NEW t \in Turns, CancelDelivered(t)
      PROVE  RunningHasTask'
  BY <1>24 DEF CancelDelivered, EndInError, ReleaseTurn, Manifest
<1>25. ASSUME NEW b \in Backfills, EndBackfill(b)
      PROVE  RunningHasTask'
  BY <1>25 DEF EndBackfill, Manifest
<1>26. CASE UNCHANGED vars
  BY <1>26
<1> HIDE DEF TypeOK, Manifests, Statuses, Titles, Logs, InTurn, Finished,
    RunningHasTask, OneTurnAtATime, Untouched, vars, fileVars, turnVars, entryVars
<1> QED
  BY <1>1, <1>2, <1>3, <1>4, <1>5, <1>6, <1>7, <1>8, <1>9, <1>10, <1>11, <1>12, <1>13,
      <1>14, <1>15, <1>16, <1>17, <1>18, <1>19, <1>20, <1>21, <1>22, <1>23, <1>24,
      <1>25, <1>26
  DEF Next, Request, Restart, BeginOrRefuse, AgentMove, TurnStep

(* Nothing happens to a session before it is created.                      *)
LEMMA StepUntouched ==
    ASSUME TypeOK, OneTurnAtATime, SavedState, Untouched, [Next]_vars
    PROVE  Untouched'
<1> USE TurnsAssumption, BoundsAssumption, ManifestsAssumption DEF TypeOK, Manifests,
    Statuses, Titles, Logs, InTurn, Finished, OneTurnAtATime, SavedState, Untouched,
    vars, fileVars, turnVars, entryVars
<1>1. ASSUME CreateSession
      PROVE  Untouched'
  BY <1>1 DEF CreateSession, Manifest
<1>2. ASSUME Read
      PROVE  Untouched'
  BY <1>2
  DEF Read, Reconcile, SeenStatus, SeenError, SeenCancelled, SeenTitle, Orphaned,
      Overdue, Manifest
<1>3. ASSUME ReadMessages
      PROVE  Untouched'
  BY <1>3 DEF ReadMessages, SeenTitle, Manifest
<1>4. ASSUME Reconfigure
      PROVE  Untouched'
  BY <1>4
  DEF Reconfigure, Reconcile, SeenStatus, SeenError, SeenCancelled, SeenTitle,
      Orphaned, Overdue, Manifest
<1>5. ASSUME ReconfigureRejected
      PROVE  Untouched'
  BY <1>5 DEF ReconfigureRejected, SeenTitle, Manifest
<1>6. ASSUME DeleteMessages
      PROVE  Untouched'
  BY <1>6
  DEF DeleteMessages, Reconcile, SeenStatus, SeenError, SeenCancelled, SeenTitle,
      Orphaned, Overdue, Manifest
<1>7. ASSUME DeleteSession
      PROVE  Untouched'
  BY <1>7 DEF DeleteSession
<1>8. ASSUME NEW t \in Turns, Dispatch(t)
      PROVE  Untouched'
  BY <1>8
  DEF Dispatch, Reconcile, SeenStatus, SeenError, SeenCancelled, SeenTitle, Orphaned,
      Overdue, Manifest, Changed
<1>9. ASSUME NEW b \in Backfills, BeginBackfill(b)
      PROVE  Untouched'
  BY <1>9 DEF BeginBackfill
<1>10. ASSUME TimePasses
      PROVE  Untouched'
  BY <1>10 DEF TimePasses
<1>11. ASSUME RestoreManifest
      PROVE  Untouched'
  BY <1>11 DEF RestoreManifest, Stop, Manifest
<1>12. ASSUME RestoreRaises
      PROVE  Untouched'
  BY <1>12 DEF RestoreRaises, Stop
<1>13. ASSUME RestoreLog
      PROVE  Untouched'
  BY <1>13 DEF RestoreLog, Stop, Manifest
<1>14. ASSUME RestoreNothing
      PROVE  Untouched'
  BY <1>14 DEF RestoreNothing, Stop
<1>15. ASSUME NEW t \in Turns, RefuseTurn(t)
      PROVE  Untouched'
  BY <1>15
  DEF RefuseTurn, MayAsk, Reconcile, SeenStatus, SeenError, SeenCancelled, SeenTitle,
      Orphaned, Overdue, Manifest
<1>16. ASSUME NEW t \in Turns, NEW u \in BOOLEAN, BeginTurn(t, u)
      PROVE  Untouched'
  BY <1>16 DEF BeginTurn, MayAsk, SeenTitle, Manifest, Remember
<1>17. ASSUME NEW t \in Turns, AgentStep(t)
      PROVE  Untouched'
  BY <1>17 DEF AgentStep, Remember
<1>18. ASSUME NEW t \in Turns, AnswerTitled(t)
      PROVE  Untouched'
  BY <1>18 DEF AnswerTitled, Complete, ReleaseTurn, Manifest
<1>19. ASSUME NEW t \in Turns, AwaitTitle(t)
      PROVE  Untouched'
  BY <1>19 DEF AwaitTitle
<1>20. ASSUME NEW t \in Turns, AgentFails(t)
      PROVE  Untouched'
  BY <1>20 DEF AgentFails, EndInError, ReleaseTurn, Manifest
<1>21. ASSUME NEW t \in Turns, AttachmentsSaved(t)
      PROVE  Untouched'
  BY <1>21 DEF AttachmentsSaved, Remember
<1>22. ASSUME NEW t \in Turns, AttachmentsFail(t)
      PROVE  Untouched'
  BY <1>22 DEF AttachmentsFail
<1>23. ASSUME NEW t \in Turns, TitleGenerated(t)
      PROVE  Untouched'
  BY <1>23 DEF TitleGenerated, Complete, ReleaseTurn, Manifest
<1>24. ASSUME NEW t \in Turns, CancelDelivered(t)
      PROVE  Untouched'
  BY <1>24 DEF CancelDelivered, EndInError, ReleaseTurn, Manifest
<1>25. ASSUME NEW b \in Backfills, EndBackfill(b)
      PROVE  Untouched'
  BY <1>25 DEF EndBackfill, Manifest
<1>26. CASE UNCHANGED vars
  BY <1>26
<1> HIDE DEF TypeOK, Manifests, Statuses, Titles, Logs, InTurn, Finished,
    OneTurnAtATime, SavedState, Untouched, vars, fileVars, turnVars, entryVars
<1> QED
  BY <1>1, <1>2, <1>3, <1>4, <1>5, <1>6, <1>7, <1>8, <1>9, <1>10, <1>11, <1>12, <1>13,
      <1>14, <1>15, <1>16, <1>17, <1>18, <1>19, <1>20, <1>21, <1>22, <1>23, <1>24,
      <1>25, <1>26
  DEF Next, Request, Restart, BeginOrRefuse, AgentMove, TurnStep

(* What ErrorsAreExplained says of a step. *)
ErrorStep ==
    (status' = "error" /\ ~lastError')
        => \/ status = "error" /\ ~lastError
           \/ \E t \in Turns : AgentFails(t)

(* A step that restarts the process takes the error from the manifest.     *)
LEMMA StepExplained ==
    ASSUME TypeOK, SavedState, [Next]_vars
    PROVE  ErrorStep
<1> USE TurnsAssumption, BoundsAssumption, ManifestsAssumption DEF TypeOK, Manifests,
    Statuses, Titles, Logs, InTurn, Finished, SavedState, ErrorStep, vars, fileVars,
    turnVars, entryVars
<1>1. ASSUME CreateSession
      PROVE  ErrorStep
  BY <1>1 DEF CreateSession, Manifest
<1>2. ASSUME Read
      PROVE  ErrorStep
  BY <1>2
  DEF Read, Reconcile, SeenStatus, SeenError, SeenCancelled, SeenTitle, Orphaned,
      Overdue, Manifest
<1>3. ASSUME ReadMessages
      PROVE  ErrorStep
  BY <1>3 DEF ReadMessages, SeenTitle, Manifest
<1>4. ASSUME Reconfigure
      PROVE  ErrorStep
  BY <1>4
  DEF Reconfigure, Reconcile, SeenStatus, SeenError, SeenCancelled, SeenTitle,
      Orphaned, Overdue, Manifest
<1>5. ASSUME ReconfigureRejected
      PROVE  ErrorStep
  BY <1>5 DEF ReconfigureRejected, SeenTitle, Manifest
<1>6. ASSUME DeleteMessages
      PROVE  ErrorStep
  BY <1>6
  DEF DeleteMessages, Reconcile, SeenStatus, SeenError, SeenCancelled, SeenTitle,
      Orphaned, Overdue, Manifest
<1>7. ASSUME DeleteSession
      PROVE  ErrorStep
  BY <1>7 DEF DeleteSession
<1>8. ASSUME NEW t \in Turns, Dispatch(t)
      PROVE  ErrorStep
  BY <1>8
  DEF Dispatch, Reconcile, SeenStatus, SeenError, SeenCancelled, SeenTitle, Orphaned,
      Overdue, Manifest, Changed
<1>9. ASSUME NEW b \in Backfills, BeginBackfill(b)
      PROVE  ErrorStep
  BY <1>9 DEF BeginBackfill
<1>10. ASSUME TimePasses
      PROVE  ErrorStep
  BY <1>10 DEF TimePasses
<1>11. ASSUME RestoreManifest
      PROVE  ErrorStep
  <2>1. meta.status = status /\ meta.error = lastError
    BY <1>11 DEF RestoreManifest, Manifest
  <2>2. status' = "error" /\ ~lastError' => status = "error" /\ ~lastError
    BY <1>11, <2>1 DEF RestoreManifest
  <2> QED
    BY <2>2
<1>12. ASSUME RestoreRaises
      PROVE  ErrorStep
  BY <1>12 DEF RestoreRaises, Stop
<1>13. ASSUME RestoreLog
      PROVE  ErrorStep
  BY <1>13 DEF RestoreLog, Stop, Manifest
<1>14. ASSUME RestoreNothing
      PROVE  ErrorStep
  BY <1>14 DEF RestoreNothing, Stop
<1>15. ASSUME NEW t \in Turns, RefuseTurn(t)
      PROVE  ErrorStep
  BY <1>15
  DEF RefuseTurn, MayAsk, Reconcile, SeenStatus, SeenError, SeenCancelled, SeenTitle,
      Orphaned, Overdue, Manifest
<1>16. ASSUME NEW t \in Turns, NEW u \in BOOLEAN, BeginTurn(t, u)
      PROVE  ErrorStep
  BY <1>16 DEF BeginTurn, MayAsk, SeenTitle, Manifest, Remember
<1>17. ASSUME NEW t \in Turns, AgentStep(t)
      PROVE  ErrorStep
  BY <1>17 DEF AgentStep, Remember
<1>18. ASSUME NEW t \in Turns, AnswerTitled(t)
      PROVE  ErrorStep
  BY <1>18 DEF AnswerTitled, Complete, ReleaseTurn, Manifest
<1>19. ASSUME NEW t \in Turns, AwaitTitle(t)
      PROVE  ErrorStep
  BY <1>19 DEF AwaitTitle
<1>20. ASSUME NEW t \in Turns, AgentFails(t)
      PROVE  ErrorStep
  BY <1>20 DEF ErrorStep
<1>21. ASSUME NEW t \in Turns, AttachmentsSaved(t)
      PROVE  ErrorStep
  BY <1>21 DEF AttachmentsSaved, Remember
<1>22. ASSUME NEW t \in Turns, AttachmentsFail(t)
      PROVE  ErrorStep
  BY <1>22 DEF AttachmentsFail
<1>23. ASSUME NEW t \in Turns, TitleGenerated(t)
      PROVE  ErrorStep
  BY <1>23 DEF TitleGenerated, Complete, ReleaseTurn, Manifest
<1>24. ASSUME NEW t \in Turns, CancelDelivered(t)
      PROVE  ErrorStep
  BY <1>24 DEF CancelDelivered, EndInError, ReleaseTurn, Manifest
<1>25. ASSUME NEW b \in Backfills, EndBackfill(b)
      PROVE  ErrorStep
  BY <1>25 DEF EndBackfill, Manifest
<1>26. CASE UNCHANGED vars
  BY <1>26
<1> HIDE DEF TypeOK, Manifests, Statuses, Titles, Logs, InTurn, Finished, SavedState,
    ErrorStep, vars, fileVars, turnVars, entryVars
<1> QED
  BY <1>1, <1>2, <1>3, <1>4, <1>5, <1>6, <1>7, <1>8, <1>9, <1>10, <1>11, <1>12, <1>13,
      <1>14, <1>15, <1>16, <1>17, <1>18, <1>19, <1>20, <1>21, <1>22, <1>23, <1>24,
      <1>25, <1>26
  DEF Next, Request, Restart, BeginOrRefuse, AgentMove, TurnStep

(* The inductive invariant holds initially ...                             *)
LEMMA InitIInv == Init => IInv
<1> SUFFICES ASSUME Init PROVE IInv
  OBVIOUS
<1> USE TurnsAssumption, BoundsAssumption, ManifestsAssumption DEF Init
<1>1. TypeOK
  <2>1. {created, listed, deleted, valid, lastError, messages} \subseteq BOOLEAN
    OBVIOUS
  <2>2. /\ status \in Statuses /\ title \in Titles /\ log \in Logs
        /\ meta \in Manifests \cup {Absent, Torn}
    BY DEF Statuses, Titles, Logs
  <2>3. /\ lock \in Turns \cup {NoTurn} /\ active \in Turns \cup {NoTurn}
        /\ activity \in {"none", "recent", "old"}
        /\ cancelled \subseteq Turns
    OBVIOUS
  <2>4. /\ task \in [Turns -> {"new", "accepted"} \cup InTurn \cup Finished]
        /\ backfill \in [Backfills -> {"new", "title", "done"}]
    OBVIOUS
  <2>5. steps \in [Turns -> 0..MaxSteps] /\ crashes \in 0..MaxCrashes
    OBVIOUS
  <2> QED
    BY <2>1, <2>2, <2>3, <2>4, <2>5 DEF TypeOK
<1>2. OneTurnAtATime
  BY DEF OneTurnAtATime, InTurn
<1>3. HolderIsActive /\ TurnInFlightIsShown
  BY DEF HolderIsActive, TurnInFlightIsShown
<1>4. SavedState
  BY DEF SavedState
<1>5. RunningHasTask /\ Untouched
  BY DEF RunningHasTask, Untouched
<1> QED
  BY <1>1, <1>2, <1>3, <1>4, <1>5 DEF IInv

(* ... and every step keeps it.                                            *)
LEMMA StepIInv == IInv /\ [Next]_vars => IInv'
<1> SUFFICES ASSUME IInv, [Next]_vars PROVE IInv'
  OBVIOUS
<1>1. /\ TypeOK /\ OneTurnAtATime /\ HolderIsActive /\ TurnInFlightIsShown
      /\ SavedState /\ RunningHasTask /\ Untouched
  BY DEF IInv
<1>2. TypeOK'
  BY <1>1, StepTypeOK
<1>3. OneTurnAtATime' /\ HolderIsActive'
  BY <1>1, StepOneTurn
<1>4. TurnInFlightIsShown'
  BY StepShown
<1>5. SavedState'
  BY <1>1, StepSaved
<1>6. RunningHasTask'
  BY <1>1, StepRunning
<1>7. Untouched'
  BY <1>1, StepUntouched
<1> QED
  BY <1>2, <1>3, <1>4, <1>5, <1>6, <1>7 DEF IInv

(* The inductive invariant holds in every reachable state.                 *)
THEOREM Invariance == Spec => []IInv
  BY InitIInv, StepIInv, PTL DEF Spec

(* Every variable keeps its type, whatever the numbers of turns, backfills *)
(* and restarts.                                                           *)
THEOREM TypeCorrect == Spec => []TypeOK
<1>1. IInv => TypeOK
  BY DEF IInv
<1> QED
  BY <1>1, Invariance, PTL

(* ask_message: turns exclude each other although none waits for another,  *)
(* and a cancellation can only be pending for the turn holding the lock.   *)
THEOREM TurnsExclude == Spec => []OneTurnAtATime
<1>1. IInv => OneTurnAtATime
  BY DEF IInv
<1> QED
  BY <1>1, Invariance, PTL

(* A turn that is executing is shown as running until its cancellation is  *)
(* decided, from then on as failed, in memory and in the manifest.         *)
THEOREM TurnsAreShown == Spec => []TurnInFlightIsShown
<1>1. IInv => TurnInFlightIsShown
  BY DEF IInv
<1> QED
  BY <1>1, Invariance, PTL

(* persist: the manifest of a listed session is what the session shows.    *)
THEOREM ManifestsAreCurrent == Spec => []ManifestIsCurrent
<1>1. IInv => ManifestIsCurrent
  BY DEF IInv, SavedState, ManifestIsCurrent
<1> QED
  BY <1>1, Invariance, PTL

(* A listed session that is shown as running has a task to be cancelled or *)
(* to be found dead, after any number of restarts.                         *)
THEOREM RunningSessionsHaveTasks == Spec => []RunningHasTask
<1>1. IInv => RunningHasTask
  BY DEF IInv
<1> QED
  BY <1>1, Invariance, PTL

(* Only an exception without a text leads to an error without a text.      *)
THEOREM ErrorsExplained == Spec => ErrorsAreExplained
<1>1. IInv /\ [Next]_vars => [ErrorStep]_vars
  BY StepExplained DEF IInv
<1>2. Spec => [][ErrorStep]_vars
  BY <1>1, Invariance, PTL DEF Spec
<1> QED
  BY <1>2 DEF ErrorsAreExplained, ErrorStep
=============================================================================
