-------------------------- MODULE MCSessionStream ---------------------------
(***************************************************************************)
(* Instance for TLC of a session and of the stream of a turn.  They meet   *)
(* only in the events a turn puts into the queue of its stream, which may  *)
(* be any, so each is explored by itself: "part" says which one, and the   *)
(* other stays as it is.                                                   *)
(***************************************************************************)
EXTENDS MCChatSession, EventStream

VARIABLE part

partVars == <<part, vars, streamVars>>

InSession(A) == part = "session" /\ A /\ UNCHANGED <<part, streamVars>>
InStream(A) == part = "stream" /\ A /\ UNCHANGED <<part, vars>>

PartsInit == part \in {"session", "stream"} /\ Init /\ StreamInit

PartsNext == InSession(Next) \/ InStream(StreamNext)

\* The fairness of each part, of its steps while it is the one explored.  No behaviour has
\* steps of both, so fairness of a step of each is fairness of their disjunction.
PartsFairness ==
  /\ WF_partVars(InSession(Read) \/ InStream(RunnerEnds))
  /\ WF_partVars(InSession(TimePasses) \/ InStream(EventStreamStep))
  /\ WF_partVars(InStream(ReadStream))
  /\ \A t \in Turns : /\ WF_partVars(InSession(TurnStep(t)))
                      /\ WF_partVars(InSession(task[t] = "accepted" /\ BeginOrRefuse(t)))
  /\ \A x \in Backfills : WF_partVars(InSession(EndBackfill(x)))

PartsSpec == PartsInit /\ [][PartsNext]_partVars /\ PartsFairness
=============================================================================
