---------------------------- MODULE EventStream -----------------------------
(***************************************************************************)
(* The events of one turn on their way to the page: the turn puts them     *)
(* into a queue, the response of the stream routes                         *)
(* (core/servers/api_routes/sessions.py) takes them out and writes them as *)
(* text, the network cuts the text anywhere and may lose the rest of it,   *)
(* and the page (shared/stream/sse.ts) puts the events together again.     *)
(*                                                                         *)
(* The text of an event is four pieces: the line with its name, the line   *)
(* with its data without the end of it, and two ends of lines.  A name or  *)
(* data cut in two read like one that is missing.  The data are what the   *)
(* schemas of the page ask for, and no line is longer for a carriage       *)
(* return, which the server does not write.                                *)
(***************************************************************************)
EXTENDS Naturals, Sequences, FiniteSets, SequencesExt

CONSTANT MaxEvents      \* bound: the events of the turn

ASSUME EventStreamAssumption == MaxEvents \in Nat

VARIABLES
  runner,       \* its task: "none", "running", "succeeded" or "failed"
  eventQueue,   \* the queue between the runner and the response
  generator,    \* where event_stream is: "none", "loop", "waiting", "raised" or "closed"
  wire,         \* the text written and not read
  link,         \* the connection: "up", "cut" (it seems to end) or "broken"
  client,       \* streamSseRequest: "fetching", "reading", "resolved" or "rejected"
  buffer,       \* the text read that is no event yet
  emitted,      \* history: the events put into the queue and those of the response
  arrived       \* history: the events onEvent was called with

responseVars == <<runner, eventQueue, generator, emitted>>
clientVars == <<client, buffer, arrived>>
streamVars == <<responseVars, clientVars, wire, link>>

-----------------------------------------------------------------------------
Step == "assistant.step"        \* stands for every event with a schema but the next two
Error == "session.error"
Done == "done"
Resumed == "session.resumed"    \* which has no schema

Names == {Step, Error, Done, Resumed}
EventSchemaMap == {Step, Error, Done}

Event == Names \X (1..MaxEvents + 2)
Token == {"event", "data", "nl"} \X Event

\* formatSse: the text of an event.
FormatSse(e) == <<<<"event", e>>, <<"data", e>>, <<"nl", e>>, <<"nl", e>>>>

StreamTypeOK ==
  /\ runner \in {"none", "running", "succeeded", "failed"}
  /\ eventQueue \in Seq(Event) /\ emitted \in Seq(Event) /\ arrived \in Seq(Event)
  /\ generator \in {"none", "loop", "waiting", "raised", "closed"}
  /\ wire \in Seq(Token) /\ buffer \in Seq(Token)
  /\ link \in {"up", "cut", "broken"}
  /\ client \in {"fetching", "reading", "resolved", "rejected"}

StreamInit ==
  /\ runner = "none" /\ eventQueue = <<>> /\ generator = "none" /\ emitted = <<>>
  /\ client = "fetching" /\ buffer = <<>> /\ arrived = <<>>
  /\ wire = <<>> /\ link = "up"

-----------------------------------------------------------------------------
(* The request and the turn.                                               *)

\* The route starts the runner and answers with the stream.
BuildStreamingResponse ==
  /\ client = "fetching"
  /\ runner' = "running" /\ generator' = "loop" /\ client' = "reading"
  /\ UNCHANGED <<eventQueue, emitted, buffer, arrived, wire, link>>

\* The route refuses, or the connection is lost before the page has the answer.
RequestFails ==
  /\ client = "fetching"
  /\ client' = "rejected" /\ link' = "broken"
  /\ runner' \in {"none", "running"} /\ generator' = "closed"
  /\ UNCHANGED <<eventQueue, emitted, buffer, arrived, wire>>

\* The next event of this name.
NewEvent(name) == <<name, Len(emitted) + 1>>

\* The runner puts an event into the queue; of its own failure, too.
PutEvent ==
  /\ runner = "running" /\ Len(emitted) < MaxEvents
  /\ \E name \in Names \ {Done} : /\ eventQueue' = Append(eventQueue, NewEvent(name))
                                  /\ emitted' = Append(emitted, NewEvent(name))
  /\ UNCHANGED <<runner, generator, clientVars, wire, link>>

\* The task of the runner is done, with its result or with its exception.
RunnerEnds ==
  /\ runner = "running"
  /\ runner' \in {"succeeded", "failed"}
  /\ UNCHANGED <<eventQueue, generator, emitted, clientVars, wire, link>>

-----------------------------------------------------------------------------
(* The response.                                                           *)

Yield(e) == wire' = wire \o FormatSse(e)

\* The response adds an event of its own.
YieldOwn(name) == Yield(NewEvent(name)) /\ emitted' = Append(emitted, NewEvent(name))

\* The condition to leave the loop.
Exhausted == runner # "running" /\ eventQueue = <<>>

\* One round of the loop: wait for an event, or look at how the task ended.
Round ==
  /\ generator = "loop"
  /\ \/ ~Exhausted /\ generator' = "waiting" /\ UNCHANGED <<emitted, wire>>
     \/ Exhausted /\ runner = "succeeded" /\ generator' = "closed" /\ YieldOwn(Done)
     \/ Exhausted /\ runner = "failed" /\ generator' = "raised" /\ YieldOwn(Error)
  /\ UNCHANGED <<runner, eventQueue, clientVars, link>>

GetEvent ==
  /\ generator = "waiting" /\ eventQueue # <<>>
  /\ Yield(Head(eventQueue))
  /\ eventQueue' = Tail(eventQueue) /\ generator' = "loop"
  /\ UNCHANGED <<runner, emitted, clientVars, link>>

(* Mutation of GetTimesOut: the response waits for the next event however long that takes. *)
NeverTimesOut == FALSE /\ UNCHANGED streamVars

\* No event for half a second.
GetTimesOut ==
  /\ generator = "waiting" /\ eventQueue = <<>>
  /\ generator' = "loop"
  /\ UNCHANGED <<runner, eventQueue, emitted, clientVars, wire, link>>

\* The finally block, after the exception was reported.
YieldDone ==
  /\ generator = "raised"
  /\ generator' = "closed" /\ YieldOwn(Done)
  /\ UNCHANGED <<runner, eventQueue, clientVars, link>>

EventStreamStep == Round \/ GetEvent \/ GetTimesOut \/ YieldDone

\* The connection is lost: some of the text still arrives, the response is given up, and the
\* turn goes on.
LoseConnection ==
  /\ client = "reading" /\ link = "up"
  /\ link' \in {"cut", "broken"}
  /\ \E n \in 0..Len(wire) : wire' = SubSeq(wire, 1, n)
  /\ generator' = "closed"
  /\ UNCHANGED <<runner, eventQueue, emitted, clientVars>>

-----------------------------------------------------------------------------
(* The page.                                                               *)

\* Where the empty lines of a text end.
EmptyLines(text) == {k \in 2..Len(text) : text[k][1] = "nl" /\ text[k - 1][1] = "nl"}

\* The i-th smallest number of a set.
Nth(numbers, i) == CHOOSE k \in numbers : Cardinality({j \in numbers : j <= k}) = i

\* extractSseFrames: what is between the empty lines.
Frames(text) ==
  LET ends == EmptyLines(text)
  IN [i \in 1..Cardinality(ends) |->
        SubSeq(text, IF i = 1 THEN 1 ELSE Nth(ends, i - 1) + 1, Nth(ends, i) - 2)]

(* Mutation of Remainder: what is no event yet is left out. *)
NoRemainder(text) == <<>>

\* ... and what comes after the last one.
Remainder(text) ==
  LET ends == EmptyLines(text)
  IN SubSeq(text, IF ends = {} THEN 1 ELSE Max(ends) + 1, Len(text))

\* The event line that counts, and the data lines, of a frame.
NameOf(frame) ==
  LET lines == {k \in DOMAIN frame : frame[k][1] = "event"}
  IN IF lines = {} THEN "none" ELSE frame[Max(lines)][2][1]
DataLines(frame) == {k \in DOMAIN frame : frame[k][1] = "data"}

\* parseSseFrame: a frame without a name, or whose name has no schema, is nothing; one without
\* its data throws.
Throws(frame) == NameOf(frame) \in EventSchemaMap /\ Cardinality(DataLines(frame)) # 1
ParseSseFrame(frame) ==
  LET line == CHOOSE k \in DataLines(frame) : TRUE
  IN IF NameOf(frame) \in EventSchemaMap THEN <<<<NameOf(frame), frame[line][2][2]>>>> ELSE <<>>

\* onEvent is called with the events of the frames, one by one.
OnEvents(heard, frames) ==
  FoldLeft(LAMBDA events, frame : events \o ParseSseFrame(frame), heard, frames)

\* A frame that throws ends the request.
HandleFrames(frames, next) ==
  LET bad == {i \in DOMAIN frames : Throws(frames[i])}
      good == SubSeq(frames, 1, IF bad = {} THEN Len(frames) ELSE Min(bad) - 1)
  IN /\ arrived' = OnEvents(arrived, good)
     /\ client' = IF bad = {} THEN next ELSE "rejected"

\* A piece of the text arrives.
ReadChunk ==
  /\ client = "reading" /\ wire # <<>>
  /\ \E n \in 1..Len(wire) :
       LET text == buffer \o SubSeq(wire, 1, n)
       IN /\ HandleFrames(Frames(text), "reading")
          /\ buffer' = Remainder(text)
          /\ wire' = SubSeq(wire, n + 1, Len(wire))
  /\ UNCHANGED <<responseVars, link>>

\* The text has ended, or seems to; what is left of it may be an event.
ReadDone ==
  /\ client = "reading" /\ wire = <<>>
  /\ link = "cut" \/ (link = "up" /\ generator = "closed")
  /\ HandleFrames(IF buffer = <<>> THEN <<>> ELSE <<buffer>>, "resolved")
  /\ UNCHANGED <<responseVars, buffer, wire, link>>

\* The reader reports that the connection is lost, with or without the text before that.
ReadFails ==
  /\ client = "reading" /\ link = "broken"
  /\ client' = "rejected"
  /\ UNCHANGED <<responseVars, buffer, arrived, wire, link>>

ReadStream == ReadChunk \/ ReadDone \/ ReadFails

-----------------------------------------------------------------------------
StreamNext ==
  \/ BuildStreamingResponse \/ RequestFails
  \/ PutEvent \/ RunnerEnds
  \/ EventStreamStep \/ LoseConnection
  \/ ReadStream

StreamFairness ==
  WF_streamVars(RunnerEnds) /\ WF_streamVars(EventStreamStep) /\ WF_streamVars(ReadStream)

StreamSpec == StreamInit /\ [][StreamNext]_streamVars /\ StreamFairness

-----------------------------------------------------------------------------
\* The events that have a schema.
Known(events) ==
  FoldLeft(LAMBDA known, e : IF e[1] \in EventSchemaMap THEN Append(known, e) ELSE known, <<>>, events)

Channel == INSTANCE EventChannel WITH
  Final <- {Done} \X (1..MaxEvents + 2),
  sent <- Known(emitted), received <- arrived,
  end <- IF link # "up" THEN "broken"
         ELSE IF client \in {"fetching", "reading"} THEN "open"
         ELSE IF client = "resolved" THEN "closed" ELSE "rejected"

\* However the text is cut, the page gets the events it has schemas for in order and each once,
\* unless the connection is lost it gets all of them and "done" last, and it rejects nothing.
EventsArriveInOrder == Channel!Spec

\* A stream that is read ends: the connection is lost, or the request resolves after "done" was
\* the last event and a turn that failed was reported.
StreamCompletes ==
  (client = "reading") ~>
    \/ link # "up"
    \/ /\ client = "resolved" /\ arrived # <<>> /\ Last(arrived)[1] = Done
       /\ runner = "failed" => \E k \in DOMAIN arrived : arrived[k][1] = Error
=============================================================================
