---------------------------- MODULE ChatComposer ----------------------------
(***************************************************************************)
(* The composer of the chat page (web/src/features/chat): the text and the *)
(* files being written, the queue of at most QueueLimit messages that wait *)
(* for the running turn, the requests in flight (a message sent by hand, a *)
(* message drained from the queue, the answer to an interrupt) and the     *)
(* interrupt cards.  The step groups a turn leaves are in ChatPage.        *)
(*                                                                         *)
(* One action is one event of the page with the render and the effects     *)
(* that follow it.  A request is a closure: it keeps the session it was    *)
(* started for while the user moves to other sessions, and what it writes  *)
(* when it is answered goes to whatever the page shows by then.  The       *)
(* backend is free: an event, an answer or a poll may say anything.        *)
(***************************************************************************)
EXTENDS Naturals, Sequences, FiniteSets, SequencesExt

CONSTANTS
  Sessions,     \* the sessions a page may show or create
  Existing,     \* those that exist when the page opens
  NoSession,    \* the route of a new session, and of a request whose session is being created
  Cards,        \* the interrupts one session may raise
  Files,        \* the files a user may attach
  QueueLimit,   \* the capacity of the queue (2 in the code)
  MaxItems,     \* bound: messages ever queued
  MaxSends      \* bound: requests ever started

ASSUME SessionsAssumption == NoSession \notin Sessions /\ Existing \subseteq Sessions
ASSUME LimitAssumption == QueueLimit \in Nat \ {0} /\ MaxItems \in Nat /\ MaxSends \in Nat

VARIABLES
  route,        \* sessionId of the URL
  fresh,        \* the sessions that do not exist yet
  cache,        \* the interrupts in the cached detail of each session; {} unless it is interrupted
  composer,     \* is there text in the composer?
  atts,         \* the attachments of the composer
  streaming,    \* isStreaming of the page
  pending,      \* pendingInterrupts: the cards shown
  queue,        \* queuedMessages, by number in the order they were queued
  paused,       \* queuePaused
  draining,     \* queueDrainRef
  deleting,     \* is a request to delete the messages of a session in flight?
  ops,          \* the requests in flight, by slot
  items, sends, \* counters for the bounds
  twin,         \* history: a request was started while another was in flight
  held          \* history: a drained message failed and the user has done nothing since

pageVars == <<route, fresh, cache, pending>>
inputVars == <<composer, atts>>
queueVars == <<queue, paused, draining, held>>
opVars == <<ops, streaming, sends, twin>>
vars == <<pageVars, inputVars, queueVars, opVars, deleting, items>>

-----------------------------------------------------------------------------
Slots == 1..2
Interrupt == Sessions \X Cards
NoInterrupt == <<NoSession, NoSession>>
Routes == Sessions \cup {NoSession}

\* A request: its session is NoSession while the session is being created, "item" is the
\* queued message it drains, "answer" the interrupt it resumes.
Op == [kind : {"send", "drain", "resume"}, session : Routes,
       item : 0..MaxItems, files : SUBSET Files, answer : Interrupt \cup {NoInterrupt}]
Free == [kind |-> "free"]

InFlight == {k \in Slots : ops[k] # Free}
Live == {k \in InFlight : ops[k].session # NoSession}

TypeOK ==
  /\ route \in Routes /\ fresh \subseteq Sessions
  /\ cache \in [Sessions -> SUBSET Interrupt] /\ pending \subseteq Interrupt
  /\ composer \in BOOLEAN /\ atts \subseteq Files
  /\ streaming \in BOOLEAN /\ paused \in BOOLEAN /\ draining \in BOOLEAN
  /\ queue \in Seq(1..MaxItems)
  /\ deleting \in BOOLEAN
  /\ ops \in [Slots -> Op \cup {Free}]
  /\ items \in 0..MaxItems /\ sends \in 0..MaxSends
  /\ twin \in BOOLEAN /\ held \in BOOLEAN

Init ==
  /\ fresh = Sessions \ Existing /\ route \in Existing \cup {NoSession}
  /\ cache = [s \in Sessions |-> {}] /\ pending = {}
  /\ composer = FALSE /\ atts = {}
  /\ streaming = FALSE
  /\ queue = <<>> /\ paused = FALSE /\ draining = FALSE
  /\ deleting = FALSE
  /\ ops = [k \in Slots |-> Free]
  /\ items = 0 /\ sends = 0
  /\ twin = FALSE /\ held = FALSE

-----------------------------------------------------------------------------
(* What the render and the effects after a step do.                        *)

\* The effect that copies the interrupts of the cached detail to the cards.
Synced(c, r) == IF r = NoSession THEN {} ELSE c[r]

\* The effect on a new sessionId: everything of the page but the text starts afresh.
ShowSession(r, c) ==
  /\ route' = r
  /\ pending' = Synced(c, r)
  /\ atts' = {}
  /\ queue' = <<>> /\ paused' = FALSE /\ draining' = FALSE /\ held' = FALSE

(* Mutation of PutBack: nothing is cut. *)
PutBackUncut(i) == <<i>> \o queue

(* Mutation of PutBack: it goes to the end. *)
PutBackLast(i) == SubSeq(Append(queue, i), 1, IF Len(queue) < QueueLimit THEN Len(queue) + 1 ELSE QueueLimit)

\* The queue after drained message i came back: it goes in front and what no longer fits is cut.
PutBack(i) == SubSeq(<<i>> \o queue, 1, IF Len(queue) < QueueLimit THEN Len(queue) + 1 ELSE QueueLimit)

-----------------------------------------------------------------------------
(* Writing and queueing.                                                   *)

TypeText ==
  /\ ~composer
  /\ composer' = TRUE
  /\ UNCHANGED <<pageVars, atts, queueVars, opVars, deleting, items>>

\* appendComposerFiles leaves out a file that is attached already.
AppendComposerFiles ==
  /\ \E f \in Files \ atts : atts' = atts \cup {f}
  /\ UNCHANGED <<pageVars, composer, queueVars, opVars, deleting, items>>

RemoveComposerAttachment ==
  /\ \E f \in atts : atts' = atts \ {f}
  /\ UNCHANGED <<pageVars, composer, queueVars, opVars, deleting, items>>

\* The conditions of the buttons under the text, and of the interrupt cards.
QueueButtonDisabled == ~composer \/ atts # {} \/ ~streaming \/ Len(queue) >= QueueLimit
SendButtonDisabled == (~composer /\ atts = {}) \/ streaming \/ pending # {}
CardsDisabled == streaming

HandleQueueMessage ==
  /\ items < MaxItems
  /\ ~QueueButtonDisabled
  /\ pending = {}
  /\ items' = items + 1
  /\ queue' = Append(queue, items + 1)
  /\ paused' = FALSE /\ held' = FALSE
  /\ composer' = FALSE
  /\ UNCHANGED <<pageVars, atts, draining, opVars, deleting>>

HandleRemoveQueuedMessage ==
  /\ \E k \in DOMAIN queue : queue' = RemoveAt(queue, k)
  /\ paused' = FALSE /\ held' = FALSE
  /\ UNCHANGED <<pageVars, inputVars, draining, opVars, deleting, items>>

-----------------------------------------------------------------------------
(* Sending.  Everything up to the request is one step when the page has a  *)
(* session; without one the session is created first and the page stays    *)
(* usable until it is.                                                     *)

\* A request with operation o takes a free slot.
Start(o) ==
  /\ sends < MaxSends
  /\ sends' = sends + 1
  /\ \E k \in Slots : /\ ops[k] = Free
                      /\ \A j \in Slots : ops[j] = Free => k <= j
                      /\ ops' = [ops EXCEPT ![k] = o]
  /\ twin' = (twin \/ InFlight # {})

NewOp(kind, s) == [kind |-> kind, session |-> s, item |-> 0, files |-> {}, answer |-> NoInterrupt]

\* sendMessageContent of what is in the composer.  With a session the cards are copied once
\* more from the cache, for isStreaming has changed.
HandleSendMessage ==
  /\ ~SendButtonDisabled
  /\ Start([NewOp("send", route) EXCEPT !.files = atts])
  /\ paused' = FALSE /\ held' = FALSE
  /\ IF route = NoSession
       THEN UNCHANGED <<streaming, composer, atts, pending>>
       ELSE /\ streaming' = TRUE
            /\ composer' = FALSE /\ atts' = {}
            /\ pending' = Synced(cache, route)
  /\ UNCHANGED <<route, fresh, cache, queue, draining, deleting, items>>

\* The effect that drains the queue, and the send it starts.
DrainQueuedMessage ==
  /\ ~streaming /\ ~paused /\ pending = {} /\ queue # <<>> /\ ~draining
  /\ Start([NewOp("drain", route) EXCEPT !.item = Head(queue)])
  /\ queue' = Tail(queue)
  /\ draining' = TRUE
  /\ streaming' = (route # NoSession)
  /\ pending' = Synced(cache, route)
  /\ UNCHANGED <<route, fresh, cache, inputVars, paused, held, deleting, items>>

\* createSession answers: the page goes to the new session and the request starts.
CreateSession(k) ==
  /\ ops[k] # Free /\ ops[k].session = NoSession
  /\ \E s \in fresh :
       /\ fresh' = fresh \ {s}
       /\ ops' = [ops EXCEPT ![k].session = s]
       /\ cache' = [cache EXCEPT ![s] = {}]
       /\ ShowSession(s, cache')
  /\ streaming' = TRUE
  /\ composer' = (composer /\ ops[k].kind # "send")
  /\ UNCHANGED <<sends, twin, deleting, items>>

-----------------------------------------------------------------------------
(* The events of a stream.  They act on the page as it is now; the cached  *)
(* detail is that of the request's own session.                            *)

\* The closing event of request k leaves interrupts i to answer.
Tell(k, i) ==
  /\ ops[k] # Free /\ ops[k].session # NoSession
  /\ pending' = i
  /\ cache' = [cache EXCEPT ![ops[k].session] = i]
  /\ UNCHANGED <<route, fresh, inputVars, queue, draining, held, opVars,
                 deleting, items>>

OnInterrupted(k) ==
  /\ ops[k] # Free
  /\ \E i \in SUBSET ({ops[k].session} \X Cards) : i # {} /\ Tell(k, i)
  /\ paused' = TRUE

OnFinal(k) == Tell(k, {}) /\ paused' = FALSE

OnError(k) == Tell(k, {}) /\ UNCHANGED paused

\* A resumed turn that fails lets the queue go on.
OnResumeError(k) == Tell(k, {}) /\ paused' = FALSE

\* The closing events of a message that was sent, and of an answer.
SendEvent(k) ==
  /\ ops[k].kind \in {"send", "drain"}
  /\ OnInterrupted(k) \/ OnFinal(k) \/ OnError(k)

ResumeEvent(k) ==
  /\ ops[k].kind = "resume"
  /\ OnInterrupted(k) \/ OnFinal(k) \/ OnResumeError(k)

(* Mutation of Finish: only the page that shows the session stops streaming. *)
FinishOwnPage(k, c, cards) ==
  /\ ops' = [ops EXCEPT ![k] = Free]
  /\ streaming' = (streaming /\ route # ops[k].session)
  /\ pending' = IF streaming THEN Synced(c, route) ELSE cards
  /\ draining' = (draining /\ ops[k].kind # "drain")
  /\ UNCHANGED <<route, fresh, sends, twin, deleting, items>>

(* Mutation of Finish: the cards stay as the request left them. *)
FinishKeepsCards(k, c, cards) ==
  /\ ops' = [ops EXCEPT ![k] = Free]
  /\ streaming' = FALSE
  /\ pending' = cards
  /\ draining' = (draining /\ ops[k].kind # "drain")
  /\ UNCHANGED <<route, fresh, sends, twin, deleting, items>>

(* Mutation of Finish: a drain is not marked as done. *)
FinishKeepsDraining(k, c, cards) ==
  /\ ops' = [ops EXCEPT ![k] = Free]
  /\ streaming' = FALSE
  /\ pending' = IF streaming THEN Synced(c, route) ELSE cards
  /\ UNCHANGED <<route, fresh, draining, sends, twin, deleting, items>>

\* The finally block of a request: the page is no longer streaming, and the cards are copied
\* from the cache if that is a change; otherwise they stay as the request left them.
Finish(k, c, cards) ==
  /\ ops' = [ops EXCEPT ![k] = Free]
  /\ streaming' = FALSE
  /\ pending' = IF streaming \/ (route # NoSession /\ c[route] # cache[route])
                  THEN Synced(c, route) ELSE cards
  /\ draining' = (draining /\ ops[k].kind # "drain")
  /\ UNCHANGED <<route, fresh, sends, twin, deleting, items>>

\* The stream ends, with or without a closing event.
StreamEnds(k) ==
  /\ ops[k] # Free /\ ops[k].session # NoSession
  /\ Finish(k, cache, pending)
  /\ UNCHANGED <<cache, inputVars, queue, paused, held>>

(* Mutation of SendFails: the queue is not paused. *)
SendFailsGoesOn(k) ==
  /\ ops[k] # Free /\ ops[k].kind # "resume"
  /\ Finish(k, cache, pending)
  /\ IF ops[k].kind = "send"
       THEN /\ composer' = TRUE /\ atts' = ops[k].files
            /\ UNCHANGED <<queue, paused, held>>
       ELSE /\ queue' = PutBack(ops[k].item) /\ held' = TRUE
            /\ UNCHANGED <<inputVars, paused>>
  /\ UNCHANGED cache

\* The request fails, at any time, or the session of it cannot be created: a message sent
\* by hand returns to the composer and a drained one to the queue, which is paused.
SendFails(k) ==
  /\ ops[k] # Free /\ ops[k].kind # "resume"
  /\ Finish(k, cache, pending)
  /\ IF ops[k].kind = "send"
       THEN /\ composer' = TRUE /\ atts' = ops[k].files
            /\ UNCHANGED <<queue, paused, held>>
       ELSE /\ queue' = PutBack(ops[k].item) /\ paused' = TRUE /\ held' = TRUE
            /\ UNCHANGED inputVars
  /\ UNCHANGED cache

\* An answer that fails puts its card back.
ResumeFails(k) ==
  /\ ops[k] # Free /\ ops[k].kind = "resume"
  /\ cache' = [cache EXCEPT ![ops[k].session] = @ \cup {ops[k].answer}]
  /\ Finish(k, cache', pending \cup {ops[k].answer})
  /\ UNCHANGED <<inputVars, queue, paused, held>>

-----------------------------------------------------------------------------
(* Interrupts, polls, deletion and navigation.                             *)

\* The user answers card i: it goes away and the answer goes to the session of the page.
HandleResolveInterrupt ==
  /\ route # NoSession /\ ~CardsDisabled
  /\ \E i \in pending :
       /\ Start([NewOp("resume", route) EXCEPT !.answer = i])
       /\ cache' = [cache EXCEPT ![route] = pending \ {i}]
       /\ pending' = pending \ {i}
  /\ streaming' = TRUE
  /\ paused' = TRUE /\ held' = FALSE
  /\ UNCHANGED <<route, fresh, inputVars, queue, draining, deleting, items>>

\* The detail query of the session shown answers.  Equal data is no change for the effect.
PollDetail ==
  /\ route # NoSession
  /\ \E i \in SUBSET ({route} \X Cards) :
       /\ i # cache[route]
       /\ cache' = [cache EXCEPT ![route] = i]
       /\ pending' = i
  /\ UNCHANGED <<route, fresh, inputVars, queueVars, opVars, deleting, items>>

HandleDeleteMessages ==
  /\ route # NoSession /\ ~streaming /\ ~deleting
  /\ deleting' = TRUE
  /\ UNCHANGED <<pageVars, inputVars, queueVars, opVars, items>>

\* The answer clears the cards of the page, whichever session it shows by now; a failure none.
DeleteMessagesDone ==
  /\ deleting
  /\ deleting' = FALSE
  /\ pending' \in {{}, pending}
  /\ UNCHANGED <<route, fresh, cache, inputVars, queueVars, opVars, items>>

\* Another session, or the page of a new one.
HandleSelectSession ==
  /\ \E r \in Routes \ (fresh \cup {route}) : ShowSession(r, cache)
  /\ UNCHANGED <<fresh, cache, composer, opVars, deleting, items>>

-----------------------------------------------------------------------------
Next ==
  \/ TypeText \/ AppendComposerFiles \/ RemoveComposerAttachment
  \/ HandleQueueMessage \/ HandleRemoveQueuedMessage
  \/ HandleSendMessage \/ DrainQueuedMessage \/ HandleResolveInterrupt
  \/ \E k \in Slots : \/ CreateSession(k) \/ SendEvent(k) \/ ResumeEvent(k)
                      \/ StreamEnds(k) \/ SendFails(k) \/ ResumeFails(k)
  \/ PollDetail \/ HandleDeleteMessages \/ DeleteMessagesDone
  \/ HandleSelectSession

Fairness ==
  /\ WF_vars(DrainQueuedMessage)
  /\ \A k \in Slots : WF_vars(StreamEnds(k) \/ SendFails(k) \/ ResumeFails(k))

Spec == Init /\ [][Next]_vars /\ Fairness

-----------------------------------------------------------------------------
(* Properties.                                                             *)

\* The page streams only while a request is being answered, so it is never left locked; and
\* unless a request was started while another was still creating its session, there is one
\* request at a time and the page streams as long as it is answered (isStreaming is the only
\* lock between sending, draining and answering).
StreamingIsExclusive ==
  /\ streaming => Live # {}
  /\ ~twin => /\ Cardinality(InFlight) <= 1
              /\ streaming <=> (Live # {})

\* The queue never holds more than it may, also when a failed message is put back after others
\* were queued; a message being drained is not in it, so it cannot be sent twice at once; and it
\* keeps the order in which its messages were queued, as long as no two requests overlapped.
QueueInOrder ==
  /\ Len(queue) <= QueueLimit
  /\ \A k \in InFlight : ops[k].kind = "drain" => \A n \in DOMAIN queue : queue[n] # ops[k].item
  /\ ~twin => \A m, n \in DOMAIN queue : m < n => queue[m] < queue[n]

\* An answer is posted to the session that asked: a card of another session, which the stream
\* of a session left behind puts on the page, is gone before it can be answered.
AnswersGoHome ==
  ~twin => \A k \in InFlight : ops[k].kind = "resume" => ops[k].answer[1] = ops[k].session

\* After a drained message failed nothing is sent from the queue until the user has done
\* something: no automatic retry of a message the backend may have taken.
HeldMessageWaits == [][DrainQueuedMessage => (~held \/ twin)]_vars

\* The queue does not wait forever: it empties, or it is paused, or an interrupt is open, or
\* (for the bound) no request is left to start.
QueueDrains ==
  queue # <<>> ~> (queue = <<>> \/ paused \/ pending # {} \/ sends = MaxSends)
=============================================================================
