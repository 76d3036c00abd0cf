---------------------------- MODULE ChatTimeline ----------------------------
(***************************************************************************)
(* The messages of the session shown (features/chat): the history of the   *)
(* server, the cached list of it, to which a turn adds before the server   *)
(* is asked again, the cards the list is shown as, and the removal of      *)
(* messages, which are named by their place in the list.                   *)
(*                                                                         *)
(* A message is its identity and its kind.  ChatPage has what happens when *)
(* the page goes to another session.                                       *)
(***************************************************************************)
EXTENDS Naturals, Sequences, FiniteSets, SequencesExt

CONSTANT MaxMessages   \* bound: messages ever written

ASSUME MaxMessagesAssumption == MaxMessages \in Nat

VARIABLES
  history,          \* the messages of the server
  sessionMessages,  \* the cached list
  loading,         \* is the list being asked for?
  fetched,          \* what the server answered: <<>> or <<list>>
  reading,          \* isStreaming
  asked_,           \* the user message the server has not taken yet, or 0
  working,          \* is the server at the turn?
  answer,           \* the final event under way: <<>> or <<message>>
  removal,         \* the deletion in flight, or <<>>
  lastId,           \* the identities given
  awaited           \* history: the lists to arrive until one is later than the page's last turn or deletion

listVars == <<sessionMessages, loading, fetched, awaited>>
turnVars == <<reading, asked_, working, answer>>
timelineVars == <<history, listVars, turnVars, removal, lastId>>

-----------------------------------------------------------------------------
ToolKinds == {"search", "shell"}
Kinds == {"user", "answer", "blank", "todo"} \cup ToolKinds
Message == [id : 1..MaxMessages, kind : Kinds]

\* A list may be longer than the history: what a stream ends with may be in it already.
Places == Nat \ {0}

TimelineTypeOK ==
  /\ history \in Seq(Message) /\ sessionMessages \in Seq(Message)
  /\ loading \in BOOLEAN /\ fetched \in Seq(Seq(Message)) /\ awaited \in 0..2
  /\ reading \in BOOLEAN /\ working \in BOOLEAN
  /\ asked_ \in 0..MaxMessages /\ answer \in Seq(Message)
  /\ lastId \in 0..MaxMessages
  /\ removal \in Seq([at : SUBSET Places, hasty : BOOLEAN, meant : SUBSET (1..MaxMessages)])

TimelineInit ==
  /\ history = <<>> /\ sessionMessages = <<>>
  /\ loading = FALSE /\ fetched = <<>> /\ awaited = 0
  /\ reading = FALSE /\ asked_ = 0 /\ working = FALSE /\ answer = <<>>
  /\ removal = <<>> /\ lastId = 0

-----------------------------------------------------------------------------
(* The cards of list l.  A message is named by its place (historyIndex).   *)

IndexedMessages(l) == [i \in DOMAIN l |-> i]

NoTurn == [user |-> 0, tools |-> <<>>, assistants |-> <<>>]

\* Message i begins a turn, or goes to the last one, which may have no user.
AddToTurns(l, turns, i) ==
  LET last == IF turns = <<>> THEN NoTurn ELSE Last(turns)
      others == IF turns = <<>> THEN <<>> ELSE Front(turns)
  IN CASE l[i].kind = "user" -> Append(turns, [NoTurn EXCEPT !.user = i])
       [] l[i].kind = "todo" -> turns
       [] l[i].kind \in ToolKinds -> Append(others, [last EXCEPT !.tools = Append(@, i)])
       [] OTHER -> Append(others, [last EXCEPT !.assistants = Append(@, i)])

BuildTurns(l) ==
  FoldLeft(LAMBDA turns, i : AddToTurns(l, turns, i), <<>>, IndexedMessages(l))

\* Consecutive messages of one tool are a batch.
AddToBatches(l, batches, i) ==
  IF batches # <<>> /\ l[Last(Last(batches))].kind = l[i].kind
  THEN Append(Front(batches), Append(Last(batches), i))
  ELSE Append(batches, <<i>>)

BatchToolMessages(l, tools) ==
  FoldLeft(LAMBDA batches, i : AddToBatches(l, batches, i), <<>>, tools)

\* groupConsecutiveAssistantMessages: a blank message is not shown.  (No tool message is among
\* those of the assistant.)
AssistantItems(l, assistants) == {i \in ToSet(assistants) : l[i].kind # "blank"}

\* The delete button of the card of a batch.
BatchButton(b) == ToSet(b)

\* The card of a step group spreads the batches over its steps, in order, and its last step
\* takes the rest; each batch has its button there.
StepCardButtons(l, tools) == {BatchButton(b) : b \in ToSet(BatchToolMessages(l, tools))}

\* Without one there is a card of all tool messages, with a button of its own.
ToolGroupButtons(l, tools) ==
  IF tools = <<>> THEN {}
  ELSE {ToSet(tools)} \cup {BatchButton(b) : b \in ToSet(BatchToolMessages(l, tools))}

\* The delete button of a single message.
BubbleButton(i) == {i}

\* What each button of the timeline deletes, when the turns with a step group to show are
\* those in cards.
DeleteButtons(l, cards) ==
  LET turns == BuildTurns(l)
      Of(t) == {BubbleButton(i) : i \in {turns[t].user} \ {0}}
                 \cup {BubbleButton(i) : i \in AssistantItems(l, turns[t].assistants)}
                 \cup IF t \in cards THEN StepCardButtons(l, turns[t].tools)
                      ELSE ToolGroupButtons(l, turns[t].tools)
  IN UNION {Of(t) : t \in DOMAIN turns}

\* Any turns may have one, for the groups are aligned to the turns by their number only.
Shown(l) == {DeleteButtons(l, cards) : cards \in SUBSET DOMAIN BuildTurns(l)}

-----------------------------------------------------------------------------
(* The cached list.                                                        *)

(* Mutation of Reread: a request under way is kept. *)
RereadOnce ==
  /\ loading' = TRUE /\ awaited' = 1
  /\ UNCHANGED fetched

\* invalidateQueries: the list is asked for anew, and a request under way is dropped.
Reread ==
  /\ loading' = TRUE /\ fetched' = <<>> /\ awaited' = 1

PollMessages ==
  /\ ~loading
  /\ loading' = TRUE
  /\ UNCHANGED <<history, sessionMessages, fetched, awaited, turnVars, removal, lastId>>

GetSessionMessages ==
  /\ loading /\ fetched = <<>>
  /\ fetched' = <<history>>
  /\ UNCHANGED <<history, sessionMessages, loading, awaited, turnVars, removal, lastId>>

MessagesArrive ==
  /\ fetched # <<>>
  /\ sessionMessages' = fetched[1]
  /\ loading' = FALSE /\ fetched' = <<>>
  /\ awaited' = IF awaited = 0 THEN 0 ELSE awaited - 1
  /\ UNCHANGED <<history, turnVars, removal, lastId>>

FetchFails ==
  /\ loading
  /\ loading' = FALSE /\ fetched' = <<>>
  /\ UNCHANGED <<history, sessionMessages, awaited, turnVars, removal, lastId>>

-----------------------------------------------------------------------------
(* A turn.                                                                 *)

\* A new message of kind k.
Written(k) == [id |-> lastId + 1, kind |-> k]

\* The user's message goes to the list at once.  (Bound: the server is at no other turn.)
SendMessage ==
  /\ ~reading /\ asked_ = 0 /\ ~working /\ lastId < MaxMessages
  /\ sessionMessages' = Append(sessionMessages, Written("user"))
  /\ asked_' = lastId + 1 /\ lastId' = lastId + 1
  /\ reading' = TRUE
  /\ UNCHANGED <<history, loading, fetched, awaited, working, answer,
                 removal>>

\* The answer to an interrupt: the page reads the rest of a turn.  (ChatComposer has the
\* interrupts; here there may be one whenever the server has a message.)
AnswerInterrupt ==
  /\ ~reading /\ asked_ = 0 /\ ~working /\ history # <<>>
  /\ reading' = TRUE /\ working' = TRUE
  /\ UNCHANGED <<history, listVars, asked_, answer, removal, lastId>>

\* The server takes the message, works, and answers, asks back or fails.
TurnAccepted ==
  /\ asked_ # 0
  /\ history' = Append(history, [id |-> asked_, kind |-> "user"])
  /\ asked_' = 0 /\ working' = TRUE
  /\ UNCHANGED <<listVars, reading, answer, removal, lastId>>

StepWritten ==
  /\ working /\ lastId < MaxMessages
  /\ \E k \in {"blank", "todo"} \cup ToolKinds : history' = Append(history, Written(k))
  /\ lastId' = lastId + 1
  /\ UNCHANGED <<listVars, turnVars, removal>>

TurnAnswered ==
  /\ working /\ lastId < MaxMessages
  /\ history' = Append(history, Written("answer"))
  /\ answer' = IF reading THEN <<Written("answer")>> ELSE <<>>
  /\ lastId' = lastId + 1
  /\ working' = FALSE
  /\ UNCHANGED <<listVars, reading, asked_, removal>>

TurnStops ==
  /\ working /\ working' = FALSE
  /\ UNCHANGED <<history, listVars, reading, asked_, answer, removal, lastId>>

\* assistant.final: the answer goes to the list, without the steps before it.
OnAssistantFinal ==
  /\ answer # <<>>
  /\ sessionMessages' = Append(sessionMessages, answer[1])
  /\ answer' = <<>>
  /\ UNCHANGED <<history, loading, fetched, awaited, reading, asked_, working, removal, lastId>>

\* The stream ends, and the list is asked for.
StreamDone ==
  /\ reading /\ asked_ = 0 /\ ~working /\ answer = <<>>
  /\ reading' = FALSE
  /\ Reread
  /\ UNCHANGED <<history, sessionMessages, asked_, working, answer, removal, lastId>>

\* The stream breaks, whether or not the server goes on.
StreamBreaks ==
  /\ reading /\ reading' = FALSE
  /\ answer' = <<>>
  /\ asked_' \in {asked_, 0} /\ working' \in {working, FALSE}
  /\ Reread
  /\ UNCHANGED <<history, sessionMessages, removal, lastId>>

-----------------------------------------------------------------------------
(* Deleting.                                                               *)

\* A deletion the server has made: there is nothing left to delete.
Served == <<[at |-> {}, hasty |-> TRUE, meant |-> {}]>>

\* The delete buttons are off while a turn is read or a deletion is in flight.
DeleteDisabled == reading \/ removal # <<>>

ConfirmDelete ==
  /\ ~DeleteDisabled
  /\ \E b \in UNION Shown(sessionMessages) :
       removal' = <<[at |-> b, hasty |-> awaited > 0,
                      meant |-> IF awaited > 0 THEN {} ELSE {sessionMessages[i].id : i \in b}]>>
  /\ UNCHANGED <<history, listVars, turnVars, lastId>>

\* A list without the messages at some places.
Without(l, at) ==
  FoldLeft(LAMBDA kept, i : IF i \in at THEN kept ELSE Append(kept, l[i]), <<>>, IndexedMessages(l))

\* The server deletes what is at the places named, between turns.
DeleteSessionMessages ==
  /\ removal # <<>> /\ removal # Served
  /\ ~working /\ removal[1].at \subseteq DOMAIN history
  /\ history' = Without(history, removal[1].at)
  /\ removal' = Served
  /\ UNCHANGED <<listVars, turnVars, lastId>>

\* The list is asked for anew.
DeletionAnswered ==
  /\ removal = Served
  /\ removal' = <<>>
  /\ Reread
  /\ UNCHANGED <<history, sessionMessages, turnVars, lastId>>

\* The server refuses, or the request or its answer is lost.
DeletionFails ==
  /\ removal # <<>>
  /\ removal' = <<>>
  /\ awaited' = IF removal # Served THEN awaited ELSE IF fetched = <<>> THEN 1 ELSE 2
  /\ UNCHANGED <<history, sessionMessages, loading, fetched, turnVars, lastId>>

-----------------------------------------------------------------------------
TimelineNext ==
  \/ PollMessages \/ GetSessionMessages \/ MessagesArrive \/ FetchFails
  \/ SendMessage \/ AnswerInterrupt \/ TurnAccepted \/ StepWritten \/ TurnAnswered \/ TurnStops
  \/ OnAssistantFinal \/ StreamDone \/ StreamBreaks
  \/ ConfirmDelete \/ DeleteSessionMessages \/ DeletionAnswered \/ DeletionFails

TimelineSpec == TimelineInit /\ [][TimelineNext]_timelineVars

-----------------------------------------------------------------------------
\* Every message that has a text is on a card that can delete it; and a deletion is to remove
\* the messages that were on the card, though it names them by their place only and the
\* history grows meanwhile: unless it was asked for between the end of a turn, or of a
\* deletion, and the arrival of the list.
DeletesWhatWasShown ==
  /\ \A i \in DOMAIN sessionMessages :
       sessionMessages[i].kind \notin {"blank", "todo"} =>
         \A buttons \in Shown(sessionMessages) : i \in UNION buttons
  /\ \A d \in ToSet(removal) :
       ~d.hasty =>
         /\ d.at \subseteq DOMAIN history
         /\ {history[i].id : i \in d.at} = d.meant
=============================================================================
