------------------------------ MODULE ChatPage ------------------------------
(***************************************************************************)
(* The chat page of the web UI as a place: which session the URL names,    *)
(* the cached list of sessions, the dialog that deletes one, and the step  *)
(* groups of the turns, which live in the page and in the browser's        *)
(* storage.  ChatComposer has what a turn itself does.                     *)
(*                                                                         *)
(* The step groups are abstracted to the sessions whose turns they came    *)
(* from.  Another client of the server may delete sessions.                *)
(***************************************************************************)
EXTENDS Pages, Naturals, FiniteSets

VARIABLES
  url,          \* sessionId of the URL
  composing,    \* is the URL /chat?mode=new?
  exists,       \* the sessions of the server
  listed,       \* the cached list of sessions
  missing,      \* has the detail query of the session shown answered 404?
  remembered,   \* LAST_SESSION_KEY in localStorage
  turn,         \* the session whose turn this page is reading
  groups,       \* stepGroupsRef
  unsaved,      \* pendingPersistRef: <<>> or <<session, groups>>
  saved,        \* the step groups of each session in localStorage
  clearing,     \* the session whose messages are being deleted
  asked,        \* pendingDeleteSessionId
  removing,     \* the session whose deletion is in flight
  strayed       \* history: a turn was filed while the page showed another session

placeVars == <<url, composing, missing>>
serverVars == <<exists, listed>>
groupVars == <<turn, groups, unsaved, saved, strayed>>
dialogVars == <<asked, removing>>
chatPageVars == <<placeVars, serverVars, remembered, groupVars, clearing, dialogVars>>

ChatPageTypeOK ==
  /\ url \in Routes /\ composing \in BOOLEAN /\ missing \in BOOLEAN
  /\ exists \subseteq Sessions /\ listed \subseteq Sessions
  /\ remembered \in Routes /\ turn \in Routes
  /\ groups \subseteq Sessions /\ saved \in [Sessions -> SUBSET Sessions]
  /\ unsaved \in {<<>>} \cup (Sessions \X SUBSET Sessions)
  /\ clearing \in Routes /\ asked \in Routes
  /\ removing \in Routes /\ (removing = NoSession => asked \in listed \cup {NoSession})
  /\ strayed \in BOOLEAN

ChatPageInit ==
  /\ url = NoSession /\ composing = FALSE /\ missing = FALSE
  /\ exists = Sessions /\ listed = {} /\ remembered = NoSession
  /\ turn = NoSession
  /\ groups = {} /\ unsaved = <<>> /\ saved = [s \in Sessions |-> {}]
  /\ clearing = NoSession /\ asked = NoSession /\ removing = NoSession
  /\ strayed = FALSE

-----------------------------------------------------------------------------
(* Moving between sessions.                                                *)

\* loadStepGroups.
LoadStepGroups(s, g) == IF s = NoSession THEN {} ELSE g[s]

(* Mutation of ShowGroups: the groups of the page before stay. *)
ShowGroupsAppended(s, g) ==
  /\ groups' = groups \cup LoadStepGroups(s, g)
  /\ unsaved' = <<>>

\* The effect on a new sessionId: the groups are read back and a save that still waits for
\* its timer is dropped.
ShowGroups(s, g) ==
  /\ groups' = LoadStepGroups(s, g)
  /\ unsaved' = <<>>

\* Navigate to s with the groups stored as g and m remembered: a session shown is remembered.
Navigate(s, new, g, m) ==
  /\ url' = s /\ composing' = new /\ missing' = FALSE
  /\ remembered' = IF s = NoSession THEN m ELSE s
  /\ IF s = url THEN UNCHANGED <<groups, unsaved>> ELSE ShowGroups(s, g)

\* The sessions offered by the rail of a collapsed sidebar, and by the sidebar, where the
\* buttons of a session being deleted are off.
RailSessions == listed
SidebarSessions == listed \ {removing}

HandleSelectSession ==
  /\ \E s \in RailSessions \cup SidebarSessions : Navigate(s, FALSE, saved, remembered)
  /\ UNCHANGED <<serverVars, turn, saved, strayed, clearing, dialogVars>>

HandleComposeNewSession ==
  /\ Navigate(NoSession, TRUE, saved, remembered)
  /\ UNCHANGED <<serverVars, turn, saved, strayed, clearing, dialogVars>>

\* /chat without a session goes to the remembered session once the list is there.
OpenRemembered ==
  /\ url = NoSession /\ ~composing /\ remembered \in listed
  /\ Navigate(remembered, FALSE, saved, remembered)
  /\ UNCHANGED <<serverVars, turn, saved, strayed, clearing, dialogVars>>

\* The user leaves for another page and comes back to /chat: what waits for the timer is
\* saved.  (Bound: between requests; what is in flight then goes on without a page.)
LeavePage ==
  /\ turn = NoSession /\ clearing = NoSession /\ removing = NoSession
  /\ saved' = IF unsaved = <<>> THEN saved ELSE [saved EXCEPT ![unsaved[1]] = unsaved[2]]
  /\ url' = NoSession /\ composing' = FALSE /\ missing' = FALSE
  /\ groups' = {} /\ unsaved' = <<>>
  /\ asked' = NoSession
  /\ UNCHANGED <<serverVars, remembered, turn, strayed, clearing, removing>>

-----------------------------------------------------------------------------
(* The list, the detail and a session that is gone.                        *)

\* The effect that closes the dialog when the session asked for is not in list l any more, unless
\* the deletion of r is in flight.
AskedAbout(a, r, l) == IF r = NoSession /\ a \notin l THEN NoSession ELSE a

ListSessions ==
  /\ listed' = exists
  /\ asked' = AskedAbout(asked, removing, exists)
  /\ UNCHANGED <<placeVars, exists, remembered, groupVars, clearing, removing>>

(* Mutation of GetSessionDetail: the detail is only asked for while a turn runs. *)
GetSessionDetailOfTurn ==
  /\ url # NoSession /\ turn = url
  /\ missing' = (url \notin exists)
  /\ UNCHANGED <<url, composing, serverVars, remembered, groupVars, clearing, dialogVars>>

\* The detail of the session shown is polled.
GetSessionDetail ==
  /\ url # NoSession
  /\ missing' = (url \notin exists)
  /\ UNCHANGED <<url, composing, serverVars, remembered, groupVars, clearing, dialogVars>>

\* The page of a session that does not exist forgets it and goes to another listed session,
\* or to a new one.  (The remembered session is the one shown, which is forgotten first.)
LeaveMissingSession ==
  /\ missing
  /\ saved' = [saved EXCEPT ![url] = {}]
  /\ LET others == listed \ {url}
         m == IF remembered = url THEN NoSession ELSE remembered
     IN IF m \in others THEN Navigate(m, FALSE, saved', m)
        ELSE IF others = {} THEN Navigate(NoSession, TRUE, saved', m)
        ELSE \E s \in others : Navigate(s, FALSE, saved', m)
  /\ UNCHANGED <<serverVars, turn, strayed, clearing, dialogVars>>

\* Another client deletes a session.
DeletedElsewhere ==
  /\ \E s \in exists : exists' = exists \ {s}
  /\ UNCHANGED <<placeVars, listed, remembered, groupVars, clearing, dialogVars>>

-----------------------------------------------------------------------------
(* The step groups.                                                        *)

\* persistStepGroups: show the groups and save them when the timer fires.
PersistStepGroups(s, g) ==
  /\ groups' = g /\ unsaved' = <<s, g>>
  /\ strayed' = (strayed \/ url # s)

\* isStreaming is the lock of the page: one turn at a time.  (Bound: none after a stray one.)
TurnStarts ==
  /\ url \in exists /\ turn = NoSession /\ ~strayed
  /\ turn' = url
  /\ UNCHANGED <<placeVars, serverVars, remembered, groups, unsaved, saved, strayed, clearing, dialogVars>>

\* appendStepGroup of a message.
AppendStepGroup ==
  /\ turn # NoSession
  /\ PersistStepGroups(turn, groups \cup {turn})
  /\ turn' = NoSession
  /\ UNCHANGED <<placeVars, serverVars, remembered, saved, clearing, dialogVars>>

\* replaceLastStepGroup of an answered interrupt: the last group (which may be the only one
\* of its session) makes place.
ReplaceLastStepGroup ==
  /\ turn # NoSession
  /\ \E x \in SUBSET groups : /\ Cardinality(x) <= 1
                              /\ PersistStepGroups(turn, (groups \ x) \cup {turn})
  /\ turn' = NoSession
  /\ UNCHANGED <<placeVars, serverVars, remembered, saved, clearing, dialogVars>>

\* A request that fails leaves no group.
TurnFails ==
  /\ turn # NoSession
  /\ turn' = NoSession
  /\ UNCHANGED <<placeVars, serverVars, remembered, groups, unsaved, saved, strayed, clearing, dialogVars>>

\* saveStepGroups, when the timer fires.
SaveStepGroups ==
  /\ unsaved # <<>>
  /\ saved' = [saved EXCEPT ![unsaved[1]] = unsaved[2]]
  /\ unsaved' = <<>>
  /\ UNCHANGED <<placeVars, serverVars, remembered, turn, groups, strayed, clearing, dialogVars>>

-----------------------------------------------------------------------------
(* Deleting messages, and sessions.                                        *)

\* Messages are deleted only between turns (the button is off while it lasts).
HandleDeleteMessages ==
  /\ url # NoSession /\ turn = NoSession /\ clearing = NoSession
  /\ clearing' = url
  /\ UNCHANGED <<placeVars, serverVars, remembered, groupVars, dialogVars>>

\* The answer clears the groups of the page, whichever session it shows by now, and the
\* stored ones of the session.
MessagesDeleted ==
  /\ clearing # NoSession
  /\ \/ groups' = {} /\ saved' = [saved EXCEPT ![clearing] = {}]
     \/ UNCHANGED <<groups, saved>>
  /\ clearing' = NoSession
  /\ UNCHANGED <<placeVars, serverVars, remembered, turn, unsaved, strayed, dialogVars>>

\* The dialog is there while the session asked about is listed; its buttons are off while a
\* deletion is in flight, which may be that of a session asked about before.
DialogOpen == asked \in listed
DialogBusy == removing # NoSession

OnDeleteSession ==
  /\ \E s \in SidebarSessions : asked' = s
  /\ UNCHANGED <<placeVars, serverVars, remembered, groupVars, clearing, removing>>

\* Escape, the backdrop or the button.
HandleCancelDeleteSession ==
  /\ DialogOpen /\ ~DialogBusy
  /\ asked' = NoSession
  /\ UNCHANGED <<placeVars, serverVars, remembered, groupVars, clearing, removing>>

HandleConfirmDeleteSession ==
  /\ DialogOpen /\ ~DialogBusy
  /\ removing' = asked
  /\ UNCHANGED <<placeVars, serverVars, remembered, groupVars, clearing, asked>>

\* The deletion succeeds: the session goes from the list and the storage, and the dialog closes.
SessionDeleted ==
  /\ removing # NoSession
  /\ exists' = exists \ {removing} /\ listed' = listed \ {removing}
  /\ saved' = [saved EXCEPT ![removing] = {}]
  /\ LET m == IF remembered = removing THEN NoSession ELSE remembered
     IN IF url = removing THEN Navigate(NoSession, TRUE, saved', m)
        ELSE remembered' = m /\ UNCHANGED <<placeVars, groups, unsaved>>
  /\ removing' = NoSession /\ asked' = NoSession
  /\ UNCHANGED <<turn, strayed, clearing>>

\* A deletion that fails keeps the dialog open.
SessionDeleteFails ==
  /\ removing # NoSession
  /\ removing' = NoSession
  /\ asked' = AskedAbout(asked, NoSession, listed)
  /\ UNCHANGED <<placeVars, serverVars, remembered, groupVars, clearing>>

-----------------------------------------------------------------------------
ChatPageNext ==
  \/ HandleSelectSession \/ HandleComposeNewSession \/ OpenRemembered \/ LeavePage
  \/ ListSessions \/ GetSessionDetail \/ LeaveMissingSession \/ DeletedElsewhere
  \/ TurnStarts \/ AppendStepGroup \/ ReplaceLastStepGroup \/ TurnFails
  \/ SaveStepGroups \/ HandleDeleteMessages \/ MessagesDeleted
  \/ OnDeleteSession \/ HandleCancelDeleteSession \/ HandleConfirmDeleteSession
  \/ SessionDeleted \/ SessionDeleteFails

\* The list and the detail are polled and the effects run.
ChatPageFairness ==
  /\ WF_chatPageVars(ListSessions)
  /\ WF_chatPageVars(GetSessionDetail)
  /\ WF_chatPageVars(LeaveMissingSession)

ChatPageSpec == ChatPageInit /\ [][ChatPageNext]_chatPageVars /\ ChatPageFairness

-----------------------------------------------------------------------------
\* The stored groups of a session are those of its own turns, unless a turn ended while the
\* page showed another session than the turn's (then appendStepGroup files the groups of
\* both under the turn's session).
SavedGroupsAreOwn ==
  ~strayed => \A s \in Sessions : saved[s] \subseteq {s}

\* The inductive strengthening: what is shown or waits is of its session.
GroupsAreOwn ==
  ~strayed => /\ \A s \in Sessions : saved[s] \subseteq {s}
              /\ groups \subseteq {url}
              /\ unsaved # <<>> => unsaved[2] \subseteq {unsaved[1]}

\* The page does not stay on a session that was deleted elsewhere: the polls find out and it
\* moves on until it shows a session that exists, or a new one.
DeadPageLeaves == (url \notin exists \cup {NoSession}) ~> (url \in exists \cup {NoSession})
=============================================================================
