------------------------------- MODULE Pages --------------------------------
(***************************************************************************)
(* What the pages of the web UI share: the sessions a chat page may show   *)
(* and the route of the page of a new one.                                 *)
(***************************************************************************)
CONSTANTS
  Sessions,    \* the sessions a chat page may show
  Existing,    \* those that exist when a page that creates sessions opens
  NoSession    \* the page of a new session

ASSUME PagesAssumption == NoSession \notin Sessions /\ Existing \subseteq Sessions

Routes == Sessions \cup {NoSession}
=============================================================================
