--------------------------- MODULE MCChatComposer ---------------------------
(***************************************************************************)
(* Instance of ChatComposer for TLC: two sessions, so that one can be left *)
(* while the other answers, and more queued messages than the queue holds. *)
(***************************************************************************)
EXTENDS ChatComposer
=============================================================================
