--------------------------- MODULE MCChatSession ---------------------------
(***************************************************************************)
(* Small instances of ChatSession: d is a turn that is posted or           *)
(* dispatched, s one that is streamed.                                     *)
(***************************************************************************)
EXTENDS ChatSession

CONSTANTS d, s, b

OneTurn    == {d}
TwoTurns   == {d, s}
Streams    == {s}
NoStream   == {}
OneBackfill == {b}
NoBackfill  == {}
=============================================================================
