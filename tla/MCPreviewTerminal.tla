-------------------------- MODULE MCPreviewTerminal --------------------------
(***************************************************************************)
(* Small instances of PreviewTerminal.                                     *)
(***************************************************************************)
EXTENDS PreviewTerminal

CONSTANTS q1, q2, x1, x2

TwoRequests == {q1, q2}
TwoTerminals == {x1, x2}
=============================================================================
