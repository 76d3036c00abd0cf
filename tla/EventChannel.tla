---------------------------- MODULE EventChannel ----------------------------
(***************************************************************************)
(* What the event stream of a turn promises the page that reads it: the    *)
(* events arrive in the order they were sent, none twice, none made up and *)
(* none left out between two that arrive.  The channel is closed only when *)
(* everything has arrived and a final event was sent, after which nothing  *)
(* is; else it breaks, and what arrived is all there will be.              *)
(***************************************************************************)
EXTENDS Naturals, Sequences, SequencesExt

CONSTANT Final       \* the events after which none is sent

VARIABLES sent,      \* the events sent
          received,  \* the events that arrived
          end        \* "open", "closed" or "broken"

Finished == sent # <<>> /\ Last(sent) \in Final

Init == sent = <<>> /\ received = <<>> /\ end \in {"open", "broken"}

Send ==
  /\ Len(sent') = Len(sent) + 1 /\ IsPrefix(sent, sent')
  /\ ~Finished
  /\ UNCHANGED <<received, end>>

Receive ==
  /\ end # "closed"
  /\ \E n \in Len(received) + 1..Len(sent) : received' = SubSeq(sent, 1, n)
  /\ UNCHANGED <<sent, end>>

Close ==
  /\ end = "open" /\ Finished /\ received = sent
  /\ end' = "closed"
  /\ UNCHANGED <<sent, received>>

Break ==
  /\ end = "open"
  /\ end' = "broken"
  /\ UNCHANGED <<sent, received>>

Next == Send \/ Receive \/ Close \/ Break

Spec == Init /\ [][Next]_<<sent, received, end>>
=============================================================================
