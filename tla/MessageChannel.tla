--------------------------- MODULE MessageChannel ---------------------------
(***************************************************************************)
(* What the message protocol promises: every message the device sends is   *)
(* delivered to the host once, whole, with its kind, in the order sent.    *)
(* When the host reconnects to a restarted device both ends start afresh.  *)
(***************************************************************************)
EXTENDS Naturals, Sequences

CONSTANT Messages

VARIABLES sent, delivered

Init ==
    /\ sent = <<>>
    /\ delivered = <<>>

Send ==
    /\ \E m \in Messages : sent' = Append(sent, m)
    /\ UNCHANGED delivered

Deliver ==
    /\ Len(delivered) < Len(sent)
    /\ delivered' = Append(delivered, sent[Len(delivered) + 1])
    /\ UNCHANGED sent

Restart ==
    /\ sent' = <<>>
    /\ delivered' = <<>>

Next == Send \/ Deliver \/ Restart

vars == <<sent, delivered>>

Spec == Init /\ [][Next]_vars /\ WF_vars(Deliver)

=============================================================================
