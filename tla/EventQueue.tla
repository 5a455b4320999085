----------------------------- MODULE EventQueue -----------------------------
(***************************************************************************)
(* What a CEventBuffer promises to the threads that share it: every item   *)
(* whose Put returned is handed to exactly one Get, and the items leave in *)
(* the order in which they entered.  Nothing is said of locks, waiting     *)
(* threads or timeouts.                                                    *)
(***************************************************************************)
EXTENDS Sequences, Naturals

CONSTANT Item       \* what may be put into the queue

VARIABLES sent,      \* the items whose Put returned, in order
          received   \* the items returned by Get, in order

vars == <<sent, received>>

Init == sent = <<>> /\ received = <<>>

Send(item) == /\ sent' = Append(sent, item)
              /\ UNCHANGED received

Receive == /\ Len(received) < Len(sent)
           /\ received' = Append(received, sent[Len(received) + 1])
           /\ UNCHANGED sent

Next == Receive \/ \E item \in Item : Send(item)

Spec == Init /\ [][Next]_vars /\ WF_vars(Receive)
=============================================================================
