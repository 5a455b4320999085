----------------------------- MODULE RequestReply ------------------------------
(***************************************************************************)
(* What the server promises the soft switch on its first connection: each  *)
(* request is answered once at most, an answer belongs to a request that   *)
(* was made, and the answers come in the order in which they were given,   *)
(* without a gap, until the connection is gone.  Nothing is said of        *)
(* sessions, queues, threads or timers.                                    *)
(***************************************************************************)
EXTENDS Sequences, Naturals

VARIABLES asked,      \* how many requests have come
          answered,   \* the requests that have been answered, in order
          shown,      \* the requests whose answer the soft switch has got
          gone        \* its connection is closed

vars == <<asked, answered, shown, gone>>

Init == asked = 0 /\ answered = <<>> /\ shown = <<>> /\ gone = FALSE

Ask == asked' = asked + 1 /\ UNCHANGED <<answered, shown, gone>>

Answer(n) ==
  /\ \A i \in 1..Len(answered) : answered[i] # n
  /\ answered' = Append(answered, n)
  /\ UNCHANGED <<asked, shown, gone>>

Show == ~gone /\ shown' = answered /\ UNCHANGED <<asked, answered, gone>>

Close == gone' = TRUE /\ UNCHANGED <<asked, answered, shown>>

Next == Ask \/ Show \/ Close \/ \E n \in 1..asked : Answer(n)

Spec == Init /\ [][Next]_vars
=============================================================================
