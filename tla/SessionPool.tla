----------------------------- MODULE SessionPool -------------------------------
(***************************************************************************)
(* What TSiaManager promises to whoever sends it requests: a session is    *)
(* opened for one request, in the order in which the requests came, while  *)
(* there is room for it; it works on that request and on no other, once,   *)
(* answers it once at most, and it leaves the pool only when it is through *)
(* with it.  Nothing is said of queues, threads, call ids or locks, nor of *)
(* what happens to a request no session is opened for.                     *)
(***************************************************************************)
EXTENDS FiniteSets, Naturals

CONSTANTS Member,  \* the sessions there can be
          Limit    \* how many there may be at a time

VARIABLES asked,    \* how many requests have come
          opened,   \* the request each session was opened for, 0 if none
          handled,  \* the request each session works or has worked on, or 0
          phase,    \* "none", "waiting", "working", "through"
          answers,  \* how many answers each session has given
          pool      \* the sessions of the pool

vars == <<asked, opened, handled, phase, answers, pool>>

Init == /\ asked = 0
        /\ opened = [s \in Member |-> 0] /\ handled = [s \in Member |-> 0]
        /\ phase = [s \in Member |-> "none"]
        /\ answers = [s \in Member |-> 0]
        /\ pool = {}

Ask == asked' = asked + 1 /\ UNCHANGED <<opened, handled, phase, answers, pool>>

Open(s, n) == /\ phase[s] = "none" /\ Cardinality(pool) < Limit
              /\ \A t \in Member : opened[t] < n
              /\ opened' = [opened EXCEPT ![s] = n]
              /\ phase' = [phase EXCEPT ![s] = "waiting"]
              /\ pool' = pool \cup {s}
              /\ UNCHANGED <<asked, handled, answers>>

Work(s) == /\ phase[s] = "waiting" /\ s \in pool
           /\ phase' = [phase EXCEPT ![s] = "working"]
           /\ handled' = [handled EXCEPT ![s] = opened[s]]
           /\ UNCHANGED <<asked, opened, answers, pool>>

GiveUp(s) == /\ phase[s] = "waiting"
             /\ phase' = [phase EXCEPT ![s] = "through"]
             /\ UNCHANGED <<asked, opened, handled, answers, pool>>

Finish(s) == /\ phase[s] = "working"
             /\ phase' = [phase EXCEPT ![s] = "through"]
             /\ \/ UNCHANGED answers
                \/ answers' = [answers EXCEPT ![s] = @ + 1]
             /\ UNCHANGED <<asked, opened, handled, pool>>

Leave(s) == /\ phase[s] = "through"
            /\ pool' = pool \ {s}
            /\ UNCHANGED <<asked, opened, handled, phase, answers>>

Next == \/ Ask
        \/ \E s \in Member : \/ \E n \in 1..asked : Open(s, n)
                             \/ Work(s) \/ GiveUp(s) \/ Finish(s) \/ Leave(s)

Spec == Init /\ [][Next]_vars
=============================================================================
