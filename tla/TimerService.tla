----------------------------- MODULE TimerService ------------------------------
(***************************************************************************)
(* What a CSIATimer promises the sessions and their manager: the manager   *)
(* is told of a timer once at most, of no timer that was cancelled before  *)
(* it was due, and of none whose element is freed; an element is freed     *)
(* once its timer has been told of or cancelled, and it may be freed       *)
(* unasked, or freed twice, only while the service is being closed.        *)
(* Nothing is said of queues, maps, threads or events.                     *)
(***************************************************************************)
EXTENDS Sequences, Naturals

CONSTANT Timer      \* the numbers timers are known by

VARIABLES set,        \* the timers that have been set
          told,       \* those the manager has been told of, in order
          cancelled,  \* those that were cancelled before they were due
          freed,      \* those whose element is freed
          closing,    \* the service is being closed, or is closed
          broken      \* the process is not what it was

vars == <<set, told, cancelled, freed, closing, broken>>

Init == /\ set = {} /\ told = <<>> /\ cancelled = {} /\ freed = {}
        /\ closing = FALSE /\ broken = FALSE

ToldOf(id) == \E i \in 1..Len(told) : told[i] = id

Set(id) == /\ id \notin set
           /\ set' = set \cup {id}
           /\ UNCHANGED <<told, cancelled, freed, closing>>

Cancel(id) == /\ id \in set /\ ~ToldOf(id)
              /\ cancelled' = cancelled \cup {id}
              /\ UNCHANGED <<set, told, freed, closing>>

Tell(id) == /\ id \in set /\ id \notin cancelled \cup freed /\ ~ToldOf(id)
            /\ told' = Append(told, id)
            /\ UNCHANGED <<set, cancelled, freed, closing>>

Free(id) == /\ id \in set /\ id \notin freed
            /\ ToldOf(id) \/ id \in cancelled \/ closing
            /\ freed' = freed \cup {id}
            /\ UNCHANGED <<set, told, cancelled, closing>>

Close == closing' = TRUE /\ UNCHANGED <<set, told, cancelled, freed>>

Break == UNCHANGED <<set, told, cancelled, freed, closing>>

(* Closing is the only thing that can break it. *)
Next == /\ ~broken
        /\ broken' => closing
        /\ broken' \in BOOLEAN
        /\ \/ \E id \in Timer : Set(id) \/ Cancel(id) \/ Tell(id) \/ Free(id)
           \/ Close \/ Break

Spec == Init /\ [][Next]_vars
=============================================================================
