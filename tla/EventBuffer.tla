---------------------------- MODULE EventBuffer -----------------------------
(***************************************************************************)
(* helper::CEventBuffer (CEventBuffer.h): the locked list with a condition *)
(* variable under every message queue of the server (m_mainqueue of the    *)
(* manager, m_EventQueue of each session, m_AddTimerMap of the timer, the  *)
(* send queues of the network modules).                                    *)
(*                                                                         *)
(* Put and the two halves of Get (before and after the wait) each run      *)
(* under m_mtx, so each is one action.  A thread inside Get is outside the *)
(* lock only while it waits: it is in waiting until notify_one picks it,   *)
(* its time runs out or it wakes for no reason, and then wants the lock    *)
(* back to look at the predicate again.  The items are numbered in the     *)
(* order in which their Put takes the lock.                                *)
(***************************************************************************)
EXTENDS Sequences, FiniteSets, Integers

CONSTANTS Consumer,    \* the threads that call Get
          MAXBUFFER,   \* CEventBuffer's constructor argument
          NumItems     \* bound on the calls of Put

ASSUME MAXBUFFERAssumption == MAXBUFFER \in Nat
ASSUME NumItemsAssumption  == NumItems \in Nat
ASSUME ConsumerAssumption  == IsFiniteSet(Consumer)

VARIABLES m_dataBuffer,  \* the list
          puts,          \* how many calls of Put have been made
          waiting,       \* the consumers blocked in m_cv.wait_for
          notified,      \* woken by notify_one, not yet running again
          expired,       \* woken by the end of their time
          roused,        \* woken spuriously
          accepted,      \* history: the items whose Put returned
          taken          \* history: the items Get returned, in order

vars == <<m_dataBuffer, puts, waiting, notified, expired, roused,
          accepted, taken>>

history == <<accepted, taken>>

Init ==
  /\ m_dataBuffer = <<>>
  /\ puts = 0
  /\ waiting = {} /\ notified = {} /\ expired = {} /\ roused = {}
  /\ accepted = <<>> /\ taken = <<>>

(* notify_one: some waiting thread, if there is one, leaves the wait set. *)
NotifyOne ==
  \/ /\ waiting = {}
     /\ UNCHANGED <<waiting, notified>>
  \/ \E c \in waiting : /\ waiting' = waiting \ {c}
                        /\ notified' = notified \cup {c}

(* Mutant: notify only when the list was empty. *)
PutNotifiesWhenEmpty ==
  /\ puts < NumItems
  /\ puts' = puts + 1
  /\ Len(m_dataBuffer) <= MAXBUFFER
  /\ m_dataBuffer' = Append(m_dataBuffer, puts + 1)
  /\ accepted' = Append(accepted, puts + 1)
  /\ IF m_dataBuffer = <<>> THEN NotifyOne ELSE UNCHANGED <<waiting, notified>>
  /\ UNCHANGED <<expired, roused, taken>>

(* Mutant: the capacity test happens after the push. *)
PutTestsTooLate ==
  /\ puts < NumItems
  /\ puts' = puts + 1
  /\ Len(m_dataBuffer) <= MAXBUFFER + 1
  /\ m_dataBuffer' = Append(m_dataBuffer, puts + 1)
  /\ accepted' = Append(accepted, puts + 1)
  /\ NotifyOne
  /\ UNCHANGED <<expired, roused, taken>>

(* Put, both overloads.  The test is size() > MAXBUFFER, before the push. *)
Put ==
  /\ puts < NumItems
  /\ puts' = puts + 1
  /\ Len(m_dataBuffer) <= MAXBUFFER
  /\ m_dataBuffer' = Append(m_dataBuffer, puts + 1)
  /\ accepted' = Append(accepted, puts + 1)
  /\ NotifyOne
  /\ UNCHANGED <<expired, roused, taken>>

(* Put on a full buffer throws std::exception and stores nothing. *)
PutThrows ==
  /\ puts < NumItems
  /\ puts' = puts + 1
  /\ Len(m_dataBuffer) > MAXBUFFER
  /\ UNCHANGED <<m_dataBuffer, waiting, notified, expired, roused, history>>

(* Mutant: front() without pop_front(). *)
TakeFrontAndKeep ==
  /\ m_dataBuffer # <<>>
  /\ taken' = Append(taken, Head(m_dataBuffer))
  /\ UNCHANGED <<m_dataBuffer, puts, accepted>>

TakeFront ==
  /\ m_dataBuffer # <<>>
  /\ taken' = Append(taken, Head(m_dataBuffer))
  /\ m_dataBuffer' = Tail(m_dataBuffer)
  /\ UNCHANGED <<puts, accepted>>

Outside(c) == c \notin waiting \cup notified \cup expired \cup roused

(* Get finds the predicate true at once: no wait. *)
GetAtOnce(c) ==
  /\ Outside(c)
  /\ TakeFront
  /\ UNCHANGED <<waiting, notified, expired, roused>>

(* Get finds the list empty and blocks, which releases the lock. *)
GetWaits(c) ==
  /\ Outside(c)
  /\ m_dataBuffer = <<>>
  /\ waiting' = waiting \cup {c}
  /\ UNCHANGED <<m_dataBuffer, puts, notified, expired, roused, history>>

(* dwMilliseconeds have passed: the thread leaves the wait set by itself. *)
TimeOut(c) ==
  /\ c \in waiting
  /\ waiting' = waiting \ {c}
  /\ expired' = expired \cup {c}
  /\ UNCHANGED <<m_dataBuffer, puts, notified, roused, history>>

(* A wake-up nobody asked for, which condition variables allow. *)
SpuriousWakeup(c) ==
  /\ c \in waiting
  /\ waiting' = waiting \ {c}
  /\ roused' = roused \cup {c}
  /\ UNCHANGED <<m_dataBuffer, puts, notified, expired, history>>

Awake(c) == c \in notified \cup expired \cup roused

(* Mutant: a thread that woke spuriously is not taken off its list. *)
LeaveGetKeepsRoused(c) ==
  /\ notified' = notified \ {c}
  /\ expired' = expired \ {c}
  /\ UNCHANGED roused

LeaveGet(c) ==
  /\ notified' = notified \ {c}
  /\ expired' = expired \ {c}
  /\ roused' = roused \ {c}

(* Awake with the lock and an item there: Get returns true, even when the *)
(* thread came back because its time was over (wait_for returns pred()).  *)
ResumeTakes(c) ==
  /\ Awake(c)
  /\ TakeFront
  /\ LeaveGet(c)
  /\ UNCHANGED waiting

(* Awake and the item is gone (another thread was faster): wait again. *)
ResumeWaits(c) ==
  /\ c \in notified \cup roused
  /\ m_dataBuffer = <<>>
  /\ LeaveGet(c)
  /\ waiting' = waiting \cup {c}
  /\ UNCHANGED <<m_dataBuffer, puts, history>>

(* Time over and still nothing: Get returns false. *)
ResumeGivesUp(c) ==
  /\ c \in expired
  /\ m_dataBuffer = <<>>
  /\ LeaveGet(c)
  /\ UNCHANGED <<m_dataBuffer, puts, waiting, history>>

Resume(c) == ResumeTakes(c) \/ ResumeWaits(c) \/ ResumeGivesUp(c)

Get(c) == GetAtOnce(c) \/ GetWaits(c)

Next ==
  \/ Put \/ PutThrows
  \/ \E c \in Consumer : \/ Get(c) \/ Resume(c)
                         \/ TimeOut(c) \/ SpuriousWakeup(c)

(* A thread that can have the lock gets it; consumers call Get in a loop   *)
(* (TSiaManager::run, TSessionLua::run).  Nothing forces a Put, a timeout  *)
(* or a spurious wake-up.                                                  *)
Fairness == \A c \in Consumer : WF_vars(Get(c)) /\ WF_vars(Resume(c))

Spec == Init /\ [][Next]_vars /\ Fairness
-----------------------------------------------------------------------------
(* The types, and the wait sets disjoint: a thread inside Get is asleep,   *)
(* notified, expired or roused, never two of these at once.                *)
TypeOK ==
  /\ m_dataBuffer \in Seq(Nat)
  /\ puts \in 0..NumItems
  /\ waiting \in SUBSET Consumer
  /\ notified \in SUBSET Consumer
  /\ expired \in SUBSET Consumer
  /\ roused \in SUBSET Consumer
  /\ accepted \in Seq(1..puts)
  /\ taken \in Seq(Nat)
  /\ waiting \cap (notified \cup expired \cup roused) = {}
  /\ notified \cap (expired \cup roused) = {}
  /\ expired \cap roused = {}

(* No lost wake-up: as long as a thread still sleeps, every item in the    *)
(* buffer has a notified thread on its way to it.  notify_one called once  *)
(* per Put is enough because a thread goes to sleep only on an empty list. *)
NoLostWakeup ==
  waiting # {} => Len(m_dataBuffer) <= Cardinality(notified)

(* The buffer never grows past what the test in Put lets through: one more *)
(* than MAXBUFFER, because the test is > and precedes the push, although   *)
(* the text of the exception speaks of exceeding the maximum.              *)
CapacityBound == Len(m_dataBuffer) <= MAXBUFFER + 1

(* Exactly once, in order: what was accepted is what was taken followed by *)
(* what is still in the list.                                              *)
FifoExactlyOnce == accepted = taken \o m_dataBuffer

(* CEventBuffer implements the queue its users rely on. *)
Queue == INSTANCE EventQueue WITH Item <- 1..NumItems, sent <- accepted, received <- taken
ImplementsQueue == Queue!Spec
=============================================================================
