---------------------------- MODULE RateLimiter ----------------------------
(***************************************************************************)
(* AsyncRateLimiter of packages/core/agent_eval/openrouter.py: an asyncio   *)
(* semaphore bounds the model requests in flight, and, when                 *)
(* requests_per_minute is set, a list of start times behind an asyncio lock *)
(* bounds the requests started in any sliding window.                       *)
(*                                                                          *)
(* A task is a coroutine running `async with self._rate_limiter`.  It can   *)
(* be cancelled wherever it is suspended.  asyncio's Semaphore and Lock are *)
(* external: both serve their waiters in order of arrival and hand over to  *)
(* the first waiter, which runs in a later step of the event loop.          *)
(*                                                                          *)
(* Time is discrete: the 60 seconds of the code are Window ticks, and a     *)
(* start time t is represented by its age now - t, which saturates at       *)
(* Window because the code only asks whether it is below 60 seconds.        *)
(***************************************************************************)
EXTENDS Naturals, Sequences, FiniteSets, SequencesExt

CONSTANTS Task,            \* coroutines sharing one limiter
          MaxConcurrency,  \* settings.max_concurrency
          Rpm,             \* settings.requests_per_minute, 0 for None
          Window,          \* the 60 seconds of the sliding window, in ticks
          NoTask           \* "nobody holds the lock"

ASSUME LimiterAssumption ==
  /\ IsFiniteSet(Task)
  /\ MaxConcurrency \in Nat \ {0}
  /\ Rpm \in Nat
  /\ Window \in Nat \ {0}
  /\ NoTask \notin Task

VARIABLES pc,           \* where each task is suspended
          permits,      \* _semaphore._value
          permitQueue,  \* tasks waiting for a permit, in order of arrival
          lockHolder,   \* the task inside `async with self._lock`
          lockQueue,    \* tasks waiting for the lock, in order of arrival
          stamps,       \* _timestamps, as ages, in list order
          sleepLeft,    \* ticks left of the lock holder's asyncio.sleep
          recent,       \* history: ages of all requests younger than Window
          leaked        \* history: permits whose holder was cancelled in acquire

vars == <<pc, permits, permitQueue, lockHolder, lockQueue, stamps, sleepLeft,
          recent, leaked>>

Age == 0..Window

\* Everything a task can be: outside, waiting for a permit, handed a permit,
\* waiting for the lock, sleeping with the lock held, or issuing its request.
Place == {"idle", "permitQueue", "permitted", "lockQueue", "sleeping", "inside"}

\* Tasks that own a permit of the semaphore.
Holding == {t \in Task : pc[t] \in {"permitted", "lockQueue", "sleeping", "inside"}}
Inside == {t \in Task : pc[t] = "inside"}

TypeOK ==
  /\ pc \in [Task -> Place]
  /\ permits \in Nat
  /\ permitQueue \in Seq(Task)
  /\ lockHolder \in Task \cup {NoTask}
  /\ lockQueue \in Seq(Task)
  /\ stamps \in Seq(Age)
  /\ sleepLeft \in Age
  /\ recent \in Seq(Age)
  /\ leaked \in Nat

Init ==
  /\ pc = [t \in Task |-> "idle"]
  /\ permits = MaxConcurrency
  /\ permitQueue = <<>>
  /\ lockHolder = NoTask
  /\ lockQueue = <<>>
  /\ stamps = <<>>
  /\ sleepLeft = 0
  /\ recent = <<>>
  /\ leaked = 0

------------------------------------------------------------------------------
(* asyncio.Semaphore                                                        *)

Move(t, place) == pc' = [pc EXCEPT ![t] = place]

\* Mutant of ReleasePermit: the permit is handed over and counted as free too.
ReleasePermitTwice(t) ==
  IF permitQueue = <<>>
    THEN permits' = permits + 1 /\ Move(t, "idle") /\ UNCHANGED permitQueue
    ELSE /\ permits' = permits + 1
         /\ permitQueue' = Tail(permitQueue)
         /\ pc' = [pc EXCEPT ![t] = "idle", ![Head(permitQueue)] = "permitted"]

\* release() by t: its permit goes to the first waiter, or back to the counter.
ReleasePermit(t) ==
  IF permitQueue = <<>>
    THEN /\ permits' = permits + 1
         /\ Move(t, "idle")
         /\ UNCHANGED permitQueue
    ELSE /\ permitQueue' = Tail(permitQueue)
         /\ pc' = [pc EXCEPT ![t] = "idle", ![Head(permitQueue)] = "permitted"]
         /\ UNCHANGED permits

\* A cancelled waiter leaves the queue it is in.
Without(q, t) == {RemoveAt(q, i) : i \in {j \in DOMAIN q : q[j] = t}}

------------------------------------------------------------------------------
(* The sliding window, entered with the lock                                *)

\* `[t for t in self._timestamps if now - t < 60.0]`: the list is in order of
\* time (see OldestFirst), so what has expired is a prefix of it.
Fresh(ages) ==
  SubSeq(ages, Cardinality({i \in DOMAIN ages : ages[i] >= Window}) + 1, Len(ages))

\* The request of t starts now: its time is listed and the lock let go.
StartRequest(t, list) ==
  /\ stamps' = Append(list, 0)
  /\ recent' = Append(recent, 0)
  /\ lockHolder' = NoTask
  /\ sleepLeft' = 0
  /\ Move(t, "inside")

\* Mutant of SleepForSlot: the sign of the age is wrong.
SleepPastWindow(t, list) ==
  /\ stamps' = list /\ lockHolder' = t /\ sleepLeft' = Window + list[1]
  /\ Move(t, "sleeping") /\ UNCHANGED recent

\* Mutant of SleepForSlot: the wait is computed from the youngest start.
SleepForYoungest(t, list) ==
  /\ stamps' = list /\ lockHolder' = t /\ sleepLeft' = Window - list[Len(list)]
  /\ Move(t, "sleeping") /\ UNCHANGED recent

\* The window is full: sleep, holding the lock, until its oldest start expires.
SleepForSlot(t, list) ==
  /\ stamps' = list
  /\ lockHolder' = t
  /\ sleepLeft' = Window - list[1]
  /\ Move(t, "sleeping")
  /\ UNCHANGED recent

\* Mutant of CheckWindow: > for >=.
CheckWindowOffByOne(t) ==
  LET list == Fresh(stamps) IN
  IF Len(list) > Rpm THEN SleepForSlot(t, list) ELSE StartRequest(t, list)

\* What acquire does from the moment it has the lock to its next suspension.
CheckWindow(t) ==
  LET list == Fresh(stamps) IN
  IF Len(list) >= Rpm THEN SleepForSlot(t, list) ELSE StartRequest(t, list)

------------------------------------------------------------------------------
(* Steps of a task                                                          *)

LockFree == lockHolder = NoTask /\ lockQueue = <<>>

\* What acquire does after the semaphore, up to its next suspension: with no
\* requests_per_minute the permit alone admits the task.
Admit(t) ==
  \/ /\ Rpm = 0
     /\ Move(t, "inside")
     /\ UNCHANGED <<lockHolder, lockQueue, stamps, sleepLeft, recent>>
  \/ /\ Rpm > 0 /\ LockFree
     /\ CheckWindow(t)
     /\ UNCHANGED lockQueue
  \/ /\ Rpm > 0 /\ ~LockFree
     /\ lockQueue' = Append(lockQueue, t)
     /\ Move(t, "lockQueue")
     /\ UNCHANGED <<lockHolder, stamps, sleepLeft, recent>>

\* `async with self._rate_limiter` is entered, for a first request or a retry.
\* acquire() of a free semaphore nobody waits for does not suspend.
EnterFree(t) ==
  /\ pc[t] = "idle"
  /\ permits > 0 /\ permitQueue = <<>>
  /\ permits' = permits - 1
  /\ Admit(t)
  /\ UNCHANGED <<permitQueue, leaked>>

EnterQueue(t) ==
  /\ pc[t] = "idle"
  /\ ~(permits > 0 /\ permitQueue = <<>>)
  /\ permitQueue' = Append(permitQueue, t)
  /\ Move(t, "permitQueue")
  /\ UNCHANGED <<permits, lockHolder, lockQueue, stamps, sleepLeft, recent, leaked>>

\* A waiter that was handed a permit runs again.
Resume(t) ==
  /\ pc[t] = "permitted"
  /\ Admit(t)
  /\ UNCHANGED <<permits, permitQueue, leaked>>

\* The first waiter of a released lock takes it.
InheritLock(t) ==
  /\ lockHolder = NoTask /\ lockQueue # <<>>
  /\ t = Head(lockQueue)
  /\ lockQueue' = Tail(lockQueue)
  /\ CheckWindow(t)
  /\ UNCHANGED <<permits, permitQueue, leaked>>

\* The sleep is over: list the start and leave the lock.
Wake(t) ==
  /\ pc[t] = "sleeping" /\ sleepLeft = 0
  /\ StartRequest(t, stamps)
  /\ UNCHANGED <<permits, permitQueue, lockQueue, leaked>>

\* Mutant of Exit: a request that fails does not give its permit back.
ExitKeepsPermit(t) ==
  /\ pc[t] = "inside" /\ Move(t, "idle")
  /\ UNCHANGED <<permits, permitQueue, lockHolder, lockQueue, stamps, sleepLeft,
                 recent, leaked>>

\* The request ended, with an answer, an error or a cancellation: __aexit__.
Exit(t) ==
  /\ pc[t] = "inside"
  /\ ReleasePermit(t)
  /\ UNCHANGED <<lockHolder, lockQueue, stamps, sleepLeft, recent, leaked>>

------------------------------------------------------------------------------
(* Cancellation of a task suspended in acquire: __aenter__ raises, so       *)
(* __aexit__ is not run.                                                    *)

CancelInPermitQueue(t) ==
  /\ pc[t] = "permitQueue"
  /\ permitQueue' \in Without(permitQueue, t)
  /\ Move(t, "idle")
  /\ UNCHANGED <<permits, lockHolder, lockQueue, stamps, sleepLeft, recent, leaked>>

\* Mutant of CancelPermitted: the permit of a cancelled hand-over is dropped.
CancelPermittedDrops(t) ==
  /\ pc[t] = "permitted" /\ Move(t, "idle")
  /\ UNCHANGED <<permits, permitQueue, lockHolder, lockQueue, stamps, sleepLeft,
                 recent, leaked>>

\* Cancelled after the hand-over and before it ran: asyncio passes it on.
CancelPermitted(t) ==
  /\ pc[t] = "permitted"
  /\ ReleasePermit(t)
  /\ UNCHANGED <<lockHolder, lockQueue, stamps, sleepLeft, recent, leaked>>

\* Nothing gives the permit back.
CancelInLockQueue(t) ==
  /\ pc[t] = "lockQueue"
  /\ lockQueue' \in Without(lockQueue, t)
  /\ Move(t, "idle")
  /\ leaked' = leaked + 1
  /\ UNCHANGED <<permits, permitQueue, lockHolder, stamps, sleepLeft, recent>>

\* Mutant of CancelSleeping: acquire/release calls in place of `async with`.
CancelSleepingKeepsLock(t) ==
  /\ pc[t] = "sleeping" /\ Move(t, "idle") /\ leaked' = leaked + 1
  /\ UNCHANGED <<permits, permitQueue, lockHolder, lockQueue, stamps, sleepLeft, recent>>

\* `async with self._lock` lets the lock go; nothing gives the permit back.
CancelSleeping(t) ==
  /\ pc[t] = "sleeping"
  /\ lockHolder' = NoTask
  /\ sleepLeft' = 0
  /\ Move(t, "idle")
  /\ leaked' = leaked + 1
  /\ UNCHANGED <<permits, permitQueue, lockQueue, stamps, recent>>

Cancel(t) ==
  \/ CancelInPermitQueue(t)
  \/ CancelPermitted(t)
  \/ CancelInLockQueue(t)
  \/ CancelSleeping(t)

------------------------------------------------------------------------------
Older(ages) == [i \in DOMAIN ages |-> IF ages[i] < Window THEN ages[i] + 1 ELSE Window]

Tick ==
  /\ stamps' = Older(stamps)
  /\ recent' = Fresh(Older(recent))
  /\ sleepLeft' = IF sleepLeft > 0 THEN sleepLeft - 1 ELSE 0
  /\ UNCHANGED <<pc, permits, permitQueue, lockHolder, lockQueue, leaked>>

Step(t) ==
  \/ EnterFree(t) \/ EnterQueue(t) \/ Resume(t)
  \/ InheritLock(t) \/ Wake(t) \/ Exit(t)

Next == Tick \/ \E t \in Task : Step(t) \/ Cancel(t)

Spec == Init /\ [][Next]_vars

(***************************************************************************)
(* Fairness.  The event loop resumes every task whose wait is over, time    *)
(* passes, and a request ends because the HTTP client has a timeout.        *)
(* Nobody has to enter the limiter and nobody has to be cancelled.          *)
(***************************************************************************)
Fairness ==
  /\ WF_vars(Tick)
  /\ \A t \in Task :
       /\ WF_vars(Resume(t)) /\ WF_vars(InheritLock(t))
       /\ WF_vars(Wake(t)) /\ WF_vars(Exit(t))

FairSpec == Spec /\ Fairness

------------------------------------------------------------------------------
(* Properties                                                               *)

\* At most max_concurrency requests are in flight, whatever is cancelled while
\* waiting (AsyncRateLimiter's purpose, and test_async_rate_limiter_concurrency).
ConcurrencyBound == Cardinality(Inside) <= MaxConcurrency

\* Every permit is in the counter, with one task, or lost with a cancelled one:
\* no hand-over, exit or cancellation of acquire forges a permit or forgets one
\* anywhere but behind the lock.
PermitAccounting == permits + Cardinality(Holding) + leaked = MaxConcurrency

\* In any Window ticks at most requests_per_minute requests start, although a
\* sleeper lists its start late and a cancelled sleeper never starts.
RateBound == Rpm > 0 => Len(recent) <= Rpm

\* What acquire relies on when it prunes the list and sleeps for _timestamps[0]:
\* the list is in order of age, it holds every start that is still in the window,
\* and only the lock holder sleeps, exactly until the oldest of them expires.
WindowListed ==
  /\ \A i, j \in DOMAIN stamps : i < j => stamps[i] >= stamps[j]
  /\ Fresh(stamps) = recent
  /\ \A t \in Task : pc[t] = "sleeping" <=> lockHolder = t
  /\ lockHolder # NoTask => /\ Len(stamps) = Rpm
                            /\ sleepLeft = Window - stamps[1]

\* The comments on __aexit__ and release say the slot is given back: when no
\* task is in the limiter, all its permits are free.
AllPermitsReturn == (\A t \in Task : pc[t] = "idle") => permits = MaxConcurrency

\* A task that waits for a permit moves on, unless cancellations have taken every
\* permit out of circulation (what the leak costs, and all it costs).
WaitersMoveOn ==
  \A t \in Task : pc[t] = "permitQueue" ~> (pc[t] # "permitQueue" \/ leaked = MaxConcurrency)

\* The lock is never kept for good, not even when its holder is cancelled while
\* it sleeps: everyone queued behind it moves on.
LockMovesOn == \A t \in Task : pc[t] = "lockQueue" ~> pc[t] # "lockQueue"
=============================================================================
