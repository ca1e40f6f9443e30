----------------------- MODULE OpenRouterCalls_proofs -----------------------
(***************************************************************************)
(* TLAPS proofs about RateLimiter and about the calls that OpenRouterCalls  *)
(* makes through it, for any finite set of coroutines, any replies and any  *)
(* settings.                                                                *)
(*                                                                          *)
(* First the limiter: its inductive invariant adds to TypeOK that each      *)
(* waiter queue holds each of its waiters once, that the lock is only       *)
(* waited for when the window is in use, and that every permit is           *)
(* accounted for.                                                           *)
(*                                                                          *)
(* Then the calls.  A step of a call is a step of the limiter or none of    *)
(* it, so what is proved of the limiter is true below every call.  What an  *)
(* idempotency key names follows from an invariant: the keys of the calls   *)
(* that have begun are all different, and a request carries that of its     *)
(* call.  What a call ends with, and that OpenRouterClient's loop would end *)
(* it alike, follow from another: how many replies a call has had wherever  *)
(* its coroutine is, and that all but the last were failures it retries.    *)
(***************************************************************************)
EXTENDS OpenRouterCalls, FiniteSetTheorems, SequenceTheorems, WellFoundedInduction, TLAPS

\* The waiters of a queue are the tasks whose pc says so, without repetition.
QueueOf(q, place) ==
  /\ \A i \in DOMAIN q : pc[q[i]] = place
  /\ \A i, j \in DOMAIN q : i # j => q[i] # q[j]

QueuesDistinct == QueueOf(permitQueue, "permitQueue") /\ QueueOf(lockQueue, "lockQueue")

\* Nobody waits for the lock unless requests_per_minute is set.
WindowInUse == lockQueue # <<>> => Rpm > 0

IInv == TypeOK /\ QueuesDistinct /\ WindowInUse /\ PermitAccounting

------------------------------------------------------------------------------
(* Lemmas about the operators the limiter's actions are built from          *)

\* Removing a waiter from a queue leaves a queue of tasks.
LEMMA WithoutType ==
  ASSUME NEW q \in Seq(Task), NEW t, NEW r \in Without(q, t)
  PROVE  r \in Seq(Task)
<1>1. PICK i \in DOMAIN q : r = RemoveAt(q, i)
  BY DEF Without
<1>2. i \in 1..Len(q) /\ Len(q) \in Nat
  BY <1>1, LenProperties
<1>3. SubSeq(q, 1, i - 1) \in Seq(Task)
  BY <1>2, ElementOfSeq, SubSeqProperties
<1>4. SubSeq(q, i + 1, Len(q)) \in Seq(Task)
  BY <1>2, ElementOfSeq, SubSeqProperties
<1>5. QED
  BY <1>1, <1>3, <1>4, ConcatProperties DEF RemoveAt

\* Pruning the list of start times leaves a list of ages.
LEMMA FreshType ==
  ASSUME NEW s \in Seq(Age)
  PROVE  Fresh(s) \in Seq(Age)
<1> DEFINE E == {i \in DOMAIN s : s[i] >= Window}
<1>1. DOMAIN s = 1..Len(s) /\ Len(s) \in Nat
  BY LenProperties
<1>2. IsFiniteSet(1..Len(s))
  BY <1>1, FS_Interval
<1>3. IsFiniteSet(E)
  BY <1>1, <1>2, FS_Subset
<1>4. Cardinality(E) \in Nat
  BY <1>3, FS_CardinalityType
<1>5. \A i \in Cardinality(E) + 1 .. Len(s) : s[i] \in Age
  BY <1>1, <1>4, ElementOfSeq
<1>6. SubSeq(s, Cardinality(E) + 1, Len(s)) \in Seq(Age)
  BY <1>1, <1>4, <1>5, SubSeqProperties
<1>7. QED
  BY <1>6 DEF Fresh

\* A tick leaves a list of ages.
LEMMA OlderType ==
  ASSUME NEW s \in Seq(Age)
  PROVE  Older(s) \in Seq(Age)
<1>1. DOMAIN s = 1..Len(s) /\ Len(s) \in Nat
  BY LenProperties
<1>2. \A i \in 1..Len(s) : s[i] \in Age
  BY ElementOfSeq
<1>3. \A i \in 1..Len(s) : (IF s[i] < Window THEN s[i] + 1 ELSE Window) \in Age
  BY <1>2, LimiterAssumption DEF Age
<1>4. QED
  BY <1>1, <1>3 DEF Older

\* A list of ages with a fresh start appended is a list of ages.
LEMMA StartType ==
  ASSUME NEW s \in Seq(Age)
  PROVE  Append(s, 0) \in Seq(Age)
  BY LimiterAssumption DEF Age

------------------------------------------------------------------------------
(* Lemmas about the tasks that own a permit                                 *)

Owning == {"permitted", "lockQueue", "sleeping", "inside"}

LEMMA HoldingFinite ==
  IsFiniteSet(Holding) /\ Cardinality(Holding) \in Nat
<1>1. IsFiniteSet(Holding)
  BY LimiterAssumption, FS_Subset DEF Holding
<1>2. QED
  BY <1>1, FS_CardinalityType

\* A task that moves from outside to a place behind the semaphore owns one more.
LEMMA HoldingGain ==
  ASSUME TypeOK, NEW t \in Task, NEW place \in Owning,
         pc[t] \notin Owning, pc' = [pc EXCEPT ![t] = place]
  PROVE  Cardinality(Holding') = Cardinality(Holding) + 1
<1>1. Holding' = Holding \cup {t} /\ t \notin Holding
  BY DEF Holding, TypeOK, Owning
<1>2. QED
  BY <1>1, HoldingFinite, FS_AddElement

\* A task that leaves owns one less.
LEMMA HoldingLoss ==
  ASSUME TypeOK, NEW t \in Task, pc[t] \in Owning, pc' = [pc EXCEPT ![t] = "idle"]
  PROVE  Cardinality(Holding') = Cardinality(Holding) - 1
<1>1. Holding' = Holding \ {t} /\ t \in Holding
  BY DEF Holding, TypeOK, Owning
<1>2. QED
  BY <1>1, HoldingFinite, FS_RemoveElement

\* A task that moves behind the semaphore, or outside it, owns what it owned.
LEMMA HoldingKept ==
  ASSUME TypeOK, NEW t \in Task, NEW place,
         pc[t] \in Owning <=> place \in Owning, pc' = [pc EXCEPT ![t] = place]
  PROVE  Holding' = Holding
  BY DEF Holding, TypeOK, Owning

\* A permit handed over changes hands.
LEMMA HoldingHandOver ==
  ASSUME TypeOK, NEW t \in Task, NEW h \in Task, pc[t] \in Owning, pc[h] \notin Owning,
         pc' = [pc EXCEPT ![t] = "idle", ![h] = "permitted"]
  PROVE  Cardinality(Holding') = Cardinality(Holding)
<1>1. Holding' = (Holding \ {t}) \cup {h} /\ t \in Holding /\ h \notin Holding
  BY DEF Holding, TypeOK, Owning
<1>2. /\ Cardinality(Holding \ {t}) = Cardinality(Holding) - 1
      /\ IsFiniteSet(Holding \ {t})
  BY <1>1, HoldingFinite, FS_RemoveElement
<1>3. Cardinality(Holding') = Cardinality(Holding \ {t}) + 1
  BY <1>1, <1>2, FS_AddElement
<1>4. QED
  BY <1>2, <1>3, HoldingFinite

------------------------------------------------------------------------------
(* Lemmas about the waiter queues                                           *)

\* The first waiter of a queue is one of its waiters, and leaves a queue.
LEMMA HeadOfQueue ==
  ASSUME NEW q \in Seq(Task), NEW place, q # <<>>, QueueOf(q, place)
  PROVE  /\ Head(q) \in Task /\ pc[Head(q)] = place
         /\ Tail(q) \in Seq(Task)
         /\ QueueOf(Tail(q), place)
         /\ \A i \in DOMAIN Tail(q) : Tail(q)[i] # Head(q)
<1>1. Len(q) \in Nat \ {0} /\ DOMAIN q = 1..Len(q)
  BY EmptySeq, LenProperties
<1>2. /\ Head(q) \in Task /\ Tail(q) \in Seq(Task)
      /\ Len(Tail(q)) = Len(q) - 1
      /\ \A i \in 1..Len(Tail(q)) : Tail(q)[i] = q[i + 1]
  BY HeadTailProperties
<1>3. DOMAIN Tail(q) = 1..(Len(q) - 1)
  BY <1>2, LenProperties
<1>4. Head(q) = q[1]
  BY <1>1
<1>5. QED
  BY <1>1, <1>2, <1>3, <1>4 DEF QueueOf

\* A waiter that joins a queue it is not in keeps its waiters distinct.
LEMMA AppendToQueue ==
  ASSUME NEW q \in Seq(Task), NEW t \in Task, NEW place, pc \in [Task -> Place],
         QueueOf(q, place), pc[t] # place, pc' = [pc EXCEPT ![t] = place]
  PROVE  /\ Append(q, t) \in Seq(Task)
         /\ \A i \in DOMAIN Append(q, t) : pc'[Append(q, t)[i]] = place
         /\ \A i, j \in DOMAIN Append(q, t) : i # j => Append(q, t)[i] # Append(q, t)[j]
<1>1. /\ Append(q, t) \in Seq(Task)
      /\ Len(Append(q, t)) = Len(q) + 1
      /\ \A i \in 1..Len(q) : Append(q, t)[i] = q[i]
      /\ Append(q, t)[Len(q) + 1] = t
  BY AppendProperties
<1>2. /\ Len(q) \in Nat /\ DOMAIN q = 1..Len(q)
      /\ DOMAIN Append(q, t) = 1..(Len(q) + 1)
  BY <1>1, LenProperties
<1>3. \A i \in 1..Len(q) : q[i] \in Task /\ q[i] # t
  BY <1>2, ElementOfSeq DEF QueueOf
<1>4. QED
  BY <1>1, <1>2, <1>3 DEF QueueOf

\* A queue without one of its places: those before it, and those behind it.
LEMMA RemovedIs ==
  ASSUME NEW q \in Seq(Task), NEW k \in DOMAIN q
  PROVE  /\ k \in 1..Len(q) /\ Len(q) \in Nat /\ DOMAIN q = 1..Len(q)
         /\ RemoveAt(q, k) \in Seq(Task)
         /\ DOMAIN RemoveAt(q, k) = 1..(Len(q) - 1)
         /\ \A i \in 1..(Len(q) - 1) :
              RemoveAt(q, k)[i] = IF i < k THEN q[i] ELSE q[i + 1]
<1>2. k \in 1..Len(q) /\ Len(q) \in Nat /\ DOMAIN q = 1..Len(q)
  BY LenProperties
<1> DEFINE a == SubSeq(q, 1, k - 1)
           b == SubSeq(q, k + 1, Len(q))
           r == RemoveAt(q, k)
<1>3. /\ a \in Seq(Task) /\ Len(a) = k - 1
      /\ \A i \in 1..(k - 1) : a[i] = q[i]
  BY <1>2, ElementOfSeq, SubSeqProperties
<1>4. /\ b \in Seq(Task) /\ Len(b) = Len(q) - k
      /\ \A i \in 1..(Len(q) - k) : b[i] = q[k + i]
  BY <1>2, ElementOfSeq, SubSeqProperties
<1>5. r = a \o b
  BY DEF RemoveAt
<1> HIDE DEF a, b, r
<1>6. /\ a \o b \in Seq(Task) /\ Len(a \o b) = Len(a) + Len(b)
      /\ \A i \in 1 .. Len(a) + Len(b) :
           (a \o b)[i] = IF i <= Len(a) THEN a[i] ELSE b[i - Len(a)]
  BY <1>3, <1>4, ConcatProperties
<1>7. Len(a) + Len(b) = Len(q) - 1
  BY <1>2, <1>3, <1>4
<1>8. ASSUME NEW i \in 1..(Len(q) - 1)
      PROVE  r[i] = IF i < k THEN q[i] ELSE q[i + 1]
  <2>1. r[i] = IF i <= Len(a) THEN a[i] ELSE b[i - Len(a)]
    BY <1>5, <1>6, <1>7
  <2>2. CASE i < k
    BY <1>2, <1>3, <2>1, <2>2
  <2>3. CASE ~(i < k)
    <3>1. i - (k - 1) \in 1..(Len(q) - k) /\ ~(i <= Len(a))
      BY <1>2, <1>3, <2>3
    <3>2. b[i - (k - 1)] = q[k + (i - (k - 1))]
      BY <1>4, <3>1
    <3>3. k + (i - (k - 1)) = i + 1
      BY <1>2
    <3>4. QED
      BY <1>3, <2>1, <2>3, <3>1, <3>2, <3>3
  <2>4. QED
    BY <2>2, <2>3
<1>9. r \in Seq(Task) /\ DOMAIN r = 1..(Len(q) - 1)
  BY <1>5, <1>6, <1>7, LenProperties
<1>10. QED
  BY <1>2, <1>8, <1>9 DEF r

\* A waiter that leaves a queue leaves the others, and is not in it any more.
LEMMA RemoveFromQueue ==
  ASSUME NEW q \in Seq(Task), NEW t \in Task, NEW place, QueueOf(q, place),
         NEW r \in Without(q, t)
  PROVE  QueueOf(r, place) /\ \A i \in DOMAIN r : r[i] # t
<1>1. PICK k \in DOMAIN q : q[k] = t /\ r = RemoveAt(q, k)
  BY DEF Without
<1>2. k \in 1..Len(q) /\ Len(q) \in Nat /\ DOMAIN q = 1..Len(q)
  BY <1>1, LenProperties
<1>5. \A i \in 1..(Len(q) - 1) : r[i] = IF i < k THEN q[i] ELSE q[i + 1]
  BY <1>1, RemovedIs
<1>6. DOMAIN r = 1..(Len(q) - 1)
  BY <1>1, RemovedIs
<1>7. ASSUME NEW i \in 1..(Len(q) - 1)
      PROVE  r[i] # t /\ pc[r[i]] = place
  <2>1. PICK m \in 1..Len(q) : r[i] = q[m] /\ m # k
    BY <1>2, <1>5
  <2>2. m \in DOMAIN q /\ k \in DOMAIN q
    BY <1>2, <2>1
  <2>3. q[m] # q[k] /\ pc[q[m]] = place
    BY <2>1, <2>2 DEF QueueOf
  <2>4. QED
    BY <1>1, <2>1, <2>3
<1>8. ASSUME NEW i \in 1..(Len(q) - 1), NEW j \in 1..(Len(q) - 1), i # j
      PROVE  r[i] # r[j]
  <2> DEFINE at(m) == IF m < k THEN m ELSE m + 1
  <2>1. r[i] = q[at(i)] /\ r[j] = q[at(j)]
    BY <1>5
  <2>2. at(i) \in 1..Len(q) /\ at(j) \in 1..Len(q) /\ at(i) # at(j)
    BY <1>2, <1>8
  <2> HIDE DEF at
  <2>3. QED
    BY <1>2, <2>1, <2>2 DEF QueueOf
<1>9. QED
  BY <1>6, <1>7, <1>8 DEF QueueOf

------------------------------------------------------------------------------
(* What the steps of acquire do to the state                                *)

\* The window check lists at most one more start and puts the task behind the
\* lock, asleep, or past it.
LEMMA CheckWindowEffect ==
  ASSUME TypeOK, Rpm > 0, NEW t \in Task, CheckWindow(t)
  PROVE  /\ \E place \in {"inside", "sleeping"} : pc' = [pc EXCEPT ![t] = place]
         /\ stamps' \in Seq(Age) /\ recent' \in Seq(Age)
         /\ sleepLeft' \in Age /\ lockHolder' \in Task \cup {NoTask}
<1> DEFINE list == Fresh(stamps)
<1>1. list \in Seq(Age) /\ recent \in Seq(Age)
  BY FreshType DEF TypeOK
<1>2. Len(list) \in Nat /\ \A i \in 1..Len(list) : list[i] \in Age
  BY <1>1, LenProperties, ElementOfSeq
<1>3. CASE Len(list) >= Rpm
  <2>1. SleepForSlot(t, list)
    BY <1>3 DEF CheckWindow
  <2>2. list[1] \in Age
    BY <1>2, <1>3, LimiterAssumption
  <2>3. Window - list[1] \in Age
    BY <2>2, LimiterAssumption DEF Age
  <2>4. QED
    BY <1>1, <2>1, <2>3 DEF SleepForSlot, Move
<1>4. CASE ~(Len(list) >= Rpm)
  <2>1. StartRequest(t, list)
    BY <1>4 DEF CheckWindow
  <2>2. 0 \in Age
    BY LimiterAssumption DEF Age
  <2>3. QED
    BY <1>1, <2>1, <2>2, StartType DEF StartRequest, Move
<1>5. QED
  BY <1>3, <1>4

\* A task past the semaphore ends in one of three places behind it.
LEMMA AdmitEffect ==
  ASSUME TypeOK, QueueOf(lockQueue, "lockQueue"), NEW t \in Task,
         pc[t] # "lockQueue", Admit(t)
  PROVE  /\ \E place \in {"inside", "sleeping", "lockQueue"} : pc' = [pc EXCEPT ![t] = place]
         /\ stamps' \in Seq(Age) /\ recent' \in Seq(Age)
         /\ sleepLeft' \in Age /\ lockHolder' \in Task \cup {NoTask}
         /\ lockQueue' \in Seq(Task) /\ QueueOf(lockQueue, "lockQueue")'
         /\ WindowInUse => WindowInUse'
<1>1. CASE Rpm = 0
  BY <1>1 DEF Admit, Move, TypeOK, QueueOf, Place, WindowInUse
<1>2. CASE Rpm > 0 /\ LockFree
  <2>1. CheckWindow(t) /\ lockQueue' = lockQueue /\ lockQueue = <<>>
    BY <1>2 DEF Admit, LockFree
  <2>2. QED
    BY <1>2, <2>1, CheckWindowEffect DEF TypeOK, QueueOf, WindowInUse
<1>3. CASE Rpm > 0 /\ ~LockFree
  <2>1. /\ lockQueue' = Append(lockQueue, t)
        /\ pc' = [pc EXCEPT ![t] = "lockQueue"]
        /\ UNCHANGED <<lockHolder, stamps, sleepLeft, recent>>
    BY <1>3 DEF Admit, Move
  <2>2. lockQueue \in Seq(Task) /\ pc \in [Task -> Place]
    BY DEF TypeOK
  <2>3. QED
    BY <1>3, <2>1, <2>2, AppendToQueue DEF TypeOK, QueueOf, WindowInUse
<1>4. Rpm = 0 \/ Rpm > 0
  BY LimiterAssumption
<1>5. QED
  BY <1>1, <1>2, <1>3, <1>4

\* A step of a task that is not in a queue leaves the waiters of that queue alone.
LEMMA QueueKept ==
  ASSUME NEW q \in Seq(Task), NEW place, QueueOf(q, place), pc \in [Task -> Place],
         NEW t \in Task, NEW p, pc[t] # place, pc' = [pc EXCEPT ![t] = p]
  PROVE  \A i \in DOMAIN q : pc'[q[i]] = place
<1>1. DOMAIN q = 1..Len(q)
  BY LenProperties
<1>2. \A i \in DOMAIN q : q[i] \in Task
  BY <1>1, ElementOfSeq
<1>3. QED
  BY <1>2 DEF QueueOf

\* Giving a permit back, by a task that owns one, keeps the invariant.
LEMMA ReleaseKeepsIInv ==
  ASSUME IInv, NEW t \in Task, pc[t] \in {"inside", "permitted"}, ReleasePermit(t),
         UNCHANGED <<lockHolder, lockQueue, stamps, sleepLeft, recent, leaked>>
  PROVE  IInv'
<1> USE DEF IInv
<1>1. CASE permitQueue = <<>>
  <2>1. /\ permits' = permits + 1 /\ permitQueue' = permitQueue
        /\ pc' = [pc EXCEPT ![t] = "idle"]
    BY <1>1 DEF ReleasePermit, Move
  <2>2. TypeOK'
    BY <2>1 DEF TypeOK, Place
  <2>3. QueuesDistinct'
    BY <2>1, QueueKept DEF QueuesDistinct, QueueOf, TypeOK
  <2>4. PermitAccounting'
    <3>1. Cardinality(Holding') = Cardinality(Holding) - 1
      BY <2>1, HoldingLoss DEF Owning
    <3>2. /\ permits \in Nat /\ leaked \in Nat /\ Cardinality(Holding) \in Nat
          /\ permits + Cardinality(Holding) + leaked = MaxConcurrency
      BY HoldingFinite DEF TypeOK, PermitAccounting
    <3>3. QED
      BY <2>1, <3>1, <3>2 DEF PermitAccounting
  <2>5. QED
    BY <2>2, <2>3, <2>4 DEF WindowInUse
<1>2. CASE permitQueue # <<>>
  <2> DEFINE h == Head(permitQueue)
  <2>1. /\ permitQueue' = Tail(permitQueue) /\ permits' = permits
        /\ pc' = [pc EXCEPT ![t] = "idle", ![h] = "permitted"]
    BY <1>2 DEF ReleasePermit
  <2>2. /\ h \in Task /\ pc[h] = "permitQueue"
        /\ Tail(permitQueue) \in Seq(Task)
        /\ QueueOf(Tail(permitQueue), "permitQueue")
        /\ \A i \in DOMAIN Tail(permitQueue) : Tail(permitQueue)[i] # h
    BY <1>2, HeadOfQueue DEF QueuesDistinct, TypeOK
  <2> HIDE DEF h
  <2>3. TypeOK'
    BY <2>1, <2>2 DEF TypeOK, Place
  <2>4. QueueOf(permitQueue, "permitQueue")'
    BY <2>1, <2>2, LenProperties, ElementOfSeq DEF QueueOf, TypeOK
  <2>5. QueueOf(lockQueue, "lockQueue")'
    BY <2>1, <2>2, LenProperties, ElementOfSeq DEF QueueOf, QueuesDistinct, TypeOK
  <2>6. PermitAccounting'
    BY <2>1, <2>2, HoldingHandOver, HoldingFinite DEF PermitAccounting, TypeOK, Owning
  <2>7. QED
    BY <2>3, <2>4, <2>5, <2>6 DEF QueuesDistinct, WindowInUse
<1>3. QED
  BY <1>1, <1>2

------------------------------------------------------------------------------
(* The invariant                                                            *)

LEMMA InitIInv == Init => IInv
<1> SUFFICES ASSUME Init PROVE IInv
  OBVIOUS
<1>1. TypeOK
  BY LimiterAssumption DEF Init, TypeOK, Place, Age
<1>2. QueuesDistinct
  BY DEF Init, QueuesDistinct, QueueOf
<1>3. Holding = {}
  BY DEF Init, Holding
<1>4. PermitAccounting
  BY <1>3, FS_EmptySet, LimiterAssumption DEF Init, PermitAccounting
<1>5. WindowInUse
  BY DEF Init, WindowInUse
<1>6. QED
  BY <1>1, <1>2, <1>4, <1>5 DEF IInv

LEMMA StepIInv == IInv /\ [Next]_vars => IInv'
<1> SUFFICES ASSUME IInv, [Next]_vars PROVE IInv'
  OBVIOUS
<1> USE DEF IInv
<1>1. ASSUME NEW t \in Task, EnterFree(t) PROVE IInv'
  <2>1. /\ pc[t] = "idle" /\ permits > 0 /\ permits' = permits - 1
        /\ permitQueue' = permitQueue /\ leaked' = leaked
    BY <1>1 DEF EnterFree
  <2>2. PICK place \in {"inside", "sleeping", "lockQueue"} : pc' = [pc EXCEPT ![t] = place]
    BY <1>1, <2>1, AdmitEffect DEF EnterFree, QueuesDistinct
  <2>3. /\ stamps' \in Seq(Age) /\ recent' \in Seq(Age)
        /\ sleepLeft' \in Age /\ lockHolder' \in Task \cup {NoTask}
        /\ lockQueue' \in Seq(Task) /\ QueueOf(lockQueue, "lockQueue")'
    BY <1>1, <2>1, AdmitEffect DEF EnterFree, QueuesDistinct
  <2>w. WindowInUse'
    BY <1>1, <2>1, AdmitEffect DEF EnterFree, QueuesDistinct
  <2>4. TypeOK'
    BY <2>1, <2>2, <2>3 DEF TypeOK, Place
  <2>5. QueueOf(permitQueue, "permitQueue")'
    BY <2>1, <2>2, QueueKept DEF QueuesDistinct, QueueOf, TypeOK
  <2>6. PermitAccounting'
    <3>1. Cardinality(Holding') = Cardinality(Holding) + 1
      BY <2>1, <2>2, HoldingGain DEF Owning
    <3>2. /\ permits \in Nat /\ leaked \in Nat /\ Cardinality(Holding) \in Nat
          /\ permits + Cardinality(Holding) + leaked = MaxConcurrency
      BY HoldingFinite DEF TypeOK, PermitAccounting
    <3>3. QED
      BY <2>1, <3>1, <3>2 DEF PermitAccounting
  <2>7. QED
    BY <2>3, <2>w, <2>4, <2>5, <2>6 DEF QueuesDistinct
<1>2. ASSUME NEW t \in Task, EnterQueue(t) PROVE IInv'
  <2>1. /\ pc[t] = "idle" /\ permitQueue' = Append(permitQueue, t)
        /\ pc' = [pc EXCEPT ![t] = "permitQueue"]
        /\ UNCHANGED <<permits, lockHolder, lockQueue, stamps, sleepLeft, recent, leaked>>
    BY <1>2 DEF EnterQueue, Move
  <2>2. permitQueue' \in Seq(Task) /\ QueueOf(permitQueue, "permitQueue")'
    BY <2>1, AppendToQueue DEF QueuesDistinct, QueueOf, TypeOK
  <2>3. TypeOK'
    BY <2>1, <2>2 DEF TypeOK, Place
  <2>4. QueueOf(lockQueue, "lockQueue")'
    BY <2>1, QueueKept DEF QueuesDistinct, QueueOf, TypeOK
  <2>5. PermitAccounting'
    BY <2>1, HoldingKept DEF PermitAccounting, TypeOK, Owning
  <2>6. QED
    BY <2>1, <2>2, <2>3, <2>4, <2>5 DEF QueuesDistinct, WindowInUse
<1>3. ASSUME NEW t \in Task, Resume(t) PROVE IInv'
  <2>1. /\ pc[t] = "permitted"
        /\ UNCHANGED <<permits, permitQueue, leaked>>
    BY <1>3 DEF Resume
  <2>2. PICK place \in {"inside", "sleeping", "lockQueue"} : pc' = [pc EXCEPT ![t] = place]
    BY <1>3, <2>1, AdmitEffect DEF Resume, QueuesDistinct
  <2>3. /\ stamps' \in Seq(Age) /\ recent' \in Seq(Age)
        /\ sleepLeft' \in Age /\ lockHolder' \in Task \cup {NoTask}
        /\ lockQueue' \in Seq(Task) /\ QueueOf(lockQueue, "lockQueue")'
    BY <1>3, <2>1, AdmitEffect DEF Resume, QueuesDistinct
  <2>w. WindowInUse'
    BY <1>3, <2>1, AdmitEffect DEF Resume, QueuesDistinct
  <2>4. TypeOK'
    BY <2>1, <2>2, <2>3 DEF TypeOK, Place
  <2>5. QueueOf(permitQueue, "permitQueue")'
    BY <2>1, <2>2, QueueKept DEF QueuesDistinct, QueueOf, TypeOK
  <2>6. PermitAccounting'
    BY <2>1, <2>2, HoldingKept DEF PermitAccounting, TypeOK, Owning
  <2>7. QED
    BY <2>3, <2>w, <2>4, <2>5, <2>6 DEF QueuesDistinct
<1>4. ASSUME NEW t \in Task, InheritLock(t) PROVE IInv'
  <2>1. /\ lockQueue # <<>> /\ t = Head(lockQueue) /\ lockQueue' = Tail(lockQueue)
        /\ UNCHANGED <<permits, permitQueue, leaked>> /\ CheckWindow(t)
    BY <1>4 DEF InheritLock
  <2>2. /\ pc[t] = "lockQueue" /\ Tail(lockQueue) \in Seq(Task)
        /\ QueueOf(Tail(lockQueue), "lockQueue")
        /\ \A i \in DOMAIN Tail(lockQueue) : Tail(lockQueue)[i] # t
    BY <2>1, HeadOfQueue DEF QueuesDistinct, TypeOK
  <2>3. Rpm > 0
    BY <2>1 DEF WindowInUse
  <2>4. PICK place \in {"inside", "sleeping"} : pc' = [pc EXCEPT ![t] = place]
    BY <2>1, <2>3, CheckWindowEffect
  <2>5. /\ stamps' \in Seq(Age) /\ recent' \in Seq(Age)
        /\ sleepLeft' \in Age /\ lockHolder' \in Task \cup {NoTask}
    BY <2>1, <2>3, CheckWindowEffect
  <2>6. TypeOK'
    BY <2>1, <2>2, <2>4, <2>5 DEF TypeOK, Place
  <2>7. QueueOf(permitQueue, "permitQueue")'
    BY <2>1, <2>2, <2>4, QueueKept DEF QueuesDistinct, QueueOf, TypeOK
  <2>8. QueueOf(lockQueue, "lockQueue")'
    BY <2>1, <2>2, <2>4, LenProperties, ElementOfSeq DEF QueueOf, TypeOK
  <2>9. PermitAccounting'
    BY <2>1, <2>2, <2>4, HoldingKept DEF PermitAccounting, TypeOK, Owning
  <2>10. QED
    BY <2>3, <2>6, <2>7, <2>8, <2>9 DEF QueuesDistinct, WindowInUse
<1>5. ASSUME NEW t \in Task, Wake(t) PROVE IInv'
  <2>1. /\ pc[t] = "sleeping" /\ pc' = [pc EXCEPT ![t] = "inside"]
        /\ stamps' = Append(stamps, 0) /\ recent' = Append(recent, 0)
        /\ lockHolder' = NoTask /\ sleepLeft' = 0
        /\ UNCHANGED <<permits, permitQueue, lockQueue, leaked>>
    BY <1>5 DEF Wake, StartRequest, Move
  <2>2. stamps' \in Seq(Age) /\ recent' \in Seq(Age) /\ sleepLeft' \in Age
    BY <2>1, StartType, LimiterAssumption DEF TypeOK, Age
  <2>3. TypeOK'
    BY <2>1, <2>2 DEF TypeOK, Place
  <2>4. QueuesDistinct'
    BY <2>1, QueueKept DEF QueuesDistinct, QueueOf, TypeOK
  <2>5. PermitAccounting'
    BY <2>1, HoldingKept DEF PermitAccounting, TypeOK, Owning
  <2>6. QED
    BY <2>1, <2>3, <2>4, <2>5 DEF WindowInUse
<1>6. ASSUME NEW t \in Task, Exit(t) PROVE IInv'
  BY <1>6, ReleaseKeepsIInv DEF Exit
<1>7. ASSUME NEW t \in Task, Cancel(t) PROVE IInv'
  <2>1. CASE CancelInPermitQueue(t)
    <3>1. /\ pc[t] = "permitQueue" /\ pc' = [pc EXCEPT ![t] = "idle"]
          /\ permitQueue' \in Without(permitQueue, t)
          /\ UNCHANGED <<permits, lockHolder, lockQueue, stamps, sleepLeft, recent, leaked>>
      BY <2>1 DEF CancelInPermitQueue, Move
    <3>2. permitQueue' \in Seq(Task)
      BY <3>1, WithoutType DEF TypeOK
    <3>3. TypeOK'
      BY <3>1, <3>2 DEF TypeOK, Place
    <3>4. /\ QueueOf(permitQueue', "permitQueue")
          /\ \A i \in DOMAIN permitQueue' : permitQueue'[i] # t
      BY <3>1, RemoveFromQueue DEF QueuesDistinct, TypeOK
    <3>5. QueueOf(permitQueue, "permitQueue")'
      BY <3>1, <3>2, <3>4, LenProperties, ElementOfSeq DEF QueueOf, TypeOK
    <3>6. QueueOf(lockQueue, "lockQueue")'
      BY <3>1, QueueKept DEF QueuesDistinct, QueueOf, TypeOK
    <3>7. PermitAccounting'
      BY <3>1, HoldingKept DEF PermitAccounting, TypeOK, Owning
    <3>8. QED
      BY <3>1, <3>3, <3>5, <3>6, <3>7 DEF QueuesDistinct, WindowInUse
  <2>2. CASE CancelPermitted(t)
    BY <2>2, ReleaseKeepsIInv DEF CancelPermitted
  <2>3. CASE CancelInLockQueue(t)
    <3>1. /\ pc[t] = "lockQueue" /\ pc' = [pc EXCEPT ![t] = "idle"]
          /\ lockQueue' \in Without(lockQueue, t) /\ leaked' = leaked + 1
          /\ UNCHANGED <<permits, permitQueue, lockHolder, stamps, sleepLeft, recent>>
      BY <2>3 DEF CancelInLockQueue, Move
    <3>2. lockQueue' \in Seq(Task)
      BY <3>1, WithoutType DEF TypeOK
    <3>3. TypeOK'
      BY <3>1, <3>2 DEF TypeOK, Place
    <3>4. /\ QueueOf(lockQueue', "lockQueue")
          /\ \A i \in DOMAIN lockQueue' : lockQueue'[i] # t
      BY <3>1, RemoveFromQueue DEF QueuesDistinct, TypeOK
    <3>5. QueueOf(lockQueue, "lockQueue")'
      BY <3>1, <3>2, <3>4, LenProperties, ElementOfSeq DEF QueueOf, TypeOK
    <3>6. QueueOf(permitQueue, "permitQueue")'
      BY <3>1, QueueKept DEF QueuesDistinct, QueueOf, TypeOK
    <3>7. PermitAccounting'
      <4>1. Cardinality(Holding') = Cardinality(Holding) - 1
        BY <3>1, HoldingLoss DEF Owning
      <4>2. /\ permits \in Nat /\ leaked \in Nat /\ Cardinality(Holding) \in Nat
            /\ permits + Cardinality(Holding) + leaked = MaxConcurrency
        BY HoldingFinite DEF TypeOK, PermitAccounting
      <4>3. QED
        BY <3>1, <4>1, <4>2 DEF PermitAccounting
    <3>8. lockQueue # <<>>
      BY <3>1, LenProperties DEF Without
    <3>9. QED
      BY <3>3, <3>5, <3>6, <3>7, <3>8 DEF QueuesDistinct, WindowInUse
  <2>4. CASE CancelSleeping(t)
    <3>1. /\ pc[t] = "sleeping" /\ pc' = [pc EXCEPT ![t] = "idle"]
          /\ lockHolder' = NoTask /\ sleepLeft' = 0 /\ leaked' = leaked + 1
          /\ UNCHANGED <<permits, permitQueue, lockQueue, stamps, recent>>
      BY <2>4 DEF CancelSleeping, Move
    <3>2. TypeOK'
      BY <3>1, LimiterAssumption DEF TypeOK, Place, Age
    <3>3. QueuesDistinct'
      BY <3>1, QueueKept DEF QueuesDistinct, QueueOf, TypeOK
    <3>4. PermitAccounting'
      <4>1. Cardinality(Holding') = Cardinality(Holding) - 1
        BY <3>1, HoldingLoss DEF Owning
      <4>2. /\ permits \in Nat /\ leaked \in Nat /\ Cardinality(Holding) \in Nat
            /\ permits + Cardinality(Holding) + leaked = MaxConcurrency
        BY HoldingFinite DEF TypeOK, PermitAccounting
      <4>3. QED
        BY <3>1, <4>1, <4>2 DEF PermitAccounting
    <3>5. QED
      BY <3>1, <3>2, <3>3, <3>4 DEF WindowInUse
  <2>5. QED
    BY <1>7, <2>1, <2>2, <2>3, <2>4 DEF Cancel
<1>8. CASE Tick
  <2>1. /\ stamps' = Older(stamps) /\ recent' = Fresh(Older(recent))
        /\ sleepLeft' = IF sleepLeft > 0 THEN sleepLeft - 1 ELSE 0
        /\ UNCHANGED <<pc, permits, permitQueue, lockHolder, lockQueue, leaked>>
    BY <1>8 DEF Tick
  <2>2. stamps' \in Seq(Age) /\ recent' \in Seq(Age)
    BY <2>1, OlderType, FreshType DEF TypeOK
  <2>3. sleepLeft' \in Age
    BY <2>1, LimiterAssumption DEF TypeOK, Age
  <2>4. TypeOK'
    BY <2>1, <2>2, <2>3 DEF TypeOK
  <2>5. QED
    BY <2>1, <2>4 DEF QueuesDistinct, QueueOf, WindowInUse, PermitAccounting, Holding
<1>9. CASE UNCHANGED vars
  BY <1>9 DEF vars, TypeOK, QueuesDistinct, QueueOf, WindowInUse, PermitAccounting, Holding
<1>10. QED
  BY <1>1, <1>2, <1>3, <1>4, <1>5, <1>6, <1>7, <1>8, <1>9 DEF Next, Step

LEMMA Invariance == Spec => []IInv
  BY InitIInv, StepIInv, PTL DEF Spec

------------------------------------------------------------------------------
(* Theorems                                                                 *)

\* Every reachable state of the limiter has its type: in particular the list of
\* start times never makes the computed sleep leave 0..60 seconds.
THEOREM TypeCorrect == Spec => []TypeOK
<1>1. IInv => TypeOK
  BY DEF IInv
<1>2. QED
  BY <1>1, Invariance, PTL

\* No permit is forged and none forgotten anywhere but behind the lock, whatever
\* the number of tasks, their order and their cancellations.
THEOREM Accounting == Spec => []PermitAccounting
<1>1. IInv => PermitAccounting
  BY DEF IInv
<1>2. QED
  BY <1>1, Invariance, PTL

\* max_concurrency holds for every number of tasks: the requests in flight own
\* permits, and all the permits there are amount to max_concurrency.
THEOREM Concurrency == Spec => []ConcurrencyBound
<1>1. IInv => ConcurrencyBound
  <2> SUFFICES ASSUME IInv PROVE ConcurrencyBound
    OBVIOUS
  <2>1. Inside \subseteq Holding
    BY DEF Inside, Holding
  <2>2. Cardinality(Inside) <= Cardinality(Holding) /\ Cardinality(Inside) \in Nat
    BY <2>1, HoldingFinite, FS_Subset, FS_CardinalityType
  <2>3. QED
    BY <2>2, HoldingFinite, LimiterAssumption
    DEF IInv, TypeOK, PermitAccounting, ConcurrencyBound
<1>2. QED
  BY <1>1, Invariance, PTL

------------------------------------------------------------------------------
(* The sliding window.  acquire trusts its list of start times: that what   *)
(* has expired is in front, that no start in the window is missing, and     *)
(* that who sleeps with the lock sleeps for the oldest of a full list.      *)
(* These are what keeps the rate, and they are inductive only together      *)
(* with it.                                                                 *)

Sorted(s) == \A i, j \in DOMAIN s : i < j => s[i] >= s[j]

\* How many entries of a list have expired.
Expired(s) == Cardinality({i \in DOMAIN s : s[i] >= Window})

WindowIInv == IInv /\ WindowListed /\ RateBound /\ (lockHolder # NoTask => Rpm > 0)

------------------------------------------------------------------------------
(* Lemmas about lists of ages                                               *)

\* In a sorted list what has expired is a prefix.
LEMMA ExpiredPrefix ==
  ASSUME NEW s \in Seq(Age), Sorted(s)
  PROVE  /\ Expired(s) \in 0..Len(s)
         /\ \A i \in 1..Len(s) : s[i] >= Window <=> i <= Expired(s)
<1> DEFINE n == Len(s)
           E == {i \in DOMAIN s : s[i] >= Window}
<1>1. n \in Nat /\ DOMAIN s = 1..n
  BY LenProperties
<1>2. \A i \in 1..n : s[i] \in Int /\ Window \in Int
  BY ElementOfSeq, LimiterAssumption DEF Age
<1>3. \A i \in Nat : IsFiniteSet(1..i) /\ Cardinality(1..i) = i
  BY FS_Interval
<1>4. IsFiniteSet(E) /\ Cardinality(E) \in Nat /\ Cardinality(E) <= n
  BY <1>1, <1>3, FS_Subset, FS_CardinalityType
<1>5. ASSUME NEW i \in 1..n, s[i] >= Window PROVE i <= Cardinality(E)
  <2>1. 1..i \subseteq E
    <3> SUFFICES ASSUME NEW j \in 1..i PROVE j \in E
      OBVIOUS
    <3>1. j \in 1..n /\ (j = i \/ j < i)
      BY <1>1
    <3>2. j < i => s[j] >= s[i]
      BY <1>1, <3>1 DEF Sorted
    <3> QED BY <1>1, <1>2, <1>5, <3>1, <3>2
  <2>2. Cardinality(1..i) <= Cardinality(E)
    BY <1>4, <2>1, FS_Subset
  <2>3. QED
    BY <1>3, <2>2
<1>6. ASSUME NEW i \in 1..n, ~(s[i] >= Window) PROVE ~(i <= Cardinality(E))
  <2>1. E \subseteq 1..(i - 1)
    <3> SUFFICES ASSUME NEW j \in E PROVE j \in 1..(i - 1)
      OBVIOUS
    <3>1. j \in 1..n /\ s[j] >= Window
      BY <1>1
    <3>2. ~(i < j)
      <4>1. i < j => s[i] >= s[j]
        BY <1>1, <3>1 DEF Sorted
      <4> QED BY <4>1, <1>2, <1>6, <3>1
    <3>3. j # i
      BY <1>6, <3>1
    <3>4. i \in Nat /\ j \in Nat
      BY <1>1, <3>1
    <3> HIDE DEF n, E
    <3> QED BY <1>1, <3>1, <3>2, <3>3, <3>4
  <2>2. i - 1 \in Nat /\ IsFiniteSet(1..(i - 1)) /\ Cardinality(1..(i - 1)) = i - 1
    BY <1>1, <1>3
  <2>3. Cardinality(E) <= i - 1
    BY <2>1, <2>2, FS_Subset
  <2>4. QED
    BY <1>4, <2>3
<1>7. QED
  BY <1>1, <1>4, <1>5, <1>6 DEF Expired

\* The prefix is told by where the ages fall below Window.
LEMMA ExpiredIs ==
  ASSUME NEW s \in Seq(Age), Sorted(s), NEW k \in 0..Len(s),
         \A i \in 1..Len(s) : s[i] >= Window <=> i <= k
  PROVE  Expired(s) = k
<1>1. Len(s) \in Nat /\ Expired(s) \in 0..Len(s)
  BY LenProperties, ExpiredPrefix
<1>2. \A i \in 1..Len(s) : i <= k <=> i <= Expired(s)
  BY ExpiredPrefix
<1>3. CASE k < Expired(s)
  BY <1>1, <1>2, <1>3
<1>4. CASE Expired(s) < k
  BY <1>1, <1>2, <1>4
<1>5. QED
  BY <1>1, <1>3, <1>4

\* What is left of a list when it is pruned.
LEMMA FreshIs ==
  ASSUME NEW s \in Seq(Age), Sorted(s)
  PROVE  /\ Fresh(s) \in Seq(Age) /\ Len(Fresh(s)) = Len(s) - Expired(s)
         /\ \A i \in 1..Len(Fresh(s)) : Fresh(s)[i] = s[Expired(s) + i]
         /\ \A i \in 1..Len(Fresh(s)) : Fresh(s)[i] < Window
<1> DEFINE k == Expired(s)
<1>1. Len(s) \in Nat /\ k \in 0..Len(s)
  BY LenProperties, ExpiredPrefix
<1>2. \A i \in k + 1 .. Len(s) : s[i] \in Age
  BY <1>1, ElementOfSeq
<1>3. Fresh(s) = SubSeq(s, k + 1, Len(s))
  BY DEF Fresh, Expired
<1> HIDE DEF k
<1>4. /\ Fresh(s) \in Seq(Age) /\ Len(Fresh(s)) = Len(s) - k
      /\ \A i \in 1..(Len(s) - k) : Fresh(s)[i] = s[k + i]
  <2>1. /\ SubSeq(s, k + 1, Len(s)) \in Seq(Age)
        /\ Len(SubSeq(s, k + 1, Len(s))) = IF k + 1 <= Len(s) THEN Len(s) - (k + 1) + 1 ELSE 0
        /\ \A i \in 1 .. Len(s) - (k + 1) + 1 :
             SubSeq(s, k + 1, Len(s))[i] = s[(k + 1) + i - 1]
    BY <1>1, <1>2, SubSeqProperties
  <2>2. QED
    BY <1>1, <1>3, <2>1
<1>5. \A i \in 1..(Len(s) - k) : s[k + i] < Window
  <2>1. \A j \in 1..Len(s) : s[j] >= Window <=> j <= k
    BY ExpiredPrefix DEF k
  <2>2. \A j \in 1..Len(s) : s[j] \in Int /\ Window \in Int
    BY ElementOfSeq, LimiterAssumption DEF Age
  <2>3. QED
    BY <1>1, <2>1, <2>2
<1>6. QED
  BY <1>4, <1>5 DEF k

\* A list without expired entries is left as it is.
LEMMA FreshNone ==
  ASSUME NEW s \in Seq(Age), Sorted(s), \A i \in 1..Len(s) : s[i] < Window
  PROVE  Fresh(s) = s
<1>1. Len(s) \in Nat /\ \A i \in 1..Len(s) : s[i] \in Int /\ Window \in Int
  BY LenProperties, ElementOfSeq, LimiterAssumption DEF Age
<1>2. Expired(s) = 0
  BY <1>1, ExpiredIs
<1>3. QED
  BY <1>1, <1>2, FreshIs, SeqEqual

\* Pruning keeps the order.
LEMMA FreshSorted ==
  ASSUME NEW s \in Seq(Age), Sorted(s)
  PROVE  Sorted(Fresh(s)) /\ Fresh(Fresh(s)) = Fresh(s)
<1>1. /\ Fresh(s) \in Seq(Age)
      /\ Len(Fresh(s)) = Len(s) - Expired(s)
      /\ \A i \in 1..Len(Fresh(s)) : Fresh(s)[i] = s[Expired(s) + i]
      /\ \A i \in 1..Len(Fresh(s)) : Fresh(s)[i] < Window
  BY FreshIs
<1>2. Len(s) \in Nat /\ Expired(s) \in 0..Len(s) /\ DOMAIN s = 1..Len(s)
  BY LenProperties, ExpiredPrefix
<1>3. DOMAIN Fresh(s) = 1..Len(Fresh(s))
  BY <1>1, LenProperties
<1>4. Sorted(Fresh(s))
  <2> SUFFICES ASSUME NEW i \in DOMAIN Fresh(s), NEW j \in DOMAIN Fresh(s), i < j
               PROVE  Fresh(s)[i] >= Fresh(s)[j]
    BY DEF Sorted
  <2>1. /\ Expired(s) + i \in DOMAIN s /\ Expired(s) + j \in DOMAIN s
        /\ Expired(s) + i < Expired(s) + j
    BY <1>1, <1>2, <1>3
  <2>2. s[Expired(s) + i] >= s[Expired(s) + j]
    BY <2>1 DEF Sorted
  <2>3. QED
    BY <1>1, <1>3, <2>2
<1>5. QED
  BY <1>1, <1>4, FreshNone

\* A start that is listed now comes last, and is not expired.
LEMMA StartListed ==
  ASSUME NEW s \in Seq(Age), Sorted(s)
  PROVE  /\ Append(s, 0) \in Seq(Age) /\ Sorted(Append(s, 0))
         /\ Fresh(Append(s, 0)) = Append(Fresh(s), 0)
         /\ Len(Append(s, 0)) = Len(s) + 1
<1> DEFINE a == Append(s, 0)
           f == Fresh(s)
           n == Len(s)
           k == Expired(s)
<1>1. 0 \in Age /\ Window \in Nat \ {0} /\ n \in Nat /\ DOMAIN s = 1..n
  BY LimiterAssumption, LenProperties DEF Age
<1>2. /\ a \in Seq(Age) /\ Len(a) = n + 1
      /\ \A i \in 1..n : a[i] = s[i]
      /\ a[n + 1] = 0
  BY <1>1, AppendProperties
<1>3. \A i \in 1..n : s[i] \in Int /\ s[i] >= 0
  BY <1>1, ElementOfSeq DEF Age
<1>4. DOMAIN a = 1..(n + 1)
  BY <1>2, LenProperties
<1>5. Sorted(a)
  BY <1>1, <1>2, <1>3, <1>4 DEF Sorted
<1>6. k \in 0..n /\ \A i \in 1..n : s[i] >= Window <=> i <= k
  BY ExpiredPrefix
<1>7. /\ f \in Seq(Age) /\ Len(f) = n - k
      /\ \A i \in 1..Len(f) : f[i] = s[k + i]
  BY FreshIs
<1> HIDE DEF a, f, n, k
<1>8. Expired(a) = k
  <2>1. k \in 0..Len(a) /\ \A i \in 1..Len(a) : a[i] >= Window <=> i <= k
    BY <1>1, <1>2, <1>6
  <2>2. QED
    BY <1>2, <1>5, <2>1, ExpiredIs
<1>9. /\ Fresh(a) \in Seq(Age) /\ Len(Fresh(a)) = n + 1 - k
      /\ \A i \in 1..Len(Fresh(a)) : Fresh(a)[i] = a[k + i]
  <2>1. /\ Fresh(a) \in Seq(Age) /\ Len(Fresh(a)) = Len(a) - Expired(a)
        /\ \A i \in 1..Len(Fresh(a)) : Fresh(a)[i] = a[Expired(a) + i]
    BY <1>2, <1>5, FreshIs
  <2>2. QED
    BY <1>1, <1>2, <1>6, <1>8, <2>1
<1>10. /\ Append(f, 0) \in Seq(Age) /\ Len(Append(f, 0)) = n - k + 1
       /\ \A i \in 1..(n - k) : Append(f, 0)[i] = f[i]
       /\ Append(f, 0)[n - k + 1] = 0
  BY <1>1, <1>7, AppendProperties
<1>11. \A i \in 1..(n + 1 - k) : Fresh(a)[i] = Append(f, 0)[i]
  BY <1>1, <1>2, <1>6, <1>7, <1>9, <1>10
<1>12. Fresh(a) = Append(f, 0)
  BY <1>1, <1>6, <1>9, <1>10, <1>11, SeqEqual
<1>13. QED
  BY <1>2, <1>5, <1>12 DEF a, f, n

\* A tick keeps the order, and it does not matter whether what had expired before
\* it is pruned before it or after it.
LEMMA OlderListed ==
  ASSUME NEW s \in Seq(Age), Sorted(s)
  PROVE  /\ Older(s) \in Seq(Age) /\ Sorted(Older(s)) /\ Len(Older(s)) = Len(s)
         /\ Fresh(Older(Fresh(s))) = Fresh(Older(s))
         /\ Len(Fresh(Older(s))) <= Len(Fresh(s))
<1> DEFINE Aged(u) == /\ Older(u) \in Seq(Age) /\ Sorted(Older(u)) /\ Len(Older(u)) = Len(u)
                      /\ \A i \in 1..Len(u) :
                           Older(u)[i] = IF u[i] < Window THEN u[i] + 1 ELSE Window
<1>1. ASSUME NEW u \in Seq(Age), Sorted(u) PROVE Aged(u)
  <2>1. Len(u) \in Nat /\ DOMAIN u = 1..Len(u)
    BY LenProperties
  <2>2. \A i \in 1..Len(u) : u[i] \in Int /\ u[i] >= 0 /\ u[i] <= Window /\ Window \in Int
    BY ElementOfSeq, LimiterAssumption DEF Age
  <2>3. /\ Older(u) \in Seq(Age)
        /\ \A i \in 1..Len(u) : Older(u)[i] = IF u[i] < Window THEN u[i] + 1 ELSE Window
    BY <2>1, OlderType DEF Older
  <2>4. DOMAIN Older(u) = 1..Len(u)
    BY <2>1 DEF Older
  <2>5. Len(Older(u)) = Len(u)
    BY <2>1, <2>3, <2>4, LenProperties
  <2>6. Sorted(Older(u))
    BY <1>1, <2>1, <2>2, <2>3, <2>4 DEF Sorted
  <2>7. QED
    BY <2>3, <2>5, <2>6
<1> DEFINE n == Len(s)
           f == Fresh(s)
           k == Expired(s)
           m == Expired(Older(s))
<1>2. Aged(s)
  BY <1>1
<1>3. /\ f \in Seq(Age) /\ Sorted(f) /\ Len(f) = n - k
      /\ \A i \in 1..Len(f) : f[i] = s[k + i]
  BY FreshIs, FreshSorted
<1>4. Aged(f)
  BY <1>1, <1>3
<1>5. /\ n \in Nat /\ Window \in Nat
      /\ \A i \in 1..n : s[i] \in Int
  BY LenProperties, ElementOfSeq, LimiterAssumption DEF Age
<1>6. k \in 0..n /\ \A i \in 1..n : s[i] >= Window <=> i <= k
  BY ExpiredPrefix
<1>7. m \in 0..n /\ \A i \in 1..n : Older(s)[i] >= Window <=> i <= m
  BY <1>2, ExpiredPrefix
<1>8. /\ Fresh(Older(s)) \in Seq(Age) /\ Len(Fresh(Older(s))) = n - m
      /\ \A i \in 1..Len(Fresh(Older(s))) : Fresh(Older(s))[i] = Older(s)[m + i]
  BY <1>2, FreshIs
<1> HIDE DEF n, f, k, m
<1>9. k <= m
  <2>1. \A i \in 1..n : i <= k => Older(s)[i] >= Window
    BY <1>2, <1>5, <1>6 DEF n
  <2>2. CASE k = 0
    BY <1>6, <1>7, <2>2
  <2>3. CASE k > 0
    <3>1. k \in 1..n /\ Older(s)[k] >= Window
      BY <1>5, <1>6, <2>1, <2>3
    <3>2. QED
      BY <1>7, <3>1
  <2>4. QED
    BY <1>6, <2>2, <2>3
<1>10. \A i \in 1..(n - k) : Older(f)[i] = Older(s)[k + i]
  BY <1>2, <1>3, <1>4, <1>5, <1>6 DEF n
<1>11. Expired(Older(f)) = m - k
  <2>1. m - k \in 0..Len(Older(f))
    BY <1>3, <1>4, <1>5, <1>6, <1>7, <1>9
  <2>2. \A i \in 1..Len(Older(f)) : Older(f)[i] >= Window <=> i <= m - k
    <3> SUFFICES ASSUME NEW i \in 1..(n - k) PROVE Older(f)[i] >= Window <=> i <= m - k
      BY <1>3, <1>4
    <3>1. k + i \in 1..n /\ Older(f)[i] = Older(s)[k + i]
      BY <1>5, <1>6, <1>10
    <3>2. Older(s)[k + i] >= Window <=> k + i <= m
      BY <1>7, <3>1
    <3>3. QED
      BY <1>5, <1>6, <1>7, <3>1, <3>2
  <2>3. QED
    BY <1>4, <2>1, <2>2, ExpiredIs
<1>12. /\ Fresh(Older(f)) \in Seq(Age) /\ Len(Fresh(Older(f))) = (n - k) - (m - k)
       /\ \A i \in 1..Len(Fresh(Older(f))) : Fresh(Older(f))[i] = Older(f)[(m - k) + i]
  BY <1>3, <1>4, <1>11, FreshIs
<1>13. \A i \in 1..(n - m) : Fresh(Older(f))[i] = Fresh(Older(s))[i]
  <2> SUFFICES ASSUME NEW i \in 1..(n - m) PROVE Fresh(Older(f))[i] = Fresh(Older(s))[i]
    OBVIOUS
  <2>1. (m - k) + i \in 1..(n - k) /\ k + ((m - k) + i) = m + i
    BY <1>5, <1>6, <1>7, <1>9
  <2>2. (n - k) - (m - k) = n - m
    BY <1>5, <1>6, <1>7
  <2>3. QED
    BY <1>8, <1>10, <1>12, <2>1, <2>2
<1>14. Fresh(Older(f)) = Fresh(Older(s))
  <2>1. (n - k) - (m - k) = n - m
    BY <1>5, <1>6, <1>7
  <2>2. QED
    BY <1>8, <1>12, <1>13, <2>1, SeqEqual
<1>15. Len(Fresh(Older(s))) <= Len(Fresh(s))
  BY <1>3, <1>5, <1>6, <1>7, <1>8, <1>9 DEF f
<1>16. QED
  BY <1>2, <1>14, <1>15 DEF f, n
------------------------------------------------------------------------------
(* What the steps of acquire do to the window                               *)

\* A step that moves tasks which do not sleep to places where they do not, and
\* leaves the window alone.
LEMMA WindowKept ==
  ASSUME WindowIInv, IInv', UNCHANGED <<lockHolder, stamps, sleepLeft, recent>>,
         \A u \in Task : pc'[u] = "sleeping" <=> pc[u] = "sleeping"
  PROVE  WindowIInv'
<1>1. WindowListed'
  BY DEF WindowIInv, WindowListed
<1>2. QED
  BY <1>1 DEF WindowIInv, RateBound

\* What acquire does once it has the lock.
LEMMA CheckWindowKeeps ==
  ASSUME WindowIInv, IInv', Rpm > 0, lockHolder = NoTask, NEW t \in Task, CheckWindow(t)
  PROVE  WindowIInv'
<1> DEFINE list == Fresh(stamps)
<1>1. /\ stamps \in Seq(Age) /\ Sorted(stamps) /\ list = recent /\ pc \in [Task -> Place]
      /\ recent \in Seq(Age) /\ Len(recent) <= Rpm /\ Rpm \in Nat /\ NoTask \notin Task
  BY LimiterAssumption DEF WindowIInv, WindowListed, RateBound, IInv, TypeOK, Sorted
<1>2. list \in Seq(Age) /\ Sorted(list) /\ Fresh(list) = list /\ Len(list) \in Nat
  BY <1>1, FreshIs, FreshSorted, LenProperties
<1>3. \A u \in Task : pc[u] # "sleeping"
  BY <1>1 DEF WindowIInv, WindowListed
<1>4. CASE Len(list) >= Rpm
  <2>1. SleepForSlot(t, list)
    BY <1>4 DEF CheckWindow
  <2> HIDE DEF list
  <2>2. /\ stamps' = list /\ recent' = list /\ lockHolder' = t /\ sleepLeft' = Window - list[1]
        /\ pc' = [pc EXCEPT ![t] = "sleeping"]
    BY <1>1, <2>1 DEF SleepForSlot, Move
  <2>3. Len(list) = Rpm
    BY <1>1, <1>2, <1>4
  <2>4. \A u \in Task : pc'[u] = "sleeping" <=> lockHolder' = u
    BY <1>1, <1>3, <2>2
  <2>5. WindowListed'
    BY <1>2, <2>2, <2>3, <2>4 DEF WindowListed, Sorted
  <2>6. RateBound'
    BY <1>1, <2>2, <2>3 DEF RateBound
  <2>7. QED
    BY <2>5, <2>6 DEF WindowIInv
<1>5. CASE ~(Len(list) >= Rpm)
  <2>1. StartRequest(t, list)
    BY <1>5 DEF CheckWindow
  <2> HIDE DEF list
  <2>2. /\ stamps' = Append(list, 0) /\ recent' = Append(list, 0) /\ lockHolder' = NoTask
        /\ pc' = [pc EXCEPT ![t] = "inside"]
    BY <1>1, <2>1 DEF StartRequest, Move
  <2>3. /\ Sorted(Append(list, 0)) /\ Fresh(Append(list, 0)) = Append(list, 0)
        /\ Len(Append(list, 0)) = Len(list) + 1
    BY <1>2, StartListed
  <2>4. \A u \in Task : pc'[u] = "sleeping" <=> lockHolder' = u
    BY <1>1, <1>3, <2>2
  <2>5. WindowListed'
    BY <2>2, <2>3, <2>4 DEF WindowListed, Sorted
  <2>6. RateBound'
    BY <1>1, <1>2, <1>5, <2>2, <2>3 DEF RateBound
  <2>7. QED
    BY <2>2, <2>5, <2>6 DEF WindowIInv
<1>6. QED
  BY <1>4, <1>5

LEMMA AdmitKeeps ==
  ASSUME WindowIInv, IInv', NEW t \in Task, pc[t] # "sleeping", Admit(t)
  PROVE  WindowIInv'
<1>1. pc \in [Task -> Place]
  BY DEF WindowIInv, IInv, TypeOK
<1>2. CASE Rpm > 0 /\ LockFree
  BY <1>2, CheckWindowKeeps DEF Admit, LockFree
<1>3. CASE ~(Rpm > 0 /\ LockFree)
  <2>1. /\ UNCHANGED <<lockHolder, stamps, sleepLeft, recent>>
        /\ \E place \in {"inside", "lockQueue"} : pc' = [pc EXCEPT ![t] = place]
    BY <1>3 DEF Admit, Move
  <2>2. \A u \in Task : pc'[u] = "sleeping" <=> pc[u] = "sleeping"
    BY <1>1, <2>1
  <2>3. QED
    BY <2>1, <2>2, WindowKept
<1>4. QED
  BY <1>2, <1>3

\* The sleep is over: the oldest start, for which it was, has just expired.
LEMMA WakeKeeps ==
  ASSUME WindowIInv, IInv', NEW t \in Task, Wake(t)
  PROVE  WindowIInv'
<1>1. /\ stamps \in Seq(Age) /\ Sorted(stamps) /\ Fresh(stamps) = recent
      /\ lockHolder = t /\ NoTask \notin Task /\ pc \in [Task -> Place] /\ Rpm \in Nat
      /\ Window \in Nat
  BY LimiterAssumption DEF Wake, WindowIInv, WindowListed, IInv, TypeOK, Sorted
<1>2. Rpm > 0 /\ Len(stamps) = Rpm /\ sleepLeft = Window - stamps[1] /\ sleepLeft = 0
  BY <1>1 DEF Wake, WindowIInv, WindowListed
<1>3. /\ stamps' = Append(stamps, 0) /\ recent' = Append(recent, 0) /\ lockHolder' = NoTask
      /\ pc' = [pc EXCEPT ![t] = "inside"]
  BY DEF Wake, StartRequest, Move
<1>4. Sorted(stamps') /\ Fresh(stamps') = recent'
  BY <1>1, <1>3, StartListed
<1>5. Len(recent) < Rpm /\ Len(recent) \in Nat
  <2>1. 1 \in 1..Len(stamps) /\ stamps[1] >= Window
    BY <1>1, <1>2, ElementOfSeq DEF Age
  <2>2. Expired(stamps) \in 0..Len(stamps) /\ 1 <= Expired(stamps)
    BY <1>1, <2>1, ExpiredPrefix
  <2>3. Len(recent) = Len(stamps) - Expired(stamps)
    BY <1>1, FreshIs
  <2>4. QED
    BY <1>1, <1>2, <2>2, <2>3
<1>6. RateBound'
  <2>1. recent \in Seq(Age) /\ 0 \in Age
    BY <1>1, FreshIs, LimiterAssumption DEF Age
  <2>2. Len(recent') = Len(recent) + 1
    BY <1>3, <2>1, AppendProperties
  <2>3. QED
    BY <1>1, <1>5, <2>2 DEF RateBound
<1>7. \A u \in Task : pc'[u] = "sleeping" <=> lockHolder' = u
  BY <1>1, <1>3 DEF WindowIInv, WindowListed
<1>8. WindowListed'
  BY <1>3, <1>4, <1>7 DEF WindowListed, Sorted
<1>9. QED
  BY <1>3, <1>6, <1>8 DEF WindowIInv

\* Time passes: the sleeper's wait and the age of its start go together.
LEMMA TickKeeps ==
  ASSUME WindowIInv, IInv', Tick
  PROVE  WindowIInv'
<1>1. /\ stamps \in Seq(Age) /\ Sorted(stamps) /\ Fresh(stamps) = recent
      /\ Rpm \in Nat /\ Window \in Nat \ {0}
  BY LimiterAssumption DEF WindowIInv, WindowListed, IInv, TypeOK, Sorted
<1>2. /\ stamps' = Older(stamps) /\ recent' = Fresh(Older(recent))
      /\ sleepLeft' = IF sleepLeft > 0 THEN sleepLeft - 1 ELSE 0
      /\ UNCHANGED <<pc, lockHolder>>
  BY DEF Tick
<1>3. /\ Older(stamps) \in Seq(Age) /\ Sorted(stamps') /\ Len(stamps') = Len(stamps)
      /\ Fresh(stamps') = recent'
      /\ Len(recent') <= Len(recent)
  BY <1>1, <1>2, OlderListed
<1>4. RateBound'
  <2>1. Len(recent) \in Nat /\ Len(recent') \in Nat
    BY <1>1, <1>2, <1>3, FreshIs, LenProperties
  <2>2. QED
    BY <1>1, <1>3, <2>1 DEF WindowIInv, RateBound
<1>5. lockHolder' # NoTask => Len(stamps') = Rpm /\ sleepLeft' = Window - stamps'[1]
  <2> SUFFICES ASSUME lockHolder # NoTask
               PROVE  Len(stamps') = Rpm /\ sleepLeft' = Window - stamps'[1]
    BY <1>2
  <2>1. Rpm > 0 /\ Len(stamps) = Rpm /\ sleepLeft = Window - stamps[1]
    BY DEF WindowIInv, WindowListed
  <2>2. DOMAIN stamps = 1..Rpm /\ 1 \in 1..Rpm
    BY <1>1, <2>1, LenProperties
  <2>3. stamps[1] \in 0..Window
    BY <1>1, <2>1, <2>2, ElementOfSeq DEF Age
  <2>4. stamps'[1] = IF stamps[1] < Window THEN stamps[1] + 1 ELSE Window
    BY <1>2, <2>2 DEF Older
  <2>5. QED
    BY <1>1, <1>2, <1>3, <2>1, <2>3, <2>4
<1>6. WindowListed'
  BY <1>2, <1>3, <1>5 DEF WindowIInv, WindowListed, Sorted
<1>7. QED
  BY <1>2, <1>4, <1>6 DEF WindowIInv

------------------------------------------------------------------------------
(* The invariant                                                            *)

LEMMA InitWindow == Init => WindowIInv
<1> SUFFICES ASSUME Init PROVE WindowIInv
  OBVIOUS
<1>1. IInv /\ stamps = <<>> /\ recent = <<>> /\ lockHolder = NoTask
  BY InitIInv DEF Init
<1>2. <<>> \in Seq(Age) /\ Len(<<>>) = 0
  BY EmptySeq
<1>3. Sorted(<<>>)
  BY DEF Sorted
<1>4. Fresh(<<>>) = <<>>
  <2>1. \A i \in 1..Len(<<>>) : (<<>>)[i] < Window
    BY <1>2
  <2>2. QED
    BY <1>2, <1>3, <2>1, FreshNone
<1>5. WindowListed
  BY <1>1, <1>3, <1>4, LimiterAssumption DEF Init, WindowListed, Sorted
<1>6. RateBound
  BY <1>1, <1>2, LimiterAssumption DEF RateBound
<1>7. QED
  BY <1>1, <1>5, <1>6 DEF WindowIInv

LEMMA StepWindow == WindowIInv /\ [Next]_vars => WindowIInv'
<1> SUFFICES ASSUME WindowIInv, [Next]_vars PROVE WindowIInv'
  OBVIOUS
<1>1. IInv' /\ pc \in [Task -> Place] /\ NoTask \notin Task
  BY StepIInv, LimiterAssumption DEF WindowIInv, IInv, TypeOK
<1>2. CASE UNCHANGED vars
  BY <1>1, <1>2, WindowKept DEF vars
<1>3. CASE Tick
  BY <1>1, <1>3, TickKeeps
<1>4. ASSUME NEW t \in Task, EnterFree(t) \/ Resume(t) PROVE WindowIInv'
  BY <1>1, <1>4, AdmitKeeps DEF EnterFree, Resume
<1>5. ASSUME NEW t \in Task, InheritLock(t) PROVE WindowIInv'
  <2>1. Rpm > 0
    BY <1>5 DEF InheritLock, WindowIInv, IInv, WindowInUse
  <2>2. QED
    BY <1>1, <1>5, <2>1, CheckWindowKeeps DEF InheritLock
<1>6. ASSUME NEW t \in Task, Wake(t) PROVE WindowIInv'
  BY <1>1, <1>6, WakeKeeps
<1>7. ASSUME NEW t \in Task, EnterQueue(t) \/ CancelInPermitQueue(t) \/ CancelInLockQueue(t)
      PROVE  WindowIInv'
  <2>1. /\ UNCHANGED <<lockHolder, stamps, sleepLeft, recent>> /\ pc[t] # "sleeping"
        /\ \E place \in {"idle", "permitQueue"} : pc' = [pc EXCEPT ![t] = place]
    BY <1>7 DEF EnterQueue, CancelInPermitQueue, CancelInLockQueue, Move
  <2>2. \A u \in Task : pc'[u] = "sleeping" <=> pc[u] = "sleeping"
    BY <1>1, <2>1
  <2>3. QED
    BY <1>1, <2>1, <2>2, WindowKept
<1>8. ASSUME NEW t \in Task, Exit(t) \/ CancelPermitted(t) PROVE WindowIInv'
  <2>1. /\ UNCHANGED <<lockHolder, stamps, sleepLeft, recent>> /\ pc[t] # "sleeping"
        /\ ReleasePermit(t)
    BY <1>8 DEF Exit, CancelPermitted
  <2>2. permitQueue # <<>> => Head(permitQueue) \in Task /\ pc[Head(permitQueue)] = "permitQueue"
    BY HeadOfQueue DEF WindowIInv, IInv, TypeOK, QueuesDistinct
  <2>3. \A u \in Task : pc'[u] = "sleeping" <=> pc[u] = "sleeping"
    BY <1>1, <2>1, <2>2 DEF ReleasePermit, Move
  <2>4. QED
    BY <1>1, <2>1, <2>3, WindowKept
<1>9. ASSUME NEW t \in Task, CancelSleeping(t) PROVE WindowIInv'
  <2>1. /\ lockHolder' = NoTask /\ UNCHANGED <<stamps, recent>>
        /\ pc[t] = "sleeping" /\ pc' = [pc EXCEPT ![t] = "idle"]
    BY <1>9 DEF CancelSleeping, Move
  <2>2. WindowListed'
    BY <1>1, <2>1 DEF WindowIInv, WindowListed
  <2>3. QED
    BY <1>1, <2>1, <2>2 DEF WindowIInv, RateBound
<1>10. QED
  BY <1>2, <1>3, <1>4, <1>5, <1>6, <1>7, <1>8, <1>9 DEF Next, Step, Cancel

------------------------------------------------------------------------------
(* Theorems                                                                 *)

\* For any number of tasks, any requests_per_minute and any window: in no window
\* do more requests start than allowed, whoever sleeps and is cancelled meanwhile.
THEOREM Rate == Spec => []RateBound
<1>1. WindowIInv => RateBound
  BY DEF WindowIInv
<1>2. QED
  BY <1>1, InitWindow, StepWindow, PTL DEF Spec

\* The list acquire works from is in order and complete, and a sleeper's wait is
\* that of its oldest entry, at every moment another task may read it.
THEOREM Listed == Spec => []WindowListed
<1>1. WindowIInv => WindowListed
  BY DEF WindowIInv
<1>2. QED
  BY <1>1, InitWindow, StepWindow, PTL DEF Spec

------------------------------------------------------------------------------
(* Nobody is forgotten                                                      *)

\* Every task whose pc says it waits is in the queue it waits in.
Covers(q, place) == \A t \in Task : pc[t] = place => \E i \in DOMAIN q : q[i] = t

\* No permit is free while a task waits for one, and no wait is unrecorded.
WaitIInv ==
  /\ permitQueue # <<>> => permits = 0
  /\ Covers(permitQueue, "permitQueue")
  /\ Covers(lockQueue, "lockQueue")

LEMMA AppendCovers ==
  ASSUME NEW q \in Seq(Task), NEW t \in Task, NEW place, pc \in [Task -> Place],
         Covers(q, place), pc' = [pc EXCEPT ![t] = place], NEW u \in Task,
         pc'[u] = place
  PROVE  \E i \in DOMAIN Append(q, t) : Append(q, t)[i] = u
<1>1. /\ Len(Append(q, t)) = Len(q) + 1 /\ Append(q, t) \in Seq(Task)
      /\ \A i \in 1..Len(q) : Append(q, t)[i] = q[i]
      /\ Append(q, t)[Len(q) + 1] = t
  BY AppendProperties
<1>2. /\ Len(q) \in Nat /\ DOMAIN q = 1..Len(q)
      /\ DOMAIN Append(q, t) = 1..(Len(q) + 1)
  BY <1>1, LenProperties
<1>3. CASE u = t
  BY <1>1, <1>2, <1>3
<1>4. CASE u # t
  <2>1. PICK i \in 1..Len(q) : q[i] = u
    BY <1>2, <1>4 DEF Covers
  <2>2. QED
    BY <1>1, <1>2, <2>1
<1>5. QED
  BY <1>3, <1>4

LEMMA TailCovers ==
  ASSUME NEW q \in Seq(Task), q # <<>>, NEW place, Covers(q, place),
         NEW u \in Task, pc[u] = place, u # Head(q)
  PROVE  \E i \in DOMAIN Tail(q) : Tail(q)[i] = u
<1>1. Len(q) \in Nat \ {0} /\ DOMAIN q = 1..Len(q) /\ Head(q) = q[1]
  BY EmptySeq, LenProperties
<1>2. /\ Tail(q) \in Seq(Task) /\ Len(Tail(q)) = Len(q) - 1
      /\ \A i \in 1..Len(Tail(q)) : Tail(q)[i] = q[i + 1]
  BY HeadTailProperties
<1>3. DOMAIN Tail(q) = 1..(Len(q) - 1)
  BY <1>2, LenProperties
<1>4. PICK i \in 1..Len(q) : q[i] = u /\ i # 1
  BY <1>1 DEF Covers
<1>5. i - 1 \in 1..(Len(q) - 1) /\ (i - 1) + 1 = i
  BY <1>1, <1>4
<1>6. QED
  BY <1>2, <1>3, <1>4, <1>5

LEMMA RemoveCovers ==
  ASSUME NEW q \in Seq(Task), NEW t \in Task, NEW place, Covers(q, place),
         NEW r \in Without(q, t), NEW u \in Task, pc[u] = place, u # t
  PROVE  \E i \in DOMAIN r : r[i] = u
<1>1. PICK k \in DOMAIN q : q[k] = t /\ r = RemoveAt(q, k)
  BY DEF Without
<1>2. /\ k \in 1..Len(q) /\ Len(q) \in Nat /\ DOMAIN q = 1..Len(q)
      /\ DOMAIN r = 1..(Len(q) - 1)
      /\ \A i \in 1..(Len(q) - 1) : r[i] = IF i < k THEN q[i] ELSE q[i + 1]
  BY <1>1, RemovedIs
<1>3. PICK m \in 1..Len(q) : q[m] = u /\ m # k
  BY <1>1, <1>2 DEF Covers
<1>4. CASE m < k
  <2>1. m \in 1..(Len(q) - 1)
    BY <1>2, <1>4
  <2>2. QED
    BY <1>2, <1>3, <1>4, <2>1
<1>5. CASE m > k
  <2>1. m - 1 \in 1..(Len(q) - 1) /\ ~(m - 1 < k) /\ (m - 1) + 1 = m
    BY <1>2, <1>5
  <2>2. QED
    BY <1>2, <1>3, <2>1
<1>6. QED
  BY <1>2, <1>3, <1>4, <1>5

\* A task that moves to a place without a queue leaves both queues complete.
LEMMA CoversKept ==
  ASSUME pc \in [Task -> Place], NEW t \in Task, NEW p, NEW place, p # place,
         pc' = [pc EXCEPT ![t] = p], NEW q, Covers(q, place)
  PROVE  \A u \in Task : pc'[u] = place => \E i \in DOMAIN q : q[i] = u
BY DEF Covers

\* Giving a permit back wakes the first waiter, and frees it only if there is none.
LEMMA ReleaseWaits ==
  ASSUME IInv, WaitIInv, NEW t \in Task, ReleasePermit(t), UNCHANGED lockQueue
  PROVE  WaitIInv'
<1> USE DEF IInv, TypeOK
<1>1. CASE permitQueue = <<>>
  <2>1. pc' = [pc EXCEPT ![t] = "idle"] /\ permitQueue' = <<>>
    BY <1>1 DEF ReleasePermit, Move
  <2>2. QED
    BY <1>1, <2>1, CoversKept DEF WaitIInv, Covers
<1>2. CASE permitQueue # <<>>
  <2> DEFINE h == Head(permitQueue)
  <2>1. /\ permitQueue' = Tail(permitQueue) /\ permits' = permits
        /\ pc' = [pc EXCEPT ![t] = "idle", ![h] = "permitted"]
    BY <1>2 DEF ReleasePermit
  <2>2. h \in Task
    BY <1>2, HeadOfQueue DEF QueuesDistinct
  <2> HIDE DEF h
  <2>3. ASSUME NEW u \in Task, pc'[u] = "permitQueue"
        PROVE  \E i \in DOMAIN permitQueue' : permitQueue'[i] = u
    <3>1. pc[u] = "permitQueue" /\ u # h
      BY <2>1, <2>2, <2>3
    <3>2. QED
      BY <1>2, <2>1, <3>1, TailCovers DEF WaitIInv, h
  <2>4. ASSUME NEW u \in Task, pc'[u] = "lockQueue"
        PROVE  \E i \in DOMAIN lockQueue' : lockQueue'[i] = u
    <3>1. pc[u] = "lockQueue"
      BY <2>1, <2>2, <2>4
    <3>2. QED
      BY <3>1 DEF WaitIInv, Covers
  <2>5. QED
    BY <1>2, <2>1, <2>3, <2>4 DEF WaitIInv, Covers
<1>3. QED
  BY <1>1, <1>2

\* A task past the semaphore runs on, or waits where the lock's queue says so.
LEMMA AdmitCovers ==
  ASSUME IInv, WaitIInv, NEW t \in Task, pc[t] # "lockQueue", Admit(t)
  PROVE  /\ Covers(permitQueue, "permitQueue")' \/ permitQueue' # permitQueue
         /\ Covers(lockQueue, "lockQueue")'
<1> USE DEF IInv, TypeOK
<1>1. PICK place \in {"inside", "sleeping", "lockQueue"} : pc' = [pc EXCEPT ![t] = place]
  BY AdmitEffect DEF QueuesDistinct
<1>2. \A u \in Task : pc'[u] = "permitQueue" => pc[u] = "permitQueue"
  BY <1>1
<1>3. Covers(permitQueue, "permitQueue")' \/ permitQueue' # permitQueue
  BY <1>2 DEF WaitIInv, Covers
<1>4. CASE lockQueue' = Append(lockQueue, t) /\ Move(t, "lockQueue")
  <2>1. \A u \in Task : pc'[u] = "lockQueue" =>
          \E i \in DOMAIN Append(lockQueue, t) : Append(lockQueue, t)[i] = u
    BY <1>4, AppendCovers DEF WaitIInv, Move
  <2>2. QED
    BY <1>3, <1>4, <2>1 DEF Covers
<1>5. CASE lockQueue' = lockQueue /\ pc'[t] # "lockQueue"
  <2>1. \A u \in Task : pc'[u] = "lockQueue" => pc[u] = "lockQueue"
    BY <1>1, <1>5
  <2>2. Covers(lockQueue, "lockQueue")'
    BY <1>5, <2>1 DEF WaitIInv, Covers
  <2>3. QED
    BY <1>3, <2>2
<1>6. QED
  <2>1. CASE Rpm = 0
    BY <1>3, <1>5, <2>1 DEF Admit, Move
  <2>2. CASE Rpm > 0 /\ LockFree
    <3>1. CheckWindow(t) /\ lockQueue' = lockQueue
      BY <2>2 DEF Admit
    <3>2. pc'[t] \in {"inside", "sleeping"}
      BY <2>2, <3>1, CheckWindowEffect
    <3>3. QED
      BY <1>3, <1>5, <3>1, <3>2
  <2>3. CASE Rpm > 0 /\ ~LockFree
    BY <1>3, <1>4, <2>3 DEF Admit
  <2>4. QED
    BY <2>1, <2>2, <2>3, LimiterAssumption

LEMMA InitWait == Init => WaitIInv
BY DEF Init, WaitIInv, Covers

LEMMA StepWait == IInv /\ WaitIInv /\ [Next]_vars => WaitIInv'
<1> SUFFICES ASSUME IInv, WaitIInv, [Next]_vars PROVE WaitIInv'
  OBVIOUS
<1> USE DEF IInv, TypeOK
<1>1. ASSUME NEW t \in Task, EnterFree(t) \/ Resume(t) PROVE WaitIInv'
  <2>1. /\ Admit(t) /\ pc[t] # "lockQueue" /\ permitQueue' = permitQueue
        /\ permitQueue # <<>> => permits' = permits
    BY <1>1 DEF EnterFree, Resume
  <2>2. QED
    BY <2>1, AdmitCovers DEF WaitIInv
<1>2. ASSUME NEW t \in Task, EnterQueue(t) PROVE WaitIInv'
  <2>1. /\ pc[t] = "idle" /\ permitQueue' = Append(permitQueue, t)
        /\ pc' = [pc EXCEPT ![t] = "permitQueue"]
        /\ UNCHANGED <<permits, lockQueue>>
        /\ ~(permits > 0 /\ permitQueue = <<>>)
    BY <1>2 DEF EnterQueue, Move
  <2>2. permits' = 0
    BY <2>1 DEF WaitIInv
  <2>3. Covers(permitQueue, "permitQueue")'
    <3>1. \A u \in Task : pc'[u] = "permitQueue" =>
            \E i \in DOMAIN Append(permitQueue, t) : Append(permitQueue, t)[i] = u
      BY <2>1, AppendCovers, ZenonT(30) DEF WaitIInv
    <3>2. QED
      BY <2>1, <3>1 DEF Covers
  <2>4. Covers(lockQueue, "lockQueue")'
    BY <2>1, CoversKept DEF WaitIInv, Covers
  <2>5. QED
    BY <2>2, <2>3, <2>4 DEF WaitIInv
<1>3. ASSUME NEW t \in Task, InheritLock(t) PROVE WaitIInv'
  <2>1. /\ lockQueue # <<>> /\ t = Head(lockQueue) /\ lockQueue' = Tail(lockQueue)
        /\ UNCHANGED <<permits, permitQueue>> /\ CheckWindow(t) /\ Rpm > 0
    BY <1>3 DEF InheritLock, WindowInUse
  <2>2. PICK place \in {"inside", "sleeping"} : pc' = [pc EXCEPT ![t] = place]
    BY <2>1, CheckWindowEffect
  <2>3. Covers(permitQueue, "permitQueue")'
    BY <2>1, <2>2 DEF WaitIInv, Covers
  <2>4. ASSUME NEW u \in Task, pc'[u] = "lockQueue"
        PROVE  \E i \in DOMAIN Tail(lockQueue) : Tail(lockQueue)[i] = u
    <3>1. pc[u] = "lockQueue" /\ u # Head(lockQueue)
      BY <2>1, <2>2, <2>4
    <3>2. QED
      BY <2>1, <3>1, TailCovers DEF WaitIInv
  <2>5. QED
    BY <2>1, <2>3, <2>4 DEF WaitIInv, Covers
<1>4. ASSUME NEW t \in Task, Wake(t) \/ CancelSleeping(t) PROVE WaitIInv'
  <2>1. /\ UNCHANGED <<permits, permitQueue, lockQueue>>
        /\ \E place \in {"inside", "idle"} : pc' = [pc EXCEPT ![t] = place]
    BY <1>4 DEF Wake, StartRequest, CancelSleeping, Move
  <2>2. QED
    BY <2>1 DEF WaitIInv, Covers
<1>5. ASSUME NEW t \in Task, Exit(t) \/ CancelPermitted(t) PROVE WaitIInv'
  BY <1>5, ReleaseWaits DEF Exit, CancelPermitted
<1>6. ASSUME NEW t \in Task, CancelInPermitQueue(t) PROVE WaitIInv'
  <2>1. /\ pc' = [pc EXCEPT ![t] = "idle"] /\ UNCHANGED <<permits, lockQueue>>
        /\ permitQueue' \in Without(permitQueue, t)
    BY <1>6 DEF CancelInPermitQueue, Move
  <2>2. permitQueue # <<>>
    BY <2>1, LenProperties DEF Without
  <2>3. ASSUME NEW u \in Task, pc'[u] = "permitQueue"
        PROVE  \E i \in DOMAIN permitQueue' : permitQueue'[i] = u
    <3>1. pc[u] = "permitQueue" /\ u # t
      BY <2>1, <2>3
    <3>2. QED
      BY <2>1, <3>1, RemoveCovers DEF WaitIInv
  <2>4. QED
    BY <2>1, <2>2, <2>3 DEF WaitIInv, Covers
<1>7. ASSUME NEW t \in Task, CancelInLockQueue(t) PROVE WaitIInv'
  <2>1. /\ pc' = [pc EXCEPT ![t] = "idle"] /\ UNCHANGED <<permits, permitQueue>>
        /\ lockQueue' \in Without(lockQueue, t)
    BY <1>7 DEF CancelInLockQueue, Move
  <2>3. ASSUME NEW u \in Task, pc'[u] = "lockQueue"
        PROVE  \E i \in DOMAIN lockQueue' : lockQueue'[i] = u
    <3>1. pc[u] = "lockQueue" /\ u # t
      BY <2>1, <2>3
    <3>2. QED
      BY <2>1, <3>1, RemoveCovers DEF WaitIInv
  <2>4. QED
    BY <2>1, <2>3 DEF WaitIInv, Covers
<1>8. CASE Tick \/ UNCHANGED vars
  BY <1>8 DEF Tick, vars, WaitIInv, Covers
<1>9. QED
  BY <1>1, <1>2, <1>3, <1>4, <1>5, <1>6, <1>7, <1>8 DEF Next, Step, Cancel

\* A task that does not wait for another task: it was handed a permit, its sleep
\* runs out by itself, its request ends, or it is the first at a free lock.
CanMove(t) ==
  \/ pc[t] \in {"permitted", "sleeping", "inside"}
  \/ lockHolder = NoTask /\ lockQueue # <<>> /\ t = Head(lockQueue)

\* Nobody waits on somebody who waits.  A task waits for a permit only while none
\* is free and, unless cancelled tasks took them all away, an owner of one can
\* move; behind the lock, its holder or the next in line can.
NobodyForgotten ==
  /\ \A t \in Task : pc[t] = "permitQueue" =>
       permits = 0 /\ (leaked = MaxConcurrency \/ \E o \in Holding : CanMove(o))
  /\ \A t \in Task : pc[t] = "lockQueue" =>
       \E o \in Holding : CanMove(o) /\ lockHolder \in {o, NoTask}

\* For any number of tasks and permits, the limiter cannot come to a standstill
\* with tasks in it: no order of hand-overs, sleeps and cancellations loses a
\* wake-up or closes a circle of waiting tasks (what WaitersMoveOn and LockMovesOn
\* rest on, under the fairness they assume).
THEOREM NoStandstill == Spec => []NobodyForgotten
<1>1. ASSUME WindowIInv, WaitIInv PROVE NobodyForgotten
  <2> USE DEF WindowIInv, IInv, TypeOK
  <2>1. ASSUME NEW t \in Task, pc[t] = "lockQueue"
        PROVE  \E o \in Holding : CanMove(o) /\ lockHolder \in {o, NoTask}
    <3>1. CASE lockHolder # NoTask
      BY <1>1, <3>1 DEF WindowListed, Holding, CanMove
    <3>2. CASE lockHolder = NoTask
      <4>1. lockQueue # <<>>
        BY <1>1, <2>1, LenProperties DEF WaitIInv, Covers
      <4>2. Head(lockQueue) \in Task /\ pc[Head(lockQueue)] = "lockQueue"
        BY <1>1, <4>1, HeadOfQueue DEF QueuesDistinct
      <4>3. QED
        BY <3>2, <4>1, <4>2 DEF Holding, CanMove
    <3>3. QED
      BY <3>1, <3>2
  <2>2. ASSUME NEW t \in Task, pc[t] = "permitQueue", leaked # MaxConcurrency
        PROVE  \E o \in Holding : CanMove(o)
    <3>1. permits = 0
      BY <1>1, <2>2, LenProperties DEF WaitIInv, Covers
    <3>2. Cardinality(Holding) # 0
      BY <1>1, <2>2, <3>1 DEF PermitAccounting
    <3>3. PICK o \in Holding : TRUE
      BY <3>2, FS_EmptySet
    <3>4. o \in Task /\ pc[o] \in {"permitted", "lockQueue", "sleeping", "inside"}
      BY <3>3 DEF Holding
    <3>5. QED
      BY <2>1, <3>3, <3>4 DEF CanMove
  <2>3. QED
    BY <1>1, <2>1, <2>2, LenProperties DEF NobodyForgotten, WaitIInv, Covers
<1>2. WindowIInv => IInv
  BY DEF WindowIInv
<1>3. QED
  BY <1>1, <1>2, InitWindow, StepWindow, InitWait, StepWait, PTL DEF Spec

------------------------------------------------------------------------------
(* The calls                                                                *)

\* A coroutine that is somewhere in the limiter is there for its next request.
InLimiterToSend == \A t \in Task : pc[t] # "idle" => call[t] = "request"

KeyTypeOK ==
  /\ call \in [Task -> {"ready", "request", "backoff", "ended"}]
  /\ key \in [Task -> Nat]
  /\ nextKey \in Nat \ {0}
  /\ sent \in Seq([task : Task, key : Nat])

\* Keys are taken in order, by calls that begin; a refused prompt takes none.
KeysDistinct ==
  KeyMode # "none" =>
    /\ \A t \in Task : key[t] < nextKey
    /\ \A t \in Task : call[t] \in {"request", "backoff"} => key[t] # NoKey
    /\ \A t, u \in Task : t # u /\ key[t] = key[u] => key[t] = NoKey

\* Every request was sent under the key that its call still has.
SentWithKey ==
  \A i \in DOMAIN sent :
    /\ call[sent[i].task] # "ready"
    /\ KeyMode # "none" => sent[i].key = key[sent[i].task] /\ sent[i].key # NoKey

CallIInv == IInv /\ InLimiterToSend /\ KeyTypeOK /\ KeysDistinct /\ SentWithKey

------------------------------------------------------------------------------
(* The limiter below the calls                                              *)

\* Every step of the calls is one of the limiter, or leaves it alone.
LEMMA CallStepIsLimiterStep == [CallNext]_callVars => [Next]_vars
<1> SUFFICES ASSUME [CallNext]_callVars PROVE [Next]_vars
  OBVIOUS
<1>1. CASE UNCHANGED callVars
  BY <1>1 DEF callVars
<1>2. CASE Tick
  BY <1>2 DEF Next
<1>3. ASSUME NEW t \in Task, StartCall(t) \/ Retry(t) \/ Wait(t) \/ Respond(t)
      PROVE  Next
  BY <1>3 DEF StartCall, Retry, Wait, Respond, Next, Step
<1>4. ASSUME NEW t \in Task, RefuseInput(t) \/ CancelCall(t)
      PROVE  [Next]_vars
  BY <1>4 DEF RefuseInput, CancelCall, Next, Step
<1>5. QED
  BY <1>1, <1>2, <1>3, <1>4 DEF CallNext

\* The first waiter for a permit is not outside the limiter.
LEMMA FirstWaiter ==
  ASSUME IInv, permitQueue # <<>>
  PROVE  Head(permitQueue) \in Task /\ pc[Head(permitQueue)] = "permitQueue"
  BY HeadOfQueue DEF IInv, TypeOK, QueuesDistinct

\* Giving back a permit puts its task outside and lets nobody else in.
LEMMA ReleaseMoves ==
  ASSUME IInv, NEW t \in Task, pc[t] \in {"inside", "permitted"}, ReleasePermit(t)
  PROVE  /\ pc'[t] = "idle"
         /\ \A u \in Task \ {t} : pc'[u] # "idle" => pc[u] # "idle"
<1>1. CASE permitQueue = <<>>
  BY <1>1 DEF ReleasePermit, Move, IInv, TypeOK
<1>2. CASE permitQueue # <<>>
  BY <1>2, FirstWaiter DEF ReleasePermit, IInv, TypeOK
<1>3. QED
  BY <1>1, <1>2

\* Any other step of a task moves nobody else.
LEMMA OwnMoves ==
  ASSUME IInv, NEW t \in Task,
         EnterFree(t) \/ EnterQueue(t) \/ Resume(t) \/ InheritLock(t) \/ Wake(t)
  PROVE  \A u \in Task \ {t} : pc'[u] = pc[u]
<1>1. Admit(t) \/ CheckWindow(t) \/ StartRequest(t, stamps) \/ Move(t, "permitQueue")
  BY DEF EnterFree, EnterQueue, Resume, InheritLock, Wake
<1>2. \E place : Move(t, place)
  BY <1>1 DEF Admit, CheckWindow, SleepForSlot, StartRequest
<1>3. QED
  BY <1>2 DEF Move, IInv, TypeOK

\* A cancelled waiter is outside, and nobody else comes in.
LEMMA CancelMoves ==
  ASSUME IInv, NEW t \in Task, Cancel(t) \/ Exit(t)
  PROVE  /\ pc'[t] = "idle"
         /\ \A u \in Task \ {t} : pc'[u] # "idle" => pc[u] # "idle"
<1>1. CASE CancelPermitted(t) \/ Exit(t)
  BY <1>1, ReleaseMoves DEF CancelPermitted, Exit
<1>2. CASE CancelInPermitQueue(t) \/ CancelInLockQueue(t) \/ CancelSleeping(t)
  BY <1>2 DEF CancelInPermitQueue, CancelInLockQueue, CancelSleeping, Move, IInv, TypeOK
<1>3. QED
  BY <1>1, <1>2 DEF Cancel

------------------------------------------------------------------------------
(* The keys                                                                 *)

\* What is in the history was sent by tasks.
LEMMA SentByTasks ==
  ASSUME KeyTypeOK
  PROVE  \A i \in DOMAIN sent : sent[i].task \in Task /\ sent[i].key \in Nat
<1> DEFINE R == [task : Task, key : Nat]
<1>1. sent \in Seq(R)
  BY DEF KeyTypeOK
<1> HIDE DEF R
<1>2. DOMAIN sent = 1..Len(sent)
  BY <1>1, LenProperties
<1>3. \A i \in DOMAIN sent : sent[i] \in R
  BY <1>1, <1>2, ElementOfSeq
<1>4. QED
  BY <1>3 DEF R

LEMMA CallInitInvariant == CallInit => CallIInv
<1> SUFFICES ASSUME CallInit PROVE CallIInv
  OBVIOUS
<1> USE DEF CallInit
<1>1. IInv
  BY InitIInv
<1>2. InLimiterToSend
  BY DEF Init, InLimiterToSend
<1>3. KeyTypeOK /\ KeysDistinct /\ SentWithKey
  BY DEF KeyTypeOK, KeysDistinct, SentWithKey, NoKey
<1>4. QED
  BY <1>1, <1>2, <1>3 DEF CallIInv

\* A call begins: it takes a key that nobody has, and has sent nothing.
LEMMA StartKeeps ==
  ASSUME CallIInv, NEW t \in Task, StartCall(t)
  PROVE  InLimiterToSend' /\ KeyTypeOK' /\ KeysDistinct' /\ SentWithKey'
<1> USE DEF CallIInv
<1>1. /\ call[t] = "ready" /\ call' = [call EXCEPT ![t] = "request"]
      /\ TakeKey(t) /\ UNCHANGED sent
  BY DEF StartCall
<1>2. \A u \in Task \ {t} : pc'[u] = pc[u]
  BY OwnMoves DEF StartCall
<1>3. InLimiterToSend'
  BY <1>1, <1>2 DEF InLimiterToSend, KeyTypeOK
<1>4. KeyTypeOK'
  BY <1>1 DEF KeyTypeOK, TakeKey
<1>5. KeysDistinct'
  <2>1. CASE KeyMode = "none"
    BY <2>1 DEF KeysDistinct
  <2>2. CASE KeyMode # "none"
    <3>1. /\ key' = [key EXCEPT ![t] = nextKey] /\ nextKey' = nextKey + 1
          /\ key \in [Task -> Nat] /\ nextKey \in Nat \ {0}
      BY <1>1, <2>2 DEF TakeKey, KeyTypeOK
    <3>2. \A u \in Task : key[u] < nextKey
      BY <2>2 DEF KeysDistinct
    <3>3. \A u \in Task : key'[u] < nextKey'
      BY <3>1, <3>2
    <3>4. \A u \in Task : call'[u] \in {"request", "backoff"} => key'[u] # NoKey
      BY <1>1, <2>2, <3>1 DEF KeysDistinct, KeyTypeOK, NoKey
    <3>5. ASSUME NEW u \in Task, NEW w \in Task, u # w, key'[u] = key'[w]
          PROVE  key'[u] = NoKey
      <4>1. u # t /\ w # t
        BY <3>1, <3>2, <3>5
      <4>2. QED
        BY <2>2, <3>1, <3>5, <4>1 DEF KeysDistinct
    <3>6. QED
      BY <3>3, <3>4, <3>5 DEF KeysDistinct
  <2>3. QED
    BY <2>1, <2>2
<1>6. SentWithKey'
  <2> SUFFICES ASSUME NEW i \in DOMAIN sent
               PROVE  /\ call'[sent[i].task] # "ready"
                      /\ KeyMode # "none" => /\ sent[i].key = key'[sent[i].task]
                                             /\ sent[i].key # NoKey
    BY <1>1 DEF SentWithKey
  <2>1. sent[i].task \in Task /\ sent[i].task # t
    BY <1>1, SentByTasks DEF SentWithKey
  <2>2. QED
    BY <1>1, <2>1 DEF KeyTypeOK, SentWithKey, TakeKey
<1>7. QED
  BY <1>3, <1>4, <1>5, <1>6

\* A coroutine that sends does so under its own key.
LEMMA RespondKeeps ==
  ASSUME CallIInv, NEW t \in Task, Respond(t)
  PROVE  InLimiterToSend' /\ KeyTypeOK' /\ KeysDistinct' /\ SentWithKey'
<1> USE DEF CallIInv
<1> DEFINE request == [task |-> t, key |-> key[t]]
<1>1. /\ Exit(t) /\ UNCHANGED <<key, nextKey>>
      /\ sent' = Append(sent, request)
      /\ \E place \in {"ended", "backoff"} : call' = [call EXCEPT ![t] = place]
  BY DEF Respond, Conclude, Finish, BackOff
<1>2. call[t] = "request"
  BY <1>1 DEF Exit, InLimiterToSend
<1>3. InLimiterToSend'
  BY <1>1, CancelMoves DEF InLimiterToSend, KeyTypeOK
<1>4. request \in [task : Task, key : Nat]
  BY DEF KeyTypeOK
<1>5. KeyTypeOK'
  BY <1>1, <1>4, AppendProperties DEF KeyTypeOK
<1>6. KeysDistinct'
  BY <1>1, <1>2 DEF KeyTypeOK, KeysDistinct
<1>7. SentWithKey'
  <2>1. /\ Len(sent) \in Nat /\ DOMAIN sent = 1..Len(sent)
        /\ DOMAIN sent' = 1..(Len(sent) + 1)
        /\ \A i \in 1..Len(sent) : sent'[i] = sent[i]
        /\ sent'[Len(sent) + 1] = request
    BY <1>1, <1>4, AppendProperties, LenProperties DEF KeyTypeOK
  <2>2. \A i \in 1..Len(sent) : sent[i].task \in Task
    BY <2>1, SentByTasks
  <2> SUFFICES ASSUME NEW i \in DOMAIN sent'
               PROVE  /\ call'[sent'[i].task] # "ready"
                      /\ KeyMode # "none" => /\ sent'[i].key = key[sent'[i].task]
                                             /\ sent'[i].key # NoKey
    BY <1>1 DEF SentWithKey
  <2>3. CASE i \in 1..Len(sent)
    BY <1>1, <2>1, <2>2, <2>3 DEF SentWithKey, KeyTypeOK
  <2>4. CASE i = Len(sent) + 1
    BY <1>1, <1>2, <2>1, <2>4 DEF KeyTypeOK, KeysDistinct
  <2>5. QED
    BY <2>1, <2>3, <2>4
<1>8. QED
  BY <1>3, <1>5, <1>6, <1>7

\* The steps that neither take a key nor send.
LEMMA QuietKeeps ==
  ASSUME CallIInv, NEW t \in Task,
         RefuseInput(t) \/ Retry(t) \/ Wait(t) \/ CancelCall(t)
  PROVE  InLimiterToSend' /\ KeyTypeOK' /\ KeysDistinct' /\ SentWithKey'
<1> USE DEF CallIInv
<1>1. UNCHANGED <<key, nextKey, sent>>
  BY DEF RefuseInput, Retry, Wait, CancelCall, callOnly
<1>2. \/ call' = [call EXCEPT ![t] = "ended"]
      \/ call[t] = "backoff" /\ call' = [call EXCEPT ![t] = "request"]
      \/ call' = call
  BY DEF RefuseInput, Retry, Wait, CancelCall, callOnly, Finish
<1>3. KeyTypeOK' /\ KeysDistinct' /\ SentWithKey'
  <2>1. KeyTypeOK'
    BY <1>1, <1>2 DEF KeyTypeOK
  <2>2. KeysDistinct'
    BY <1>1, <1>2 DEF KeyTypeOK, KeysDistinct
  <2>3. \A i \in DOMAIN sent : sent[i].task \in Task
    BY SentByTasks
  <2>4. SentWithKey'
    BY <1>1, <1>2, <2>3 DEF KeyTypeOK, SentWithKey
  <2>5. QED
    BY <2>1, <2>2, <2>4
<1>4. InLimiterToSend'
  <2>1. CASE RefuseInput(t)
    BY <2>1 DEF RefuseInput, Finish, InLimiterToSend, KeyTypeOK, vars
  <2>2. CASE Retry(t)
    BY <2>2, OwnMoves DEF Retry, InLimiterToSend, KeyTypeOK
  <2>3. CASE Wait(t)
    <3>1. pc[t] # "idle"
      BY <2>3, HeadOfQueue DEF Wait, Resume, InheritLock, Wake, IInv, TypeOK, QueuesDistinct
    <3>2. QED
      BY <2>3, <3>1, OwnMoves DEF Wait, callOnly, InLimiterToSend
  <2>4. CASE CancelCall(t)
    BY <2>4, CancelMoves DEF CancelCall, Finish, InLimiterToSend, KeyTypeOK, vars
  <2>5. QED
    BY <2>1, <2>2, <2>3, <2>4
<1>5. QED
  BY <1>3, <1>4

LEMMA CallStepInvariant == CallIInv /\ [CallNext]_callVars => CallIInv'
<1> SUFFICES ASSUME CallIInv, [CallNext]_callVars PROVE CallIInv'
  OBVIOUS
<1>1. IInv'
  BY CallStepIsLimiterStep, StepIInv DEF CallIInv
<1>2. CASE UNCHANGED callVars \/ (Tick /\ UNCHANGED callOnly)
  BY <1>1, <1>2 DEF CallIInv, callVars, vars, callOnly, Tick, InLimiterToSend, KeyTypeOK,
                    KeysDistinct, SentWithKey
<1>3. ASSUME NEW t \in Task, StartCall(t) PROVE CallIInv'
  BY <1>1, <1>3, StartKeeps DEF CallIInv
<1>4. ASSUME NEW t \in Task, Respond(t) PROVE CallIInv'
  BY <1>1, <1>4, RespondKeeps DEF CallIInv
<1>5. ASSUME NEW t \in Task, RefuseInput(t) \/ Retry(t) \/ Wait(t) \/ CancelCall(t)
      PROVE  CallIInv'
  BY <1>1, <1>5, QuietKeeps DEF CallIInv
<1>6. QED
  BY <1>2, <1>3, <1>4, <1>5 DEF CallNext

------------------------------------------------------------------------------
(* The retry loop                                                           *)

LoopTypeOK ==
  /\ attempt \in [Task -> 0..MaxRetries]
  /\ replies \in [Task -> Seq(Reply)]
  /\ outcome \in [Task -> [category : Category, retries : 0..MaxRetries]]

\* The first n replies to t were failures that the loop retries.
RetriedTo(t, n) ==
  \A i \in 1..n : replies[t][i] \in Failure /\ Retryable(replies[t][i])

\* The call was ended by its last reply, after all those before were retried.
EndedByLast(t) ==
  LET n == attempt[t]
      last == replies[t][n + 1] IN
  /\ Len(replies[t]) = n + 1
  /\ RetriedTo(t, n)
  /\ \/ last \in Success /\ outcome[t] = Answered(last, n)
     \/ /\ last \in Failure /\ (~Retryable(last) \/ n = MaxRetries)
        /\ outcome[t] = RaisedError(last, n)

\* How many replies a call has had wherever its coroutine is, and of what kind.
RetriesOf(t) ==
  /\ call[t] = "ready" => attempt[t] = 0
  /\ call[t] \in {"ready", "request"} => Len(replies[t]) = attempt[t]
  /\ call[t] = "backoff" => Len(replies[t]) = attempt[t] + 1 /\ attempt[t] < MaxRetries
  /\ call[t] # "ended" => RetriedTo(t, Len(replies[t]))
  /\ call[t] = "ended" =>
       replies[t] = <<>> \/ outcome[t].category = "cancelled" \/ EndedByLast(t)

LoopIInv == LoopTypeOK /\ \A t \in Task : RetriesOf(t)

\* What can be raised, by name.
LEMMA FailureNames ==
  Failure = {"rate_limit", "server", "auth", "forbidden", "bad_request", "too_long", "not_found",
             "conflict", "unprocessable", "too_large", "payment", "late", "timeout",
             "connection", "stream"}
  BY DEF Failure, HttpStatus

\* What is raised and what is answered are outcomes.
LEMMA OutcomeType ==
  ASSUME NEW reply \in Success \cup Failure, NEW n \in 0..MaxRetries
  PROVE  /\ reply \in Success =>
              Answered(reply, n) \in [category : Category, retries : 0..MaxRetries]
         /\ reply \in Failure =>
              RaisedError(reply, n) \in [category : Category, retries : 0..MaxRetries]
<1>1. 0 \in 0..MaxRetries
  BY CallAssumption
<1>2. ASSUME reply \in Success PROVE Integrity(reply) \in Category
  BY <1>2 DEF Success, Integrity, Category
<1>3. ASSUME reply \in Failure PROVE Mapped(reply) \in Category
  BY <1>3, FailureNames DEF Mapped, Category
<1>4. reply \in Success =>
        Answered(reply, n) \in [category : Category, retries : 0..MaxRetries]
  BY <1>1, <1>2 DEF Answered, Category
<1>5. reply \in Failure =>
        RaisedError(reply, n) \in [category : Category, retries : 0..MaxRetries]
  BY <1>1, <1>3 DEF RaisedError, Category
<1>6. QED
  BY <1>4, <1>5

\* A step that leaves a call's variables alone says of it what it said before.
LEMMA OthersKept ==
  ASSUME NEW u \in Task, RetriesOf(u),
         call'[u] = call[u], attempt'[u] = attempt[u],
         replies'[u] = replies[u], outcome'[u] = outcome[u]
  PROVE  RetriesOf(u)'
  BY DEF RetriesOf, RetriedTo, EndedByLast

LEMMA LoopInit == CallInit => LoopIInv
<1> SUFFICES ASSUME CallInit PROVE LoopIInv
  OBVIOUS
<1> USE DEF CallInit
<1>1. LoopTypeOK
  BY CallAssumption, EmptySeq DEF LoopTypeOK, Pending, Category
<1>2. ASSUME NEW t \in Task PROVE RetriesOf(t)
  BY EmptySeq DEF RetriesOf, RetriedTo
<1>3. QED
  BY <1>1, <1>2 DEF LoopIInv

\* A reply ends the call or makes it back off.
LEMMA RespondLoop ==
  ASSUME CallIInv, LoopIInv, NEW t \in Task, Respond(t)
  PROVE  LoopIInv'
<1> USE DEF LoopIInv
<1> DEFINE rs == replies[t]
           n == attempt[t]
<1>1. PICK reply \in Reply :
        /\ Exit(t)
        /\ replies' = [replies EXCEPT ![t] = Append(rs, reply)]
        /\ Conclude(t, reply)
        /\ UNCHANGED attempt
  BY DEF Respond
<1>2. call[t] = "request"
  BY <1>1 DEF Exit, CallIInv, InLimiterToSend
<1>3. n \in 0..MaxRetries /\ n \in Nat /\ MaxRetries \in Nat
  BY CallAssumption DEF LoopTypeOK
<1>4. rs \in Seq(Reply) /\ Len(rs) = n /\ RetriedTo(t, n)
  BY <1>2 DEF LoopTypeOK, RetriesOf
<1>5. /\ replies'[t] \in Seq(Reply) /\ Len(replies'[t]) = n + 1
      /\ replies'[t][n + 1] = reply
      /\ \A i \in 1..n : replies'[t][i] = rs[i]
  <2>1. replies'[t] = Append(rs, reply)
    BY <1>1 DEF LoopTypeOK
  <2>2. QED
    BY <1>3, <1>4, <2>1, AppendProperties
<1>6. RetriedTo(t, n)' /\ attempt'[t] = n
  BY <1>1, <1>4, <1>5 DEF RetriedTo
<1>7. LoopTypeOK'
  <2>1. reply \in Success \cup Failure
    BY CallAssumption
  <2>2. replies' \in [Task -> Seq(Reply)]
    BY <1>1, <1>5 DEF LoopTypeOK
  <2>3. outcome' \in [Task -> [category : Category, retries : 0..MaxRetries]]
    <3>1. CASE outcome' = outcome
      BY <3>1 DEF LoopTypeOK
    <3>2. ASSUME NEW result \in [category : Category, retries : 0..MaxRetries],
                 Finish(t, result)
          PROVE  outcome' \in [Task -> [category : Category, retries : 0..MaxRetries]]
      BY <3>2 DEF LoopTypeOK, Finish
    <3>3. QED
      BY <1>1, <1>3, <2>1, <3>1, <3>2, OutcomeType DEF Conclude, BackOff
  <2>4. QED
    BY <1>1, <2>2, <2>3 DEF LoopTypeOK
<1>8. RetriesOf(t)'
  <2>1. CASE reply \in Success /\ Finish(t, Answered(reply, n))
    <3>1. call'[t] = "ended" /\ outcome'[t] = Answered(reply, n)
      BY <2>1 DEF Finish, CallIInv, KeyTypeOK, LoopTypeOK
    <3>2. EndedByLast(t)'
      BY <1>3, <1>5, <1>6, <2>1, <3>1 DEF EndedByLast
    <3>3. QED
      BY <3>1, <3>2 DEF RetriesOf
  <2>2. CASE /\ reply \in Failure
             /\ ~Retryable(reply) \/ n = MaxRetries
             /\ Finish(t, RaisedError(reply, n))
    <3>1. call'[t] = "ended" /\ outcome'[t] = RaisedError(reply, n)
      BY <2>2 DEF Finish, CallIInv, KeyTypeOK, LoopTypeOK
    <3>2. EndedByLast(t)'
      BY <1>3, <1>5, <1>6, <2>2, <3>1 DEF EndedByLast
    <3>3. QED
      BY <3>1, <3>2 DEF RetriesOf
  <2>3. CASE /\ reply \in Failure
             /\ Retryable(reply) /\ n < MaxRetries
             /\ BackOff(t)
    <3>1. call'[t] = "backoff"
      BY <2>3 DEF BackOff, CallIInv, KeyTypeOK
    <3>2. RetriedTo(t, n + 1)'
      BY <1>3, <1>5, <1>6, <2>3 DEF RetriedTo
    <3>3. QED
      BY <1>5, <1>6, <2>3, <3>1, <3>2 DEF RetriesOf
  <2>4. QED
    BY <1>1, <2>1, <2>2, <2>3 DEF Conclude
<1>9. ASSUME NEW u \in Task, u # t PROVE RetriesOf(u)'
  <2>1. call'[u] = call[u] /\ outcome'[u] = outcome[u]
    BY <1>1, <1>9 DEF Conclude, Finish, BackOff, CallIInv, KeyTypeOK, LoopTypeOK
  <2>2. attempt'[u] = attempt[u] /\ replies'[u] = replies[u]
    BY <1>1, <1>9 DEF LoopTypeOK
  <2>3. QED
    BY <2>1, <2>2, OthersKept
<1>10. QED
  BY <1>7, <1>8, <1>9

\* A call begins, or its next attempt does.
LEMMA AttemptLoop ==
  ASSUME CallIInv, LoopIInv, NEW t \in Task, StartCall(t) \/ Retry(t)
  PROVE  LoopIInv'
<1> USE DEF LoopIInv
<1>1. /\ call' = [call EXCEPT ![t] = "request"] /\ UNCHANGED <<replies, outcome>>
      /\ \/ call[t] = "ready" /\ attempt' = attempt
         \/ call[t] = "backoff" /\ attempt' = [attempt EXCEPT ![t] = @ + 1]
  BY DEF StartCall, Retry
<1>2. attempt[t] \in 0..MaxRetries /\ MaxRetries \in Nat
  BY CallAssumption DEF LoopTypeOK
<1>3. call[t] = "backoff" => attempt[t] < MaxRetries /\ Len(replies[t]) = attempt[t] + 1
  BY DEF RetriesOf
<1>4. /\ attempt'[t] \in 0..MaxRetries
      /\ call'[t] = "request" /\ Len(replies[t]) = attempt'[t]
  BY <1>1, <1>2, <1>3 DEF RetriesOf, CallIInv, KeyTypeOK, LoopTypeOK
<1>5. LoopTypeOK'
  BY <1>1, <1>4 DEF LoopTypeOK
<1>6. RetriesOf(t)'
  <2>1. RetriedTo(t, Len(replies[t]))
    BY <1>1 DEF RetriesOf
  <2>2. QED
    BY <1>1, <1>4, <2>1 DEF RetriesOf, RetriedTo
<1>7. ASSUME NEW u \in Task, u # t PROVE RetriesOf(u)'
  BY <1>1, <1>7, OthersKept DEF CallIInv, KeyTypeOK, LoopTypeOK
<1>8. QED
  BY <1>5, <1>6, <1>7

\* A prompt is refused, or a call cancelled.
LEMMA EndLoop ==
  ASSUME CallIInv, LoopIInv, NEW t \in Task, RefuseInput(t) \/ CancelCall(t)
  PROVE  LoopIInv'
<1> USE DEF LoopIInv
<1>1. PICK c \in {"input_limit", "cancelled"} :
        /\ Finish(t, [category |-> c, retries |-> 0])
        /\ c = "input_limit" => call[t] = "ready"
        /\ UNCHANGED <<attempt, replies>>
  BY DEF RefuseInput, CancelCall
<1>2. LoopTypeOK'
  BY <1>1, CallAssumption DEF Finish, LoopTypeOK, Category
<1>3. call'[t] = "ended" /\ outcome'[t].category = c
  BY <1>1 DEF Finish, CallIInv, KeyTypeOK, LoopTypeOK
<1>4. c = "input_limit" => replies[t] = <<>>
  BY <1>1, EmptySeq DEF RetriesOf, LoopTypeOK
<1>5. RetriesOf(t)'
  BY <1>1, <1>3, <1>4 DEF RetriesOf
<1>6. ASSUME NEW u \in Task, u # t PROVE RetriesOf(u)'
  BY <1>1, <1>6, OthersKept DEF Finish, CallIInv, KeyTypeOK, LoopTypeOK
<1>7. QED
  BY <1>2, <1>5, <1>6

LEMMA LoopStep == CallIInv /\ LoopIInv /\ [CallNext]_callVars => LoopIInv'
<1> SUFFICES ASSUME CallIInv, LoopIInv, [CallNext]_callVars PROVE LoopIInv'
  OBVIOUS
<1>1. CASE UNCHANGED callOnly
  <2>1. UNCHANGED <<call, attempt, replies, outcome>>
    BY <1>1 DEF callOnly
  <2>2. QED
    BY <2>1, OthersKept DEF LoopIInv, LoopTypeOK
<1>2. CASE UNCHANGED callVars
  BY <1>1, <1>2 DEF callVars
<1>3. ASSUME NEW t \in Task, StartCall(t) \/ Retry(t) PROVE LoopIInv'
  BY <1>3, AttemptLoop
<1>4. ASSUME NEW t \in Task, Respond(t) PROVE LoopIInv'
  BY <1>4, RespondLoop
<1>5. ASSUME NEW t \in Task, RefuseInput(t) \/ CancelCall(t) PROVE LoopIInv'
  BY <1>5, EndLoop
<1>6. ASSUME NEW t \in Task, Wait(t) PROVE LoopIInv'
  BY <1>1, <1>6 DEF Wait
<1>7. QED
  BY <1>1, <1>2, <1>3, <1>4, <1>5, <1>6 DEF CallNext

LEMMA LoopInvariance == CallSpec => [](CallIInv /\ LoopIInv)
<1>1. CallInit => CallIInv /\ LoopIInv
  BY CallInitInvariant, LoopInit
<1>2. CallIInv /\ LoopIInv /\ [CallNext]_callVars => (CallIInv /\ LoopIInv)'
  BY CallStepInvariant, LoopStep
<1>3. QED
  BY <1>1, <1>2, PTL DEF CallSpec

------------------------------------------------------------------------------
(* How many keys and how many requests                                      *)

Begun == {t \in Task : call[t] # "ready"}
SentBy(t) == {i \in DOMAIN sent : sent[i].task = t}

\* There are no more keys than calls that began, and every request that was
\* answered is one of the attempts its call has made so far.
CountIInv ==
  /\ nextKey <= Cardinality(Begun) + 1
  /\ \A t \in Task :
       /\ key[t] < nextKey
       /\ IsFiniteSet(SentBy(t)) /\ Cardinality(SentBy(t)) = Len(replies[t])
       /\ Len(replies[t]) <= attempt[t] + 1
  /\ \A i \in DOMAIN sent : sent[i].key < nextKey

LEMMA BegunFinite ==
  /\ IsFiniteSet(Begun) /\ Cardinality(Begun) \in Nat
  /\ Cardinality(Begun) <= Cardinality(Task) /\ Cardinality(Task) \in Nat
<1>1. IsFiniteSet(Task) /\ Begun \subseteq Task
  BY LimiterAssumption DEF Begun
<1>2. QED
  BY <1>1, FS_Subset, FS_CardinalityType

LEMMA CountInit == CallInit => CountIInv
<1> SUFFICES ASSUME CallInit PROVE CountIInv
  OBVIOUS
<1>1. Begun = {} /\ \A t \in Task : SentBy(t) = {}
  BY DEF CallInit, Begun, SentBy
<1>2. Cardinality({}) = 0 /\ IsFiniteSet({})
  BY FS_EmptySet
<1>3. nextKey <= Cardinality(Begun) + 1
  BY <1>1, <1>2 DEF CallInit
<1>4. \A t \in Task : Len(replies[t]) = 0 /\ attempt[t] = 0 /\ key[t] < nextKey
  BY DEF CallInit, NoKey
<1>5. \A t \in Task : IsFiniteSet(SentBy(t)) /\ Cardinality(SentBy(t)) = Len(replies[t])
  BY <1>1, <1>2, <1>4
<1>6. \A t \in Task : Len(replies[t]) <= attempt[t] + 1
  BY <1>4
<1>7. DOMAIN sent = {}
  BY DEF CallInit
<1>8. QED
  BY <1>3, <1>4, <1>5, <1>6, <1>7 DEF CountIInv

\* Calls that end, or go for the limiter once more, send nothing.
LEMMA CountQuiet ==
  ASSUME CallIInv, LoopIInv, CountIInv, NEW t \in Task,
         RefuseInput(t) \/ CancelCall(t) \/ Retry(t)
  PROVE  CountIInv'
<1>1. /\ \E c \in {"request", "ended"} : call' = [call EXCEPT ![t] = c]
      /\ UNCHANGED <<key, nextKey, sent, replies>>
      /\ attempt' = attempt \/ attempt' = [attempt EXCEPT ![t] = @ + 1]
  BY DEF RefuseInput, CancelCall, Retry, Finish
<1>2. Begun' = Begun \cup {t}
  BY <1>1 DEF Begun, CallIInv, KeyTypeOK
<1>3. Cardinality(Begun') \in Nat /\ Cardinality(Begun') >= Cardinality(Begun)
  <2>1. CASE t \in Begun
    <3>1. Begun' = Begun
      BY <1>2, <2>1
    <3>2. QED
      BY <3>1, BegunFinite
  <2>2. CASE t \notin Begun
    <3>1. Cardinality(Begun') = Cardinality(Begun) + 1
      BY <1>2, <2>2, BegunFinite, FS_AddElement
    <3>2. QED
      BY <3>1, BegunFinite
  <2>3. QED
    BY <2>1, <2>2
<1>4. nextKey' <= Cardinality(Begun') + 1
  <2>1. nextKey \in Nat
    BY DEF CallIInv, KeyTypeOK
  <2>2. QED
    BY <1>1, <1>3, <2>1, BegunFinite DEF CountIInv
<1>5. \A u \in Task : Len(replies[u]) <= attempt'[u] + 1
  <2>1. \A u \in Task : attempt[u] \in Nat /\ Len(replies[u]) \in Nat
    BY CallAssumption, LenProperties DEF LoopIInv, LoopTypeOK
  <2>2. \A u \in Task : attempt'[u] \in {attempt[u], attempt[u] + 1}
    BY <1>1 DEF LoopIInv, LoopTypeOK
  <2>3. QED
    BY <2>1, <2>2 DEF CountIInv
<1>6. \A u \in Task : SentBy(u)' = SentBy(u)
  BY <1>1 DEF SentBy
<1>7. QED
  BY <1>1, <1>4, <1>5, <1>6 DEF CountIInv

\* A call that begins takes at most one key.
LEMMA CountStart ==
  ASSUME CallIInv, LoopIInv, CountIInv, NEW t \in Task, StartCall(t)
  PROVE  CountIInv'
<1>1. /\ call[t] = "ready" /\ call' = [call EXCEPT ![t] = "request"]
      /\ TakeKey(t) /\ UNCHANGED <<attempt, sent, replies>>
  BY DEF StartCall
<1>2. Begun' = Begun \cup {t} /\ t \notin Begun
  BY <1>1 DEF Begun, CallIInv, KeyTypeOK
<1>3. Cardinality(Begun') = Cardinality(Begun) + 1
  BY <1>2, BegunFinite, FS_AddElement
<1>4. /\ nextKey \in Nat /\ key \in [Task -> Nat]
      /\ \A i \in DOMAIN sent : sent[i].key \in Nat
  <2>1. sent \in Seq([task : Task, key : Nat])
    BY DEF CallIInv, KeyTypeOK
  <2>2. \A i \in DOMAIN sent : sent[i] \in [task : Task, key : Nat]
    BY <2>1, LenProperties, ElementOfSeq
  <2>3. QED
    BY <2>2 DEF CallIInv, KeyTypeOK
<1>5. nextKey' \in {nextKey, nextKey + 1} /\ \A u \in Task : key'[u] < nextKey'
  BY <1>1, <1>4 DEF TakeKey, CountIInv
<1>6. nextKey' <= Cardinality(Begun') + 1
  BY <1>3, <1>4, <1>5, BegunFinite DEF CountIInv
<1>7. \A i \in DOMAIN sent : sent[i].key < nextKey'
  BY <1>4, <1>5 DEF CountIInv
<1>8. \A u \in Task : SentBy(u)' = SentBy(u)
  BY <1>1 DEF SentBy
<1>9. QED
  BY <1>1, <1>5, <1>6, <1>7, <1>8 DEF CountIInv

\* An answer is counted with the request it answers.
LEMMA CountRespond ==
  ASSUME CallIInv, LoopIInv, CountIInv, NEW t \in Task, Respond(t)
  PROVE  CountIInv'
<1> DEFINE request == [task |-> t, key |-> key[t]]
<1>1. PICK reply \in Reply :
        /\ Exit(t) /\ sent' = Append(sent, request)
        /\ replies' = [replies EXCEPT ![t] = Append(@, reply)]
        /\ Conclude(t, reply)
        /\ UNCHANGED <<attempt, key, nextKey>>
  BY DEF Respond
<1>2. call[t] = "request"
  BY <1>1 DEF Exit, CallIInv, InLimiterToSend
<1>3. /\ sent \in Seq([task : Task, key : Nat]) /\ key \in [Task -> Nat]
      /\ replies \in [Task -> Seq(Reply)] /\ attempt[t] \in Nat
      /\ request \in [task : Task, key : Nat]
  BY CallAssumption DEF CallIInv, KeyTypeOK, LoopIInv, LoopTypeOK
<1>4. /\ Len(sent) \in Nat /\ DOMAIN sent = 1..Len(sent)
      /\ DOMAIN sent' = 1..(Len(sent) + 1)
      /\ \A i \in 1..Len(sent) : sent'[i] = sent[i]
      /\ sent'[Len(sent) + 1] = request
  BY <1>1, <1>3, AppendProperties, LenProperties
<1> HIDE DEF request
<1>5. request.task = t /\ request.key = key[t]
  BY DEF request
<1>6. /\ SentBy(t)' = SentBy(t) \cup {Len(sent) + 1}
      /\ Len(sent) + 1 \notin SentBy(t)
      /\ \A u \in Task \ {t} : SentBy(u)' = SentBy(u)
  BY <1>4, <1>5 DEF SentBy
<1>7. IsFiniteSet(SentBy(t)') /\ Cardinality(SentBy(t)') = Cardinality(SentBy(t)) + 1
  BY <1>6, FS_AddElement DEF CountIInv
<1>8. /\ replies'[t] = Append(replies[t], reply)
      /\ \A u \in Task \ {t} : replies'[u] = replies[u]
  BY <1>1, <1>3
<1>9. Len(replies'[t]) = Len(replies[t]) + 1 /\ Len(replies[t]) = attempt[t]
  <2>1. Len(replies[t]) = attempt[t]
    BY <1>2 DEF LoopIInv, RetriesOf
  <2>2. QED
    BY <1>3, <1>8, <2>1, AppendProperties
<1>10. Begun' = Begun
  <2>1. \E c \in {"ended", "backoff"} : call' = [call EXCEPT ![t] = c]
    BY <1>1 DEF Conclude, Finish, BackOff
  <2>2. QED
    BY <1>2, <2>1 DEF Begun, CallIInv, KeyTypeOK
<1>11. \A i \in DOMAIN sent' : sent'[i].key < nextKey'
  BY <1>1, <1>4, <1>5 DEF CountIInv
<1>12. \A u \in Task :
         /\ IsFiniteSet(SentBy(u)') /\ Cardinality(SentBy(u)') = Len(replies'[u])
         /\ Len(replies'[u]) <= attempt[u] + 1
  <2>1. Cardinality(SentBy(t)') = Len(replies'[t]) /\ Len(replies'[t]) <= attempt[t] + 1
    BY <1>3, <1>7, <1>9 DEF CountIInv
  <2>2. ASSUME NEW u \in Task \ {t}
        PROVE  /\ IsFiniteSet(SentBy(u)') /\ Cardinality(SentBy(u)') = Len(replies'[u])
               /\ Len(replies'[u]) <= attempt[u] + 1
    BY <1>6, <1>8 DEF CountIInv
  <2>3. QED
    BY <1>7, <2>1, <2>2
<1>13. QED
  BY <1>1, <1>10, <1>11, <1>12 DEF CountIInv

LEMMA CountStep == CallIInv /\ LoopIInv /\ CountIInv /\ [CallNext]_callVars => CountIInv'
<1> SUFFICES ASSUME CallIInv, LoopIInv, CountIInv, [CallNext]_callVars PROVE CountIInv'
  OBVIOUS
<1>1. CASE UNCHANGED callOnly
  <2>1. UNCHANGED <<call, attempt, key, nextKey, sent, replies>>
    BY <1>1 DEF callOnly
  <2>2. Begun' = Begun /\ \A u \in Task : SentBy(u)' = SentBy(u)
    BY <2>1 DEF Begun, SentBy
  <2>3. QED
    BY <2>1, <2>2 DEF CountIInv
<1>2. ASSUME NEW t \in Task, Wait(t) PROVE CountIInv'
  BY <1>1, <1>2 DEF Wait
<1>3. QED
  BY <1>1, <1>2, CountQuiet, CountStart, CountRespond DEF CallNext, callVars

LEMMA CountInvariance == CallSpec => [](CallIInv /\ LoopIInv /\ CountIInv)
<1>1. CallInit => CallIInv /\ LoopIInv /\ CountIInv
  BY CallInitInvariant, LoopInit, CountInit
<1>2. CallIInv /\ LoopIInv /\ CountIInv /\ [CallNext]_callVars
        => (CallIInv /\ LoopIInv /\ CountIInv)'
  BY CallStepInvariant, LoopStep, CountStep
<1>3. QED
  BY <1>1, <1>2, PTL DEF CallSpec

------------------------------------------------------------------------------
(* The loop of OpenRouterClient                                             *)

\* A set of natural numbers that has a member has a least one.
LEMMA LeastNatural ==
  ASSUME NEW S \in SUBSET Nat, NEW x \in S
  PROVE  \E m \in S : \A n \in S : m <= n
<1> DEFINE R == OpToRel(<, Nat)
<1>1. IsWellFoundedOn(R, Nat)
  BY NatLessThanWellFounded
<1>2. \A n, m \in Nat : n < m => <<n, m>> \in R
  BY DEF OpToRel
<1> HIDE DEF R
<1>3. PICK m \in S : \A n \in S : ~(<<n, m>> \in R)
  BY <1>1, WFMin
<1>4. ASSUME NEW n \in S PROVE m <= n
  <2>1. n \in Nat /\ m \in Nat
    OBVIOUS
  <2>2. ~(n < m)
    BY <1>2, <1>3, <2>1
  <2>3. QED
    BY <2>1, <2>2
<1>5. QED
  BY <1>4

\* OpenRouterClient gives every error the same number, whatever the settings.
LEMMA StatusAgrees ==
  ASSUME NEW reply \in Failure
  PROVE  StatusCode(reply) = SyncStatus[reply]
<1>1. DOMAIN SyncClass = {"timeout", "rate_limit", "server", "connection", "stream"}
  BY DEF SyncClass
<1>2. SyncStatus[reply] =
        IF reply \in {"timeout", "rate_limit", "server", "connection", "stream"}
          THEN SyncClass[reply] ELSE HttpStatus[reply]
  BY <1>1 DEF SyncStatus
<1>3. CASE reply \in {"timeout", "rate_limit", "server", "connection", "stream"}
  BY <1>2, <1>3 DEF StatusCode, SyncClass
<1>4. CASE reply \notin {"timeout", "rate_limit", "server", "connection", "stream"}
  BY <1>2, <1>4 DEF StatusCode
<1>5. QED
  BY <1>3, <1>4

\* It has the same errors retried.
LEMMA RetryablesAgree ==
  ASSUME NEW reply \in Failure
  PROVE  Retryable(reply) <=> SyncRetryable(reply)
  BY StatusAgrees DEF Retryable, SyncRetryable

\* Its loop stops after the n retries it has a reason for.
LEMMA SyncAttemptsIs ==
  ASSUME NEW rs, NEW n \in 0..MaxRetries, Len(rs) = n + 1,
         \A i \in 1..n : rs[i] \notin Success /\ SyncRetryable(rs[i]),
         n = MaxRetries \/ rs[n + 1] \in Success \/ ~SyncRetryable(rs[n + 1])
  PROVE  SyncAttempts(rs) = n
<1> DEFINE Loop(f) == [k \in 0..MaxRetries |->
             IF k = MaxRetries \/ k >= Len(rs) \/ rs[k + 1] \in Success
                               \/ ~SyncRetryable(rs[k + 1])
               THEN k ELSE f[k + 1]]
           loop == CHOOSE f : f = Loop(f)
           w == [k \in 0..MaxRetries |-> IF k < n THEN n ELSE k]
<1>1. loop = Loop(loop)
  <2>1. ASSUME NEW k \in 0..MaxRetries PROVE w[k] = Loop(w)[k]
    <3>1. CASE k < n
      <4>1. k + 1 \in 0..MaxRetries /\ k + 1 \in 1..n
        BY <3>1, CallAssumption
      <4>2. w[k + 1] = n
        BY <4>1, CallAssumption
      <4>3. QED
        BY <3>1, <4>1, <4>2, CallAssumption
    <3>2. CASE k = n
      BY <3>2, CallAssumption
    <3>3. CASE k > n
      BY <3>3, CallAssumption
    <3>4. QED
      BY <3>1, <3>2, <3>3, CallAssumption
  <2>2. w = Loop(w)
    BY <2>1
  <2>3. \E f : f = Loop(f)
    BY <2>2
  <2> HIDE DEF Loop
  <2>4. QED
    BY <2>3, Zenon
<1> HIDE DEF loop
<1>2. \A k \in 0..MaxRetries : 
        loop[k] = IF k = MaxRetries \/ k >= Len(rs) \/ rs[k + 1] \in Success
                                    \/ ~SyncRetryable(rs[k + 1])
                    THEN k ELSE loop[k + 1]
  BY <1>1
<1>3. \A k \in 0..n : loop[k] = n
  <2> DEFINE Off == {j \in 0..n : loop[n - j] # n}
  <2> SUFFICES ASSUME NEW k \in 0..n, loop[k] # n PROVE FALSE
    OBVIOUS
  <2>1. n - k \in Off /\ Off \in SUBSET Nat
    OBVIOUS
  <2>2. PICK j \in Off : \A i \in Off : j <= i
    BY <2>1, LeastNatural
  <2>3. j # 0
    BY <1>2, CallAssumption
  <2>4. n - j \in 0..MaxRetries /\ n - j < n /\ n - j + 1 \in 1..n
    BY <2>3, CallAssumption
  <2>5. loop[n - j] = loop[n - j + 1]
    BY <1>2, <2>4, CallAssumption
  <2>6. j - 1 \in Off
    BY <2>3, <2>4, <2>5
  <2>7. QED
    BY <2>2, <2>6
<1>4. SyncAttempts(rs) = loop[0]
  BY DEF SyncAttempts, loop
<1>5. QED
  BY <1>3, <1>4, CallAssumption

\* What it makes of the reply that ends the loop.
LEMMA SyncCompleteIs ==
  ASSUME NEW rs, NEW n \in 0..MaxRetries, Len(rs) = n + 1, SyncAttempts(rs) = n,
         NEW end,
         \/ rs[n + 1] \in Success /\ end = Answered(rs[n + 1], n)
         \/ rs[n + 1] \in Failure /\ end = RaisedError(rs[n + 1], n)
  PROVE  SyncComplete(rs) =
           [category |-> end.category, retries |-> end.retries, requests |-> n + 1]
<1> DEFINE last == rs[n + 1]
<1>1. n \in Nat /\ ~(n >= Len(rs))
  BY CallAssumption
<1>2. DOMAIN SyncDefect = {"empty", "refused", "filtered", "cut", "bad_tool_call"}
  BY DEF SyncDefect
<1>3. CASE last \in Success /\ end = Answered(last, n)
  BY <1>1, <1>2, <1>3 DEF Success, SyncComplete, SyncDefect, Answered, Integrity
<1>4. CASE last \in Failure /\ end = RaisedError(last, n)
  <2>1. last \notin Success /\ (SyncRetryable(last) <=> Retryable(last))
    BY <1>4, FailureNames, RetryablesAgree DEF Success
  <2>2. SyncError[last] = Mapped(last)
    BY <1>4, FailureNames DEF SyncError, Mapped
  <2>3. last \notin DOMAIN SyncDefect /\ last # "costly" /\ last # "ok"
    BY <1>2, <2>1 DEF Success
  <2>4. last \in {"timeout", "rate_limit"} => Mapped(last) = last
    BY DEF Mapped
  <2>5. QED
    BY <1>1, <1>4, <2>1, <2>2, <2>3, <2>4 DEF SyncComplete, RaisedError
<1>5. QED
  BY <1>3, <1>4

------------------------------------------------------------------------------
(* Theorems                                                                 *)

\* The coroutines use the limiter as it may be used: what is proved of Spec, the
\* bound on the requests in flight first of all, holds below complete().
THEOREM CallsImplementLimiter == CallSpec => Spec
<1>1. CallInit => Init
  BY DEF CallInit
<1>2. QED
  BY <1>1, CallStepIsLimiterStep, PTL DEF CallSpec, Spec

\* However attempts fail, back off, are repeated and cancelled, all requests of a
\* call carry one idempotency key and no two calls share it.
THEOREM KeysName == CallSpec => []KeyNamesCall
<1>1. ASSUME CallIInv PROVE KeyNamesCall
  <2>1. \A i \in DOMAIN sent : sent[i].task \in Task
    BY <1>1, SentByTasks DEF CallIInv
  <2>2. QED
    BY <1>1, <2>1 DEF CallIInv, KeysDistinct, SentWithKey, KeyNamesCall
<1>2. QED
  BY <1>1, CallInitInvariant, CallStepInvariant, PTL DEF CallSpec

\* The calls keep their types: keys are numbered no higher than there are calls, and
\* no outcome reports more retries than the settings allow.
THEOREM CallTypes == CallSpec => []CallTypeOK
<1>1. ASSUME CallIInv, LoopIInv, CountIInv PROVE CallTypeOK
  <2>1. nextKey \in 1..(Cardinality(Task) + 1)
    <3>1. nextKey \in Nat \ {0}
      BY <1>1 DEF CallIInv, KeyTypeOK
    <3>2. QED
      BY <1>1, <3>1, BegunFinite DEF CountIInv
  <2>2. key \in [Task -> 0..Cardinality(Task)]
    <3>1. key \in [Task -> Nat] /\ \A t \in Task : key[t] < nextKey
      BY <1>1 DEF CallIInv, KeyTypeOK, CountIInv
    <3>2. \A t \in Task : key[t] \in 0..Cardinality(Task)
      BY <2>1, <3>1, BegunFinite
    <3>3. QED
      BY <3>1, <3>2
  <2>3. ASSUME NEW i \in DOMAIN sent
        PROVE  sent[i] \in [task : Task, key : 0..Cardinality(Task)]
    <3>1. sent[i] \in [task : Task, key : Nat]
      BY <1>1, LenProperties, ElementOfSeq, ZenonT(30) DEF CallIInv, KeyTypeOK
    <3>2. sent[i].key < nextKey /\ sent[i].key \in Nat
      BY <1>1, <3>1 DEF CountIInv
    <3>3. sent[i].key \in 0..Cardinality(Task)
      BY <2>1, <3>2, BegunFinite
    <3>4. QED
      BY <3>1, <3>3
  <2>4. QED
    BY <1>1, <2>1, <2>2, <2>3
    DEF CallTypeOK, CallIInv, IInv, KeyTypeOK, LoopIInv, LoopTypeOK
<1>2. QED
  BY <1>1, CountInvariance, PTL

\* Of a call never more requests are answered, and charged, than its first and
\* max_retries more, and every answer it works from is to a request of its own.
RequestsBounded ==
  \A t \in Task :
    /\ Cardinality(SentBy(t)) <= MaxRetries + 1
    /\ Cardinality(SentBy(t)) = Len(replies[t])

\* However often the limiter makes a call wait, wherever it is cancelled and
\* whatever the other calls do, what it can cost is bounded by its settings.
THEOREM RequestsAreBounded == CallSpec => []RequestsBounded
<1>1. ASSUME LoopIInv, CountIInv PROVE RequestsBounded
  <2> SUFFICES ASSUME NEW t \in Task
               PROVE  /\ Cardinality(SentBy(t)) <= MaxRetries + 1
                      /\ Cardinality(SentBy(t)) = Len(replies[t])
    BY DEF RequestsBounded
  <2>1. attempt[t] \in 0..MaxRetries /\ MaxRetries \in Nat /\ Len(replies[t]) \in Nat
    BY <1>1, CallAssumption, LenProperties DEF LoopIInv, LoopTypeOK
  <2>2. QED
    BY <1>1, <2>1 DEF CountIInv
<1>2. QED
  BY <1>1, CountInvariance, PTL

\* The category that is reported, and its retry_count, are told by the replies,
\* after any number of retries under any interleaving of the calls.
THEOREM CategoryTold == CallSpec => []CategoryFromReplies
<1>1. ASSUME LoopIInv PROVE CategoryFromReplies
  <2> DEFINE Told(t, made, last) ==
               /\ outcome[t].category \in {"timeout", "rate_limit", "retry_limit", "ok"} =>
                    outcome[t].retries = made
               /\ outcome[t].category = "retry_limit" => made > 0
               /\ outcome[t].category = "ok" <=> last = "ok"
               /\ last \in Failure /\ Retryable(last) /\ made > 0 =>
                    /\ made = MaxRetries
                    /\ outcome[t].category \in {"timeout", "rate_limit", "retry_limit"}
               /\ last \in Failure /\ made = 0 => outcome[t].category = Mapped(last)
  <2> SUFFICES ASSUME NEW t \in Task, call[t] = "ended", replies[t] # <<>>,
                      outcome[t].category # "cancelled"
               PROVE  Told(t, Len(replies[t]) - 1, replies[t][Len(replies[t])])
    BY DEF CategoryFromReplies
  <2>1. EndedByLast(t)
    BY <1>1 DEF LoopIInv, RetriesOf
  <2> DEFINE n == attempt[t]
             last == replies[t][n + 1]
  <2>2. n \in Nat /\ Len(replies[t]) = n + 1 /\ Len(replies[t]) - 1 = n
    BY <1>1, <2>1, CallAssumption DEF LoopIInv, LoopTypeOK, EndedByLast
  <2>3. \/ last \in Success /\ outcome[t] = Answered(last, n)
        \/ /\ last \in Failure /\ outcome[t] = RaisedError(last, n)
           /\ ~Retryable(last) \/ n = MaxRetries
    BY <2>1 DEF EndedByLast
  <2> HIDE DEF n, last
  <2>4. ASSUME last \in Success, outcome[t] = Answered(last, n)
        PROVE  Told(t, n, last)
    BY <2>2, <2>4, FailureNames DEF Success, Answered, Integrity
  <2>5. ASSUME last \in Failure, outcome[t] = RaisedError(last, n),
               ~Retryable(last) \/ n = MaxRetries
        PROVE  Told(t, n, last)
    BY <2>2, <2>5, FailureNames DEF RaisedError, Mapped
  <2>6. Told(t, n, last)
    BY <2>3, <2>4, <2>5
  <2>7. QED
    BY <2>2, <2>6 DEF last
<1>2. QED
  BY <1>1, LoopInvariance, PTL

\* A call ends as OpenRouterClient's loop, which has no limiter and no other call
\* beside it, would end it on the same replies, and with as many requests.
THEOREM ClientsAlike == CallSpec => []ClientsAgree
<1>1. ASSUME LoopIInv PROVE ClientsAgree
  <2> SUFFICES ASSUME NEW t \in Task, call[t] = "ended", replies[t] # <<>>,
                      outcome[t].category # "cancelled"
               PROVE  SyncComplete(replies[t]) =
                        [category |-> outcome[t].category, retries |-> outcome[t].retries,
                         requests |-> Len(replies[t])]
    BY DEF ClientsAgree
  <2>1. EndedByLast(t)
    BY <1>1 DEF LoopIInv, RetriesOf
  <2> DEFINE n == attempt[t]
             rs == replies[t]
  <2>2. n \in 0..MaxRetries /\ Len(rs) = n + 1
    BY <1>1, <2>1 DEF LoopIInv, LoopTypeOK, EndedByLast
  <2>3. \A i \in 1..n : rs[i] \notin Success /\ SyncRetryable(rs[i])
    <3>1. \A i \in 1..n : rs[i] \in Failure /\ Retryable(rs[i])
      BY <2>1 DEF EndedByLast, RetriedTo
    <3>2. Success \cap Failure = {}
      BY FailureNames DEF Success
    <3>3. QED
      BY <3>1, <3>2, RetryablesAgree
  <2>4. n = MaxRetries \/ rs[n + 1] \in Success \/ ~SyncRetryable(rs[n + 1])
    BY <2>1, RetryablesAgree DEF EndedByLast
  <2>5. \/ rs[n + 1] \in Success /\ outcome[t] = Answered(rs[n + 1], n)
        \/ rs[n + 1] \in Failure /\ outcome[t] = RaisedError(rs[n + 1], n)
    BY <2>1 DEF EndedByLast
  <2> HIDE DEF n, rs
  <2>6. SyncAttempts(rs) = n
    BY <2>2, <2>3, <2>4, SyncAttemptsIs
  <2>7. QED
    BY <2>2, <2>5, <2>6, SyncCompleteIs DEF rs
<1>2. QED
  BY <1>1, LoopInvariance, PTL
=============================================================================
