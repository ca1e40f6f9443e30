------------------------ MODULE EvaluationRun_proofs ------------------------
(***************************************************************************)
(* TLAPS proofs about EvaluationRun and about those who read what it        *)
(* stores, for any runs, dry runs and errors of the model client.  The rows *)
(* of a run are written by one step of many, so the invariant has to say at *)
(* every stage which events the call has in memory, that its transaction    *)
(* holds one running row and that nothing of it is committed before the     *)
(* last stage.  A request reads in several steps, so its invariant says     *)
(* that what it has of a run is what is stored, once the run was found.     *)
(***************************************************************************)
EXTENDS RunReaders, Workflow_proofs, FiniteSetTheorems, SequenceTheorems

\* The events of a call at each stage.
Memory(r) ==
  LET n == Len(outcome[r].events) + 3
      ev == events[r] IN
  /\ stage[r] = "new" => ev = <<>>
  /\ stage[r] = "loaded" => ev = <<Event("benchmark_loaded")>>
  /\ stage[r] = "ready" => ev = <<Event("benchmark_loaded"), Event("environment_ready")>>
  /\ stage[r] \in {"acted", "collected", "evaluated"} =>
       outcome[r] \in AgentOutcome(r) /\ Recorded(ev, outcome[r].events)
  /\ stage[r] = "acted" => Len(ev) = n
  /\ stage[r] = "collected" => Len(ev) = n + 1
  /\ stage[r] = "evaluated" => Len(ev) = n + 2 /\ steps[r] = n + 1
  /\ stage[r] \in {"collected", "evaluated"} => ev[n + 1] = Event("trajectory_collected")
  /\ stage[r] = "evaluated" => ev[n + 2] = Event("evaluation_completed")

Transaction(r) ==
  stage[r] \in {"ready", "acted", "collected", "evaluated"} => pending[r] = Running

Committed(r) ==
  /\ stage[r] \in {"new"} \cup (Active \ {"persisted"}) => db[r] = NoRow
  /\ db[r] = NoRow \/ Whole(r, db[r])

Domains ==
  /\ DOMAIN stage = Run /\ DOMAIN events = Run /\ DOMAIN outcome = Run
  /\ DOMAIN steps = Run /\ DOMAIN pending = Run /\ DOMAIN db = Run

\* What _persist has stored, and what run() computes its result from.
Stored(r) ==
  /\ outcome[r] \in AgentOutcome(r)
  /\ db[r].status = RunStatus(outcome[r])
  /\ db[r].evaluation = EvaluationStatus(outcome[r])
  /\ db[r].cost = HasLiveCost(r, events[r])
  /\ Len(events[r]) \in Nat
  /\ DOMAIN db[r].events = 0..(Len(events[r]) - 1)

RunIInv(r) == Memory(r) /\ Transaction(r) /\ Committed(r)

EvaluationIInv == Domains /\ \A r \in Run : RunIInv(r)

ResultIInv ==
  /\ DOMAIN result = Run
  /\ \A r \in Run :
       /\ stage[r] \in {"persisted", "returned"} => Stored(r)
       /\ stage[r] = "returned" =>
            result[r] = [status |-> ResultStatus(outcome[r]), events |-> Len(events[r]),
                         cost |-> HasLiveCost(r, events[r])]

------------------------------------------------------------------------------
(* The invariant                                                            *)

\* The first and the second event of a list.
LEMMA CollectFirst ==
  ASSUME NEW S, NEW a \in S, NEW b \in S
  PROVE  <<>> \o <<a>> = <<a>> /\ <<a>> \o <<b>> = <<a, b>>
<1>1. /\ <<a>> \in Seq(S) /\ Len(<<a>>) = 1 /\ <<a>>[1] = a
      /\ <<b>> \in Seq(S) /\ Len(<<b>>) = 1 /\ <<b>>[1] = b
      /\ <<a, b>> \in Seq(S) /\ Len(<<a, b>>) = 2
      /\ <<a, b>>[1] = a /\ <<a, b>>[2] = b
  OBVIOUS
<1> DEFINE s == <<a>>
           t == <<b>>
           w == <<a, b>>
<1>2. <<>> \o s = s
  BY <1>1, ConcatEmptySeq
<1> HIDE DEF s, t, w
<1>3. /\ s \o t \in Seq(S) /\ Len(s \o t) = Len(s) + Len(t)
      /\ \A i \in 1 .. Len(s) + Len(t) :
           (s \o t)[i] = IF i <= Len(s) THEN s[i] ELSE t[i - Len(s)]
  BY <1>1, ConcatProperties DEF s, t
<1>4. /\ s \in Seq(S) /\ Len(s) = 1 /\ s[1] = a /\ Len(t) = 1 /\ t[1] = b
      /\ w \in Seq(S) /\ Len(w) = 2 /\ w[1] = a /\ w[2] = b
  BY <1>1 DEF s, t, w
<1>5. s \o t = w
  <2>1. Len(s \o t) = 2 /\ (s \o t)[1] = w[1] /\ (s \o t)[2] = w[2]
    BY <1>3, <1>4
  <2>2. \A i \in 1..Len(s \o t) : (s \o t)[i] = w[i]
    BY <2>1
  <2>3. QED
    BY <1>3, <1>4, <2>1, <2>2, SeqEqual
<1>6. QED
  BY <1>2, <1>5 DEF s, t, w

LEMMA EvaluationInit == Init => EvaluationIInv
<1> SUFFICES ASSUME Init PROVE EvaluationIInv
  OBVIOUS
<1>1. Domains
  BY DEF Init, Domains
<1>2. ASSUME NEW r \in Run PROVE RunIInv(r)
  <2>1. stage[r] = "new" /\ events[r] = <<>> /\ db[r] = NoRow
    BY DEF Init
  <2>2. Memory(r)
    BY <2>1 DEF Memory
  <2>3. Transaction(r) /\ Committed(r)
    BY <2>1 DEF Transaction, Committed
  <2>4. QED
    BY <2>2, <2>3 DEF RunIInv
<1>3. QED
  BY <1>1, <1>2 DEF EvaluationIInv

\* A step of one call leaves the others as they are.
LEMMA OneCall ==
  ASSUME EvaluationIInv, NEW r \in Run, Domains', RunIInv(r)',
         \A u \in Run \ {r} :
           /\ stage'[u] = stage[u] /\ events'[u] = events[u] /\ outcome'[u] = outcome[u]
           /\ steps'[u] = steps[u] /\ pending'[u] = pending[u] /\ db'[u] = db[u]
  PROVE  EvaluationIInv'
<1>1. ASSUME NEW u \in Run \ {r} PROVE RunIInv(u)'
  <2>1. Memory(u)'
    BY SMTT(30) DEF EvaluationIInv, RunIInv, Memory
  <2>2. Transaction(u)' /\ Committed(u)'
    BY DEF EvaluationIInv, RunIInv, Transaction, Committed
  <2>3. QED
    BY <2>1, <2>2 DEF RunIInv
<1>2. QED
  BY <1>1 DEF EvaluationIInv

\* Before the agent: the first two events and the running row.
LEMMA SetupKeeps ==
  ASSUME EvaluationIInv, NEW r \in Run, LoadBenchmark(r) \/ SetupEnvironment(r)
  PROVE  EvaluationIInv'
<1> USE DEF EvaluationIInv, Domains, RunIInv
<1>1. CASE LoadBenchmark(r)
  <2>1. /\ stage[r] = "new" /\ stage' = [stage EXCEPT ![r] = "loaded"]
        /\ events' = [events EXCEPT ![r] = events[r] \o <<Event("benchmark_loaded")>>]
        /\ UNCHANGED <<outcome, steps, pending, db>>
    BY <1>1 DEF LoadBenchmark, Goto, Collect
  <2>2. events[r] \o <<Event("benchmark_loaded")>> = <<Event("benchmark_loaded")>>
    <3>1. events[r] = <<>>
      BY <2>1 DEF Memory
    <3>2. QED
      BY <3>1, CollectFirst
  <2>3. Memory(r)'
    BY <2>1, <2>2 DEF Memory
  <2>4. Transaction(r)' /\ Committed(r)'
    BY <2>1 DEF Transaction, Committed, Active
  <2>5. QED
    BY <2>1, <2>3, <2>4, OneCall
<1>2. CASE SetupEnvironment(r)
  <2>1. /\ stage[r] = "loaded" /\ stage' = [stage EXCEPT ![r] = "ready"]
        /\ events' = [events EXCEPT ![r] = events[r] \o <<Event("environment_ready")>>]
        /\ pending' = [pending EXCEPT ![r] = Running]
        /\ UNCHANGED <<outcome, steps, db>>
    BY <1>2 DEF SetupEnvironment, Goto, Collect, CreateRun, Running
  <2>2. events[r] \o <<Event("environment_ready")>> =
          <<Event("benchmark_loaded"), Event("environment_ready")>>
    <3>1. events[r] = <<Event("benchmark_loaded")>>
      BY <2>1 DEF Memory
    <3>2. Event("benchmark_loaded") \in Ev /\ Event("environment_ready") \in Ev
      BY EventType DEF Plain
    <3>3. QED
      BY <3>1, <3>2, CollectFirst
  <2>3. Memory(r)'
    BY <2>1, <2>2 DEF Memory
  <2>4. Transaction(r)' /\ Committed(r)'
    BY <2>1 DEF Transaction, Committed, Active
  <2>5. QED
    BY <2>1, <2>3, <2>4, OneCall
<1>3. QED
  BY <1>1, <1>2

\* The agent's events follow the three the nodes have collected.
LEMMA AgentKeeps ==
  ASSUME EvaluationIInv, NEW r \in Run, RunAgent(r)
  PROVE  EvaluationIInv'
<1> USE DEF EvaluationIInv, Domains, RunIInv
<1>1. PICK o \in AgentOutcome(r) : outcome' = [outcome EXCEPT ![r] = o]
  BY DEF RunAgent
<1> DEFINE two == <<Event("benchmark_loaded"), Event("environment_ready")>>
           asked == <<Event("user_prompt")>> \o o.events
<1>2. /\ stage[r] = "ready" /\ stage' = [stage EXCEPT ![r] = "acted"]
      /\ events' = [events EXCEPT ![r] = events[r] \o asked]
      /\ UNCHANGED <<steps, pending, db>> /\ outcome'[r] = o
  BY <1>1 DEF RunAgent, Goto, Collect
<1>3. events[r] = two
  BY <1>2 DEF Memory
<1>4. o.events \in Seq(Ev) /\ Len(o.events) \in Nat
  BY OutcomesHonest, LenProperties DEF Honest
<1>5. /\ two \in Seq(Ev) /\ Len(two) = 2 /\ two[1] = Opening[1] /\ two[2] = Opening[2]
      /\ <<Event("user_prompt")>> \in Seq(Ev) /\ Len(<<Event("user_prompt")>>) = 1
      /\ <<Event("user_prompt")>>[1] = Opening[3]
  BY EventType DEF Plain, Opening
<1>6. /\ asked \in Seq(Ev) /\ Len(asked) = 1 + Len(o.events)
      /\ asked[1] = Opening[3]
      /\ \A i \in 1..Len(o.events) : asked[1 + i] = o.events[i]
  <2>1. /\ asked \in Seq(Ev)
        /\ Len(asked) = Len(<<Event("user_prompt")>>) + Len(o.events)
        /\ \A i \in 1 .. Len(<<Event("user_prompt")>>) + Len(o.events) :
             asked[i] = IF i <= Len(<<Event("user_prompt")>>) THEN <<Event("user_prompt")>>[i]
                        ELSE o.events[i - Len(<<Event("user_prompt")>>)]
    BY <1>4, <1>5, ConcatProperties
  <2> HIDE DEF asked
  <2>2. asked[1] = <<Event("user_prompt")>>[1]
    BY <1>4, <1>5, <2>1
  <2>3. ASSUME NEW i \in 1..Len(o.events) PROVE asked[1 + i] = o.events[i]
    <3>1. /\ 1 + i \in 1 .. Len(<<Event("user_prompt")>>) + Len(o.events)
          /\ ~(1 + i <= Len(<<Event("user_prompt")>>))
          /\ (1 + i) - Len(<<Event("user_prompt")>>) = i
      BY <1>4, <1>5
    <3>2. QED
      BY <2>1, <3>1
  <2>4. QED
    BY <1>5, <2>1, <2>2, <2>3
<1> HIDE DEF two, asked
<1>7. /\ two \o asked \in Seq(Ev) /\ Len(two \o asked) = 3 + Len(o.events)
      /\ \A i \in 1..3 : (two \o asked)[i] = Opening[i]
      /\ \A i \in 1..Len(o.events) : (two \o asked)[3 + i] = o.events[i]
  <2>1. /\ two \o asked \in Seq(Ev)
        /\ Len(two \o asked) = Len(two) + Len(asked)
        /\ \A i \in 1 .. Len(two) + Len(asked) :
             (two \o asked)[i] = IF i <= Len(two) THEN two[i] ELSE asked[i - Len(two)]
    BY <1>5, <1>6, ConcatProperties
  <2>2. /\ (two \o asked)[1] = two[1] /\ (two \o asked)[2] = two[2]
        /\ (two \o asked)[3] = asked[1]
    BY <1>4, <1>5, <1>6, <2>1
  <2>3. ASSUME NEW i \in 1..Len(o.events) PROVE (two \o asked)[3 + i] = o.events[i]
    <3>1. /\ 3 + i \in 1 .. Len(two) + Len(asked) /\ ~(3 + i <= Len(two))
          /\ (3 + i) - Len(two) = 1 + i
      BY <1>4, <1>5, <1>6
    <3>2. QED
      BY <1>6, <2>1, <3>1
  <2>4. QED
    BY <1>4, <1>5, <1>6, <2>1, <2>2, <2>3
<1>8. Recorded(events'[r], o.events) /\ Len(events'[r]) = 3 + Len(o.events)
  BY <1>2, <1>3, <1>7 DEF Recorded
<1>9. Memory(r)'
  BY <1>1, <1>2, <1>4, <1>8 DEF Memory
<1>10. Transaction(r)' /\ Committed(r)'
  BY <1>2 DEF Transaction, Committed, Active
<1>11. QED
  BY <1>1, <1>2, <1>9, <1>10, OneCall

\* After the agent: an event for each node, and the count of those before it.
LEMMA CollectKeeps ==
  ASSUME EvaluationIInv, NEW r \in Run, CollectTrajectory(r) \/ Evaluate(r)
  PROVE  EvaluationIInv'
<1> USE DEF EvaluationIInv, Domains, RunIInv
<1> DEFINE agent == outcome[r].events
           ev == events[r]
           n == Len(agent) + 3
<1>1. PICK e \in Plain : events' = [events EXCEPT ![r] = ev \o <<Event(e)>>]
  BY DEF CollectTrajectory, Evaluate, Collect, Plain
<1>2. /\ stage[r] \in {"acted", "collected"} /\ UNCHANGED <<outcome, pending, db>>
      /\ \E s \in {"collected", "evaluated"} : stage' = [stage EXCEPT ![r] = s]
      /\ DOMAIN steps' = Run /\ \A u \in Run \ {r} : steps'[u] = steps[u]
  BY DEF CollectTrajectory, Evaluate, Goto
<1>3. outcome[r] \in AgentOutcome(r) /\ Recorded(ev, agent)
  BY <1>2 DEF Memory
<1>4. agent \in Seq(Ev) /\ Len(agent) \in Nat /\ ev \in Seq(Ev) /\ Len(ev) \in Nat
  BY <1>3, OutcomesHonest, LenProperties DEF Honest, Recorded
<1> HIDE DEF agent, ev
<1>5. /\ events'[r] \in Seq(Ev) /\ Len(events'[r]) = Len(ev) + 1
      /\ \A i \in 1..Len(ev) : events'[r][i] = ev[i]
      /\ events'[r][Len(ev) + 1] = Event(e)
  <2>1. Event(e) \in Ev
    BY EventType
  <2>2. events'[r] = ev \o <<Event(e)>>
    BY <1>1
  <2>3. QED
    BY <1>4, <2>1, <2>2, CollectOne
<1>6. Len(ev) >= n
  BY <1>2, <1>4 DEF Memory, agent, ev
<1>7. Recorded(events'[r], agent)
  <2>1. \A i \in 1..3 : i \in 1..Len(ev)
    BY <1>4, <1>6
  <2>2. \A i \in 1..Len(agent) : 3 + i \in 1..Len(ev)
    BY <1>4, <1>6
  <2>3. QED
    BY <1>3, <1>5, <2>1, <2>2 DEF Recorded
<1>8. Memory(r)'
  <2>1. CASE CollectTrajectory(r)
    <3>1. /\ stage[r] = "acted" /\ stage'[r] = "collected"
          /\ events'[r] = ev \o <<Event("trajectory_collected")>>
      BY <2>1 DEF CollectTrajectory, Goto, Collect, ev
    <3>2. Len(ev) = n
      BY <3>1 DEF Memory, agent, ev
    <3>3. events'[r][n + 1] = Event("trajectory_collected") /\ Len(events'[r]) = n + 1
      BY <1>4, <1>5, <3>1, <3>2, CollectOne, EventType DEF Plain
    <3>4. QED
      BY <1>2, <1>3, <1>7, <3>1, <3>3 DEF Memory, agent
  <2>2. CASE Evaluate(r)
    <3>1. /\ stage[r] = "collected" /\ stage'[r] = "evaluated" /\ steps'[r] = Len(ev)
          /\ events'[r] = ev \o <<Event("evaluation_completed")>>
      BY <2>2 DEF Evaluate, Goto, Collect, ev
    <3>2. Len(ev) = n + 1 /\ ev[n + 1] = Event("trajectory_collected")
      BY <3>1 DEF Memory, agent, ev
    <3>3. /\ events'[r][n + 2] = Event("evaluation_completed") /\ Len(events'[r]) = n + 2
          /\ events'[r][n + 1] = Event("trajectory_collected")
      BY <1>4, <1>5, <3>1, <3>2, CollectOne, EventType DEF Plain
    <3>4. QED
      BY <1>2, <1>3, <1>7, <3>1, <3>2, <3>3 DEF Memory, agent
  <2>3. QED
    BY <2>1, <2>2
<1>9. Transaction(r)' /\ Committed(r)'
  BY <1>2 DEF Transaction, Committed, Active
<1>10. QED
  BY <1>1, <1>2, <1>8, <1>9, OneCall

\* The commit: nothing was there, and the whole run is.
LEMMA PublishKeeps ==
  ASSUME EvaluationIInv, NEW r \in Run, Persist(r) \/ LoseCommitAnswer(r)
  PROVE  /\ EvaluationIInv'
         /\ db[r] = NoRow /\ Whole(r, db'[r])
         /\ \A u \in Run \ {r} : db'[u] = db[u]
         /\ Stored(r)'
<1> USE DEF EvaluationIInv, Domains, RunIInv
<1> DEFINE o == outcome[r]
           ev == events[r]
           last == ev \o <<Event("persistence_requested")>>
           n == Len(o.events) + 4
<1>1. /\ stage[r] = "evaluated" /\ UNCHANGED <<outcome, steps>>
      /\ \E s \in {"persisted", "raised"} : stage' = [stage EXCEPT ![r] = s]
      /\ events' = [events EXCEPT ![r] = last]
      /\ pending' = [pending EXCEPT ![r] = NoRow]
      /\ db' = [db EXCEPT ![r] = SaveRun(pending, r, events'[r], steps[r], o)[r]]
  BY DEF Persist, LoseCommitAnswer, Publish, Goto, Collect, EndTransaction
<1>2. /\ Recorded(ev, o.events) /\ o \in AgentOutcome(r) /\ steps[r] = n
      /\ Len(ev) = n + 1 /\ pending[r] = Running /\ db[r] = NoRow
      /\ ev[n] = Event("trajectory_collected") /\ ev[n + 1] = Event("evaluation_completed")
  <2>1. /\ Recorded(ev, o.events) /\ o \in AgentOutcome(r)
        /\ steps[r] = (Len(o.events) + 3) + 1 /\ Len(ev) = (Len(o.events) + 3) + 2
        /\ ev[(Len(o.events) + 3) + 1] = Event("trajectory_collected")
        /\ ev[(Len(o.events) + 3) + 2] = Event("evaluation_completed")
    BY <1>1 DEF Memory
  <2>2. pending[r] = Running /\ db[r] = NoRow
    BY <1>1 DEF Transaction, Committed, Active
  <2>3. Len(o.events) \in Nat
    BY <2>1, OutcomesHonest, LenProperties DEF Honest
  <2>4. (Len(o.events) + 3) + 1 = n /\ (Len(o.events) + 3) + 2 = n + 1
    BY <2>3
  <2>5. QED
    BY <2>1, <2>2, <2>4
<1>3. Honest(r, o) /\ Len(o.events) \in Nat /\ n \in Nat
  <2>1. Honest(r, o)
    BY <1>2, OutcomesHonest
  <2>2. Len(o.events) \in Nat
    BY <2>1, LenProperties DEF Honest
  <2>3. QED
    BY <2>1, <2>2
<1>4. /\ last \in Seq(Ev) /\ Len(last) = n + 2
      /\ \A i \in 1..(n + 1) : last[i] = ev[i]
      /\ last[n + 2] = Event("persistence_requested")
  <2>1. Event("persistence_requested") \in Ev
    BY EventType DEF Plain
  <2>2. /\ last \in Seq(Ev) /\ Len(last) = Len(ev) + 1
        /\ \A i \in 1..Len(ev) : last[i] = ev[i]
        /\ last[Len(ev) + 1] = Event("persistence_requested")
    BY <1>2, <2>1, CollectOne DEF Recorded
  <2> HIDE DEF last
  <2>3. QED
    BY <1>2, <1>3, <2>2
<1> HIDE DEF last, ev
<1>5. Recorded(last, o.events)
  <2>1. /\ \A i \in 1..3 : i \in 1..(n + 1)
        /\ \A i \in 1..Len(o.events) : 3 + i \in 1..(n + 1)
    BY <1>3
  <2>2. QED
    BY <1>2, <1>4, <2>1 DEF Recorded
<1>6. /\ last[n] = Event("trajectory_collected")
      /\ last[n + 1] = Event("evaluation_completed")
  BY <1>2, <1>3, <1>4
<1>7. Whole(r, db'[r])
  <2>1. db'[r] = SaveRun(pending, r, last, n, o)[r]
    BY <1>1, <1>2
  <2> HIDE DEF o, n
  <2>2. db'[r] = [status |-> RunStatus(o), category |-> o.category,
                  events |-> [i \in 0..(Len(last) - 1) |-> last[i + 1]],
                  steps |-> n, evaluation |-> EvaluationStatus(o),
                  cost |-> HasLiveCost(r, last), execution |-> "none", artifact |-> FALSE]
    BY <1>2, <2>1, SavedRow
  <2>3. n = Len(o.events) + 4
    BY DEF n, o
  <2>4. QED
    BY <1>3, <1>4, <1>5, <1>6, <2>2, <2>3, RowIsWhole
<1>8. Memory(r)' /\ Transaction(r)' /\ Committed(r)'
  BY <1>1, <1>7 DEF Memory, Transaction, Committed, Active
<1>9. Stored(r)'
  <2>1. /\ events'[r] = last /\ outcome'[r] = o
        /\ db'[r] = SaveRun(pending, r, last, n, o)[r]
    BY <1>1, <1>2
  <2> HIDE DEF o, n
  <2>2. /\ db'[r].status = RunStatus(o) /\ db'[r].evaluation = EvaluationStatus(o)
        /\ db'[r].cost = HasLiveCost(r, last)
        /\ DOMAIN db'[r].events = 0..(Len(last) - 1)
    <3> DEFINE evs == [i \in 0..(Len(last) - 1) |-> last[i + 1]]
    <3>1. db'[r] = [status |-> RunStatus(o), category |-> o.category, events |-> evs,
                    steps |-> n, evaluation |-> EvaluationStatus(o),
                    cost |-> HasLiveCost(r, last), execution |-> "none", artifact |-> FALSE]
      BY <1>2, <2>1, SavedRow
    <3>2. DOMAIN evs = 0..(Len(last) - 1)
      OBVIOUS
    <3> HIDE DEF evs
    <3>3. QED
      BY <3>1, <3>2
  <2>3. Len(last) \in Nat
    BY <1>4, LenProperties
  <2>4. QED
    BY <1>2, <2>1, <2>2, <2>3 DEF Stored
<1>10. QED
  BY <1>1, <1>2, <1>7, <1>8, <1>9, OneCall

\* The ends of a call that commit nothing.
LEMMA FinishKeeps ==
  ASSUME EvaluationIInv, NEW r \in Run, Return(r) \/ Raise(r)
  PROVE  EvaluationIInv'
<1> USE DEF EvaluationIInv, Domains, RunIInv
<1>1. /\ \E s \in {"returned", "raised"} : stage' = [stage EXCEPT ![r] = s]
      /\ UNCHANGED <<events, outcome, steps, db>>
      /\ DOMAIN pending' = Run /\ \A u \in Run \ {r} : pending'[u] = pending[u]
  BY DEF Return, Raise, Goto, EndTransaction
<1>2. Memory(r)' /\ Transaction(r)' /\ Committed(r)'
  BY <1>1 DEF Memory, Transaction, Committed, Active
<1>3. QED
  BY <1>1, <1>2, OneCall

LEMMA CrashKeeps ==
  ASSUME EvaluationIInv, Crash
  PROVE  EvaluationIInv'
<1> USE DEF EvaluationIInv, Domains, RunIInv
<1>1. /\ stage' = [r \in Run |-> IF stage[r] \in Active THEN "crashed" ELSE stage[r]]
      /\ pending' = [r \in Run |-> NoRow] /\ UNCHANGED <<events, outcome, steps, db>>
  BY DEF Crash
<1>2. ASSUME NEW r \in Run PROVE RunIInv(r)'
  <2>1. stage'[r] = "crashed" \/ (stage'[r] = stage[r] /\ stage[r] \notin Active)
    BY <1>1
  <2>2. Memory(r)'
    BY <1>1, <2>1 DEF Memory, Active
  <2>3. Transaction(r)' /\ Committed(r)'
    BY <1>1, <2>1 DEF Transaction, Committed, Active
  <2>4. QED
    BY <2>2, <2>3
<1>3. QED
  BY <1>1, <1>2

LEMMA EvaluationStep == EvaluationIInv /\ [Next]_vars => EvaluationIInv'
<1> SUFFICES ASSUME EvaluationIInv, [Next]_vars PROVE EvaluationIInv'
  OBVIOUS
<1>1. CASE UNCHANGED vars
  <2>1. UNCHANGED <<stage, events, outcome, steps, pending, db>>
    BY <1>1 DEF vars
  <2>2. Domains' /\ \A r \in Run : RunIInv(r)'
    BY <2>1 DEF EvaluationIInv, Domains, RunIInv, Memory, Transaction, Committed
  <2>3. QED
    BY <2>2 DEF EvaluationIInv
<1>2. CASE Crash
  BY <1>2, CrashKeeps
<1>3. ASSUME NEW r \in Run, Node(r) \/ Raise(r) \/ LoseCommitAnswer(r)
      PROVE  EvaluationIInv'
  BY <1>3, SetupKeeps, AgentKeeps, CollectKeeps, PublishKeeps, FinishKeeps DEF Node
<1>4. QED
  BY <1>1, <1>2, <1>3 DEF Next

------------------------------------------------------------------------------
(* Theorems                                                                 *)

\* Whatever the agents answer, wherever calls raise, a commit's answer is lost or
\* the process dies: of every run there is nothing in the table or all of it.
THEOREM Published == Spec => []PublishedRunIsWhole
<1>1. EvaluationIInv => PublishedRunIsWhole
  BY DEF EvaluationIInv, RunIInv, Committed, PublishedRunIsWhole
<1>2. QED
  BY <1>1, EvaluationInit, EvaluationStep, PTL DEF Spec

\* Only a commit changes a row, and the row was not there before.
LEMMA LedgerStep ==
  EvaluationIInv /\ [Next]_vars => [Ledger!Next]_([r \in Run |->
    IF db[r] = NoRow THEN <<"absent">>
    ELSE IF Whole(r, db[r]) THEN <<"final", db[r]>> ELSE <<"broken">>])
<1> DEFINE entry(r, row) == IF row = NoRow THEN <<"absent">>
                            ELSE IF Whole(r, row) THEN <<"final", row>> ELSE <<"broken">>
           shown == [r \in Run |-> entry(r, db[r])]
<1> SUFFICES ASSUME EvaluationIInv, [Next]_vars PROVE [Ledger!Next]_shown
  OBVIOUS
<1>1. CASE UNCHANGED db
  BY <1>1
<1>2. ASSUME NEW r \in Run, Persist(r) \/ LoseCommitAnswer(r) PROVE Ledger!Next
  <2>1. /\ db[r] = NoRow /\ Whole(r, db'[r])
        /\ \A u \in Run \ {r} : db'[u] = db[u]
    BY <1>2, PublishKeeps
  <2>2. entry(r, db[r]) = <<"absent">>
    BY <2>1
  <2>3. entry(r, db'[r]) \in {<<"absent">>, <<"final", db'[r]>>}
    BY <2>1
  <2>4. \A u \in Run : shown'[u] = shown[u] \/ Ledger!Advances(shown[u], shown'[u])
    BY <2>1, <2>2, <2>3 DEF Ledger!Advances
  <2>5. QED
    BY <2>4 DEF Ledger!Next
<1>3. UNCHANGED db \/ \E r \in Run : Persist(r) \/ LoseCommitAnswer(r)
  BY DEF Next, vars, Crash, Node, Raise, LoadBenchmark, SetupEnvironment, RunAgent,
         CollectTrajectory, Evaluate, Return
<1>4. QED
  BY <1>1, <1>2, <1>3

\* The evaluations implement the ledger: readers see a run appear once and final,
\* and never change, for any number of runs, threads and processes.
THEOREM ImplementsLedger == Spec => LedgerSpec
<1>1. Init => Ledger!Init
  BY DEF Init, Ledger!Init
<1>2. QED
  BY <1>1, EvaluationInit, EvaluationStep, LedgerStep, PTL
  DEF Spec, LedgerSpec, Ledger!Spec

\* What was stored stays, and the result is computed from what it was stored from.
LEMMA ResultStep == EvaluationIInv /\ ResultIInv /\ [Next]_vars => ResultIInv'
<1> SUFFICES ASSUME EvaluationIInv, ResultIInv, [Next]_vars PROVE ResultIInv'
  OBVIOUS
<1> USE DEF ResultIInv, EvaluationIInv, Domains
<1>1. CASE UNCHANGED vars
  BY <1>1 DEF vars, Stored
<1>2. CASE Crash
  <2>1. /\ stage' = [r \in Run |-> IF stage[r] \in Active THEN "crashed" ELSE stage[r]]
        /\ UNCHANGED <<events, outcome, db, result>>
    BY <1>2 DEF Crash
  <2>2. \A r \in Run : Stored(r)' <=> Stored(r)
    BY <2>1 DEF Stored
  <2>3. QED
    BY <2>1, <2>2 DEF Active
<1>3. ASSUME NEW r \in Run, Persist(r) \/ LoseCommitAnswer(r) PROVE ResultIInv'
  <2>1. /\ Stored(r)' /\ UNCHANGED <<outcome, result>>
        /\ \E s \in {"persisted", "raised"} : stage' = [stage EXCEPT ![r] = s]
        /\ \A u \in Run \ {r} : events'[u] = events[u] /\ db'[u] = db[u]
    BY <1>3, PublishKeeps DEF Persist, LoseCommitAnswer, Publish, Goto, Collect
  <2>2. \A u \in Run \ {r} : Stored(u)' <=> Stored(u)
    BY <2>1 DEF Stored
  <2>3. QED
    BY <2>1, <2>2
<1>4. ASSUME NEW r \in Run, Return(r) PROVE ResultIInv'
  <2>1. /\ stage[r] = "persisted" /\ stage' = [stage EXCEPT ![r] = "returned"]
        /\ result' = [result EXCEPT ![r] =
             [status |-> ResultStatus(outcome[r]), events |-> Len(events[r]),
              cost |-> HasLiveCost(r, events[r])]]
        /\ UNCHANGED <<events, outcome, db>>
    BY <1>4 DEF Return, Goto
  <2>2. \A u \in Run : Stored(u)' <=> Stored(u)
    BY <2>1 DEF Stored
  <2>3. QED
    BY <2>1, <2>2
<1>5. ASSUME NEW r \in Run,
             LoadBenchmark(r) \/ SetupEnvironment(r) \/ RunAgent(r) \/ CollectTrajectory(r)
               \/ Evaluate(r) \/ Raise(r)
      PROVE  ResultIInv'
  <2>1. /\ stage[r] \notin {"persisted", "returned"} /\ UNCHANGED <<db, result>>
        /\ \E s \in {"loaded", "ready", "acted", "collected", "evaluated", "raised"} :
             stage' = [stage EXCEPT ![r] = s]
        /\ \A u \in Run \ {r} : events'[u] = events[u] /\ outcome'[u] = outcome[u]
    BY <1>5 DEF LoadBenchmark, SetupEnvironment, RunAgent, CollectTrajectory, Evaluate, Raise,
                Goto, Collect, Active
  <2>2. \A u \in Run \ {r} : Stored(u)' <=> Stored(u)
    BY <2>1 DEF Stored
  <2>3. QED
    BY <2>1, <2>2
<1>6. QED
  BY <1>1, <1>2, <1>3, <1>4, <1>5 DEF Next, Node

\* The values that Memory leaves open once a call has ended.
TypeIInv ==
  /\ stage \in [Run -> Stage]
  /\ \A r \in Run :
       /\ events[r] \in Seq(Ev)
       /\ outcome[r] \in AgentOutcome(r) \cup {NoOutcome}
       /\ steps[r] \in Nat
       /\ pending[r] \in {NoRow, Running}
       /\ result[r].status \in {"none", "simulated", "completed", "failed"}
       /\ result[r].cost \in BOOLEAN

LEMMA TypeInit == Init => TypeIInv
<1> SUFFICES ASSUME Init PROVE TypeIInv
  OBVIOUS
<1>1. <<>> \in Seq(Ev)
  BY EmptySeq
<1>2. QED
  BY <1>1 DEF Init, TypeIInv, Stage, NoResult

\* What a node collects are events of an evaluation.
LEMMA CollectType ==
  ASSUME TypeIInv, Domains, NEW r \in Run, NEW evs \in Seq(Ev), Collect(r, evs)
  PROVE  \A u \in Run : events'[u] \in Seq(Ev)
<1>1. events' = [events EXCEPT ![r] = events[r] \o evs]
  BY DEF Collect
<1>2. events[r] \o evs \in Seq(Ev)
  BY ConcatProperties DEF TypeIInv
<1>3. QED
  BY <1>1, <1>2 DEF TypeIInv, Domains

LEMMA TypeStep == EvaluationIInv /\ ResultIInv /\ TypeIInv /\ [Next]_vars => TypeIInv'
<1> SUFFICES ASSUME EvaluationIInv, ResultIInv, TypeIInv, [Next]_vars PROVE TypeIInv'
  OBVIOUS
<1>d. Domains /\ DOMAIN result = Run
  BY DEF EvaluationIInv, ResultIInv
<1>p. \A type \in Plain : <<Event(type)>> \in Seq(Ev)
  BY EventType
<1>1. CASE UNCHANGED vars
  BY <1>1 DEF vars, TypeIInv
<1>2. CASE Crash
  BY <1>2 DEF Crash, TypeIInv, Stage, Active
<1>3. ASSUME NEW r \in Run, LoadBenchmark(r) \/ CollectTrajectory(r) PROVE TypeIInv'
  <2>1. /\ \E s \in {"loaded", "collected"} : stage' = [stage EXCEPT ![r] = s]
        /\ \E type \in {"benchmark_loaded", "trajectory_collected"} :
             Collect(r, <<Event(type)>>)
        /\ UNCHANGED <<outcome, steps, pending, result>>
    BY <1>3 DEF LoadBenchmark, CollectTrajectory, Goto
  <2>2. \A u \in Run : events'[u] \in Seq(Ev)
    BY <1>d, <1>p, <2>1, CollectType DEF Plain
  <2>3. QED
    BY <2>1, <2>2 DEF TypeIInv, Stage, Active
<1>4. ASSUME NEW r \in Run, SetupEnvironment(r) PROVE TypeIInv'
  <2>1. /\ stage' = [stage EXCEPT ![r] = "ready"]
        /\ pending' = [pending EXCEPT ![r] = Running]
        /\ Collect(r, <<Event("environment_ready")>>)
        /\ UNCHANGED <<outcome, steps, result>>
    BY <1>4 DEF SetupEnvironment, Goto, CreateRun, Running
  <2>2. \A u \in Run : events'[u] \in Seq(Ev)
    BY <1>d, <1>p, <2>1, CollectType DEF Plain
  <2>3. QED
    BY <1>d, <2>1, <2>2 DEF TypeIInv, Stage, Active, Domains
<1>5. ASSUME NEW r \in Run, RunAgent(r) PROVE TypeIInv'
  <2>1. PICK o \in AgentOutcome(r) : outcome' = [outcome EXCEPT ![r] = o]
    BY <1>5 DEF RunAgent
  <2>2. outcome'[r] = o
    BY <1>d, <2>1 DEF Domains
  <2>3. /\ stage' = [stage EXCEPT ![r] = "acted"]
        /\ Collect(r, <<Event("user_prompt")>> \o o.events)
        /\ UNCHANGED <<steps, pending, result>>
    BY <1>5, <2>2 DEF RunAgent, Goto
  <2>4. <<Event("user_prompt")>> \o o.events \in Seq(Ev)
    <3>1. o.events \in Seq(Ev)
      BY OutcomesHonest DEF Honest
    <3>2. QED
      BY <1>p, <3>1, ConcatProperties DEF Plain
  <2>5. \A u \in Run : events'[u] \in Seq(Ev)
    BY <1>d, <2>3, <2>4, CollectType
  <2>6. QED
    BY <1>d, <2>1, <2>3, <2>5 DEF TypeIInv, Stage, Active, Domains
<1>6. ASSUME NEW r \in Run, Evaluate(r) PROVE TypeIInv'
  <2>1. /\ stage' = [stage EXCEPT ![r] = "evaluated"]
        /\ steps' = [steps EXCEPT ![r] = Len(events[r])]
        /\ Collect(r, <<Event("evaluation_completed")>>)
        /\ UNCHANGED <<outcome, pending, result>>
    BY <1>6 DEF Evaluate, Goto
  <2>2. \A u \in Run : events'[u] \in Seq(Ev)
    BY <1>d, <1>p, <2>1, CollectType DEF Plain
  <2>3. Len(events[r]) \in Nat
    BY LenProperties DEF TypeIInv
  <2>4. QED
    BY <1>d, <2>1, <2>2, <2>3 DEF TypeIInv, Stage, Active, Domains
<1>7. ASSUME NEW r \in Run, Persist(r) \/ LoseCommitAnswer(r) PROVE TypeIInv'
  <2>1. /\ \E s \in {"persisted", "raised"} : stage' = [stage EXCEPT ![r] = s]
        /\ pending' = [pending EXCEPT ![r] = NoRow]
        /\ Collect(r, <<Event("persistence_requested")>>)
        /\ UNCHANGED <<outcome, steps, result>>
    BY <1>7 DEF Persist, LoseCommitAnswer, Publish, EndTransaction, Goto
  <2>2. \A u \in Run : events'[u] \in Seq(Ev)
    BY <1>d, <1>p, <2>1, CollectType DEF Plain
  <2>3. QED
    BY <1>d, <2>1, <2>2 DEF TypeIInv, Stage, Active, Domains
<1>8. ASSUME NEW r \in Run, Return(r) PROVE TypeIInv'
  <2>1. /\ stage' = [stage EXCEPT ![r] = "returned"]
        /\ result' = [result EXCEPT ![r] =
             [status |-> ResultStatus(outcome[r]), events |-> Len(events[r]),
              cost |-> HasLiveCost(r, events[r])]]
        /\ UNCHANGED <<events, outcome, steps, pending>>
    BY <1>8 DEF Return, Goto
  <2>2. ResultStatus(outcome[r]) \in {"simulated", "completed", "failed"}
    BY DEF ResultStatus
  <2>3. HasLiveCost(r, events[r]) \in BOOLEAN
    BY DEF HasLiveCost
  <2>4. QED
    BY <1>d, <2>1, <2>2, <2>3 DEF TypeIInv, Stage, Active
<1>9. ASSUME NEW r \in Run, Raise(r) PROVE TypeIInv'
  <2>1. /\ stage' = [stage EXCEPT ![r] = "raised"]
        /\ pending' = [pending EXCEPT ![r] = NoRow]
        /\ UNCHANGED <<events, outcome, steps, result>>
    BY <1>9 DEF Raise, EndTransaction, Goto
  <2>2. QED
    BY <1>d, <2>1 DEF TypeIInv, Stage, Active, Domains
<1>10. QED
  BY <1>1, <1>2, <1>3, <1>4, <1>5, <1>6, <1>7, <1>8, <1>9 DEF Next, Node

\* The state of every call, its transaction and what it returned keep their types,
\* and no committed row is ever a running one.
THEOREM EvaluationTypes == Spec => []TypeOK
<1>1. Init => ResultIInv
  BY DEF Init, ResultIInv
<1>2. ASSUME EvaluationIInv, TypeIInv PROVE TypeOK
  <2>1. ASSUME NEW r \in Run
        PROVE  pending[r].status \in {"absent", "running"} /\ db[r].status \in RowStatus
    <3>1. pending[r].status \in {"absent", "running"}
      BY <1>2 DEF TypeIInv, NoRow, Running
    <3>2. db[r].status \in RowStatus
      BY <1>2 DEF EvaluationIInv, RunIInv, Committed, Whole, NoRow, RowStatus
    <3>3. QED
      BY <3>1, <3>2
  <2>2. QED
    BY <1>2, <2>1 DEF TypeIInv, TypeOK
<1>3. QED
  BY <1>1, <1>2, EvaluationInit, EvaluationStep, ResultStep, TypeInit, TypeStep, PTL DEF Spec

\* A call past its last node, whose agent had failed.
FailureRecorded ==
  \A r \in Run : stage[r] \in {"persisted", "returned"} =>
    (outcome[r].success = FALSE <=> db[r].status = "failed")

\* An evaluation that gets past _persist has stored its agent's failure as one, and
\* nothing else as one: what AgentFailureIsRecorded says will happen, has happened.
THEOREM FailuresRecorded == Spec => []FailureRecorded
<1>1. Init => ResultIInv
  BY DEF Init, ResultIInv
<1>2. ResultIInv => FailureRecorded
  <2> SUFFICES ASSUME ResultIInv, NEW r \in Run, stage[r] \in {"persisted", "returned"}
               PROVE  outcome[r].success = FALSE <=> db[r].status = "failed"
    BY DEF FailureRecorded
  <2>1. Stored(r)
    BY DEF ResultIInv
  <2>2. outcome[r].success \in BOOLEAN
    BY <2>1, OutcomesHonest DEF Stored, Honest
  <2>3. QED
    BY <2>1, <2>2 DEF Stored, RunStatus
<1>3. QED
  BY <1>1, <1>2, EvaluationInit, EvaluationStep, ResultStep, PTL DEF Spec

\* What run() returns agrees with the rows of its run, and what a regression counts
\* with the statuses of the rows, for any number of runs.
THEOREM Returned == Spec => []ReturnedIsPublished
<1>1. Init => ResultIInv
  BY DEF Init, ResultIInv
<1>2. EvaluationIInv /\ ResultIInv => ReturnedIsPublished
  <2> SUFFICES ASSUME EvaluationIInv, ResultIInv PROVE ReturnedIsPublished
    OBVIOUS
  <2> DEFINE returned == {r \in Run : stage[r] = "returned"}
             rows(s) == {r \in returned : db[r].status = s}
             with(statuses) == {r \in returned : result[r].status \in statuses}
  <2>1. ASSUME NEW r \in returned
        PROVE  /\ db[r] # NoRow
               /\ Cardinality(DOMAIN db[r].events) = result[r].events
               /\ db[r].cost = result[r].cost
               /\ result[r].status = IF db[r].evaluation = "simulated" THEN "simulated"
                                     ELSE db[r].status
               /\ db[r].status = "completed" <=> result[r].status \in {"completed", "simulated"}
               /\ db[r].status = "failed" <=> result[r].status \in {"failed"}
    <3>1. /\ Stored(r) /\ r \in Run
          /\ result[r] = [status |-> ResultStatus(outcome[r]), events |-> Len(events[r]),
                          cost |-> HasLiveCost(r, events[r])]
      BY DEF ResultIInv
    <3>2. Cardinality(0..(Len(events[r]) - 1)) = Len(events[r])
      BY <3>1, FS_Interval DEF Stored
    <3>3. Honest(r, outcome[r])
      BY <3>1, OutcomesHonest DEF Stored
    <3>4. db[r] # NoRow
      BY <3>1 DEF Stored, RunStatus, NoRow
    <3>5. QED
      BY <3>1, <3>2, <3>3, <3>4
      DEF Stored, Honest, ResultStatus, RunStatus, EvaluationStatus
  <2>2. with({"completed", "simulated"}) = rows("completed") /\ with({"failed"}) = rows("failed")
    BY <2>1
  <2>3. Regression(returned) =
          [total |-> Cardinality(returned), passed |-> Cardinality(rows("completed")),
           failed |-> Cardinality(rows("failed"))]
    BY <2>2 DEF Regression
  <2>4. QED
    BY <2>1, <2>3 DEF ReturnedIsPublished
<1>3. QED
  BY <1>1, <1>2, EvaluationInit, EvaluationStep, ResultStep, PTL DEF Spec

------------------------------------------------------------------------------
(* Readers                                                                  *)

\* No request looks at the events of a run by its id, or at the run once more, before
\* it has found the run; the export looks at all runs first.
InOrder(selects) ==
  \A j \in DOMAIN selects :
    /\ selects[j].part = "runs" => j = 1
    /\ selects[j].part = "run" =>
         \E r \in Run :
           /\ selects[j].runs = {r}
           /\ \A i \in 1..(j - 1) : r \in selects[i].runs =>
                \E k \in 1..i : selects[k].part = "run" /\ r \in selects[k].runs

Parts == {"run", "runs", "metrics", "evaluations", "events", "page"}
Plans == Seq([part : Parts, runs : SUBSET Run])

\* The first selects of a plan have read, of what they show, what is stored now.
ReadIsStored(r) ==
  got[r].status # NoRow.status =>
    /\ db[r] # NoRow
    /\ \A i \in 1..pos : r \in plan[i].runs =>
         \A c \in ColumnsOf(plan[i].part) : got[r][c] = db[r][c]

ReaderIInv ==
  /\ plan \in Plans /\ InOrder(plan) /\ pos \in 0..Len(plan)
  /\ DOMAIN got = Run /\ \A r \in Run : DOMAIN got[r] = DOMAIN NoRow
  /\ \A r \in Run : ReadIsStored(r)
  /\ pos < Len(plan) =>
       \A i \in 1..pos : plan[i].part = "run" =>
         \A r \in plan[i].runs : got[r].status # NoRow.status

LEMMA PlanSelects ==
  ASSUME NEW p \in Plans, NEW i \in 1..Len(p)
  PROVE  p[i] \in [part : Parts, runs : SUBSET Run]
<1> DEFINE S == [part : Parts, runs : SUBSET Run]
<1>1. p \in Seq(S)
  BY DEF Plans
<1> HIDE DEF S
<1>2. p[i] \in S
  BY <1>1, ElementOfSeq
<1> QED BY <1>2 DEF S

\* The run is looked at first, then what belongs to it.
OfRun(p, r) ==
  /\ p \in Plans /\ Len(p) \in Nat \ {0} /\ p[1] = Select("run", {r})
  /\ \A j \in 2..Len(p) :
       p[j].part \in {"metrics", "evaluations", "events", "page"} /\ p[j].runs = {r}

LEMMA OneInOrder ==
  ASSUME NEW r \in Run, NEW p, OfRun(p, r)
  PROVE  InOrder(p)
<1>1. /\ DOMAIN p = 1..Len(p) /\ Len(p) \in Nat /\ p[1].part = "run" /\ p[1].runs = {r}
      /\ \A j \in 1..Len(p) : j # 1 =>
           p[j].part \in {"metrics", "evaluations", "events", "page"} /\ p[j].runs = {r}
  BY DEF OfRun, Select, Plans
<1> QED BY <1>1 DEF InOrder

LEMMA TwoInOrder ==
  ASSUME NEW r \in Run, NEW o \in Run, NEW p, NEW q, OfRun(p, r), OfRun(q, o)
  PROVE  p \o q \in Plans /\ InOrder(p \o q)
<1> DEFINE n == Len(p)
           pq == p \o q
<1>1. /\ p \in Plans /\ q \in Plans /\ n \in Nat \ {0} /\ Len(q) \in Nat \ {0}
      /\ p[1].part = "run" /\ p[1].runs = {r} /\ q[1].part = "run" /\ q[1].runs = {o}
  BY DEF OfRun, Select
<1>2. /\ pq \in Plans /\ DOMAIN pq = 1..(n + Len(q))
      /\ \A j \in 1..n : pq[j] = p[j]
      /\ \A j \in 1..Len(q) : pq[n + j] = q[j]
  BY <1>1 DEF Plans
<1> HIDE DEF pq
<1>3. /\ pq[1].part = "run" /\ pq[1].runs = {r}
      /\ pq[n + 1].part = "run" /\ pq[n + 1].runs = {o}
  BY <1>1, <1>2
<1>4. \A j \in 2..n : pq[j].part \in {"metrics", "evaluations", "events", "page"}
                      /\ pq[j].runs = {r}
  BY <1>1, <1>2 DEF OfRun
<1>5. \A j \in (n + 2)..(n + Len(q)) :
        pq[j].part \in {"metrics", "evaluations", "events", "page"} /\ pq[j].runs = {o}
  <2> SUFFICES ASSUME NEW j \in (n + 2)..(n + Len(q))
               PROVE  pq[j].part \in {"metrics", "evaluations", "events", "page"}
                      /\ pq[j].runs = {o}
    OBVIOUS
  <2>1. j - n \in 2..Len(q) /\ n + (j - n) = j
    BY <1>1
  <2>2. q[j - n].part \in {"metrics", "evaluations", "events", "page"} /\ q[j - n].runs = {o}
    BY <2>1 DEF OfRun
  <2>3. pq[n + (j - n)] = q[j - n]
    BY <1>1, <1>2, <2>1
  <2> QED BY <2>1, <2>2, <2>3
<1>6. InOrder(pq)
  <2>1. \A i \in 1..n : o \in pq[i].runs => pq[1].part = "run" /\ o \in pq[1].runs
    BY <1>1, <1>3, <1>4
  <2>2. \A i \in 1..n : o \in pq[i].runs =>
          \E k \in 1..i : pq[k].part = "run" /\ o \in pq[k].runs
    BY <2>1, <1>1
  <2>3. ASSUME NEW j \in 1..(n + Len(q))
        PROVE  /\ pq[j].part = "runs" => j = 1
               /\ pq[j].part = "run" =>
                    \E u \in Run :
                      /\ pq[j].runs = {u}
                      /\ \A i \in 1..(j - 1) : u \in pq[i].runs =>
                           \E k \in 1..i : pq[k].part = "run" /\ u \in pq[k].runs
    <3>1. CASE j = 1
      BY <3>1, <1>3
    <3>2. CASE j \in 2..n
      BY <3>2, <1>4
    <3>3. CASE j = n + 1
      <4>1. pq[j].part = "run" /\ pq[j].runs = {o} /\ 1..(j - 1) = 1..n
        BY <3>3, <1>1, <1>3
      <4> QED BY <4>1, <2>2
    <3>4. CASE j \in (n + 2)..(n + Len(q))
      BY <3>4, <1>5
    <3> QED BY <3>1, <3>2, <3>3, <3>4, <1>1
  <2> QED BY <2>3, <1>2 DEF InOrder
<1> QED BY <1>2, <1>6 DEF pq

LEMMA FourSelects ==
  ASSUME NEW S, NEW a \in S, NEW b \in S, NEW c \in S, NEW d \in S, NEW e \in S
  PROVE  LET four == <<a, b, c, d>> five == four \o <<e>> IN
         /\ four \in Seq(S) /\ Len(four) = 4
         /\ four[1] = a /\ four[2] = b /\ four[3] = c /\ four[4] = d
         /\ five \in Seq(S) /\ Len(five) = 5
         /\ five[1] = a /\ five[2] = b /\ five[3] = c /\ five[4] = d /\ five[5] = e
<1> DEFINE four == <<a, b, c, d>>
           five == four \o <<e>>
<1>1. /\ four \in Seq(S) /\ Len(four) = 4
      /\ four[1] = a /\ four[2] = b /\ four[3] = c /\ four[4] = d
  OBVIOUS
<1>2. <<e>> \in Seq(S) /\ Len(<<e>>) = 1 /\ <<e>>[1] = e
  OBVIOUS
<1> HIDE DEF four
<1> DEFINE one == <<e>>
<1> HIDE DEF one
<1>3. /\ five \in Seq(S) /\ Len(five) = Len(four) + Len(one)
      /\ \A i \in 1..(Len(four) + Len(one)) :
           five[i] = IF i <= Len(four) THEN four[i] ELSE one[i - Len(four)]
  BY <1>1, <1>2, ConcatProperties DEF one
<1> HIDE DEF five
<1>4. Len(five) = 5 /\ five[5] = e /\ \A i \in 1..4 : five[i] = four[i]
  BY <1>1, <1>2, <1>3 DEF one
<1> QED BY <1>1, <1>3, <1>4 DEF five

LEMMA RequestsOfRun ==
  ASSUME NEW r \in Run
  PROVE  /\ OfRun(GetDetails(r), r) /\ OfRun(GetRun(r), r)
         /\ OfRun(GetRun(r) \o <<Select("page", {r})>>, r)
<1> DEFINE S == [part : Parts, runs : SUBSET Run]
           Of(part) == Select(part, {r})
<1>1. \A part \in Parts : Of(part) \in S /\ Of(part).part = part /\ Of(part).runs = {r}
  BY DEF Select
<1>2. {"run", "metrics", "evaluations", "events", "page"} \subseteq Parts
  BY DEF Parts
<1>3. /\ GetDetails(r) = <<Of("run"), Of("metrics"), Of("evaluations"), Of("page")>>
      /\ GetRun(r) = <<Of("run"), Of("events"), Of("metrics"), Of("evaluations")>>
  BY DEF GetDetails, GetRun
<1>4. /\ Of("run") \in S /\ Of("run") = Select("run", {r})
      /\ Of("metrics") \in S /\ Of("metrics").part = "metrics" /\ Of("metrics").runs = {r}
      /\ Of("evaluations") \in S /\ Of("evaluations").part = "evaluations"
      /\ Of("evaluations").runs = {r}
      /\ Of("events") \in S /\ Of("events").part = "events" /\ Of("events").runs = {r}
      /\ Of("page") \in S /\ Of("page").part = "page" /\ Of("page").runs = {r}
  BY <1>1, <1>2
<1> HIDE DEF S, Of
<1>5. OfRun(GetDetails(r), r)
  <2> DEFINE p == <<Of("run"), Of("metrics"), Of("evaluations"), Of("page")>>
  <2>1. /\ p \in Seq(S) /\ Len(p) = 4
        /\ p[1] = Of("run") /\ p[2] = Of("metrics") /\ p[3] = Of("evaluations")
        /\ p[4] = Of("page")
    BY <1>4, FourSelects
  <2> HIDE DEF p
  <2>2. OfRun(p, r)
    BY <1>4, <2>1 DEF OfRun, Plans, S
  <2> QED BY <1>3, <2>2 DEF p
<1>6. OfRun(GetRun(r), r) /\ OfRun(GetRun(r) \o <<Select("page", {r})>>, r)
  <2> DEFINE p == <<Of("run"), Of("events"), Of("metrics"), Of("evaluations")>>
             q == p \o <<Of("page")>>
  <2>1. /\ p \in Seq(S) /\ Len(p) = 4
        /\ p[1] = Of("run") /\ p[2] = Of("events") /\ p[3] = Of("metrics")
        /\ p[4] = Of("evaluations")
        /\ q \in Seq(S) /\ Len(q) = 5
        /\ q[1] = Of("run") /\ q[2] = Of("events") /\ q[3] = Of("metrics")
        /\ q[4] = Of("evaluations") /\ q[5] = Of("page")
    BY <1>4, FourSelects
  <2>2. q = GetRun(r) \o <<Select("page", {r})>>
    BY <1>3 DEF Of
  <2> HIDE DEF p, q
  <2>3. OfRun(p, r)
    BY <1>4, <2>1 DEF OfRun, Plans, S
  <2>4. OfRun(q, r)
    BY <1>4, <2>1 DEF OfRun, Plans, S
  <2> QED BY <1>3, <2>2, <2>3, <2>4 DEF p
<1> QED BY <1>5, <1>6

LEMMA RequestsInOrder ==
  ASSUME NEW p \in Request
  PROVE  p \in Plans /\ InOrder(p)
<1>1. Export \in Plans /\ InOrder(Export)
  BY DEF Export, Select, InOrder, Plans, Parts
<1>2. ASSUME NEW r \in Run, OfRun(p, r)
      PROVE  p \in Plans /\ InOrder(p)
  BY <1>2, OneInOrder DEF OfRun
<1>3. ASSUME NEW r \in Run, NEW o \in Run, p = GetDetails(r) \o GetDetails(o)
      PROVE  p \in Plans /\ InOrder(p)
  BY <1>3, RequestsOfRun, TwoInOrder
<1>4. CASE p = Export
  BY <1>1, <1>4
<1>5. ASSUME NEW r \in Run,
             p \in {ApiDetails(r), McpDetails(r), History(r), ApiTrace(r), McpTrace(r),
                    BackendTrace(r), ApiMetrics(r)}
      PROVE  p \in Plans /\ InOrder(p)
  <2>1. p = GetDetails(r) \/ p = GetRun(r) \/ p = GetRun(r) \o <<Select("page", {r})>>
    BY <1>5 DEF ApiDetails, McpDetails, History, ApiTrace, McpTrace, BackendTrace, ApiMetrics
  <2> QED BY <1>2, <2>1, RequestsOfRun
<1>6. ASSUME NEW r \in Run, NEW o \in Run,
             p \in {ApiCompare(r, o), McpCompare(r, o), BackendCompare(r, o)}
      PROVE  p \in Plans /\ InOrder(p)
  <2>1. p = GetDetails(r) \o GetDetails(o)
    BY <1>6 DEF ApiCompare, McpCompare, BackendCompare
  <2> QED BY <1>3, <2>1
<1> DEFINE ofOne(r) == {ApiDetails(r), McpDetails(r), History(r), ApiTrace(r), McpTrace(r),
                        BackendTrace(r), ApiMetrics(r)}
           ofTwo(r, o) == {ApiCompare(r, o), McpCompare(r, o), BackendCompare(r, o)}
<1>7. /\ \A r \in Run : p \in ofOne(r) => p \in Plans /\ InOrder(p)
      /\ \A r \in Run, o \in Run : p \in ofTwo(r, o) => p \in Plans /\ InOrder(p)
  BY <1>5, <1>6
<1> DEFINE someOne == UNION {ofOne(r) : r \in Run}
           someTwo == UNION {ofTwo(r, o) : r \in Run, o \in Run}
<1>8. Request = {Export} \cup someOne \cup someTwo
  BY DEF Request
<1> HIDE DEF ofOne, ofTwo
<1>9. ASSUME p \in someOne PROVE \E r \in Run : p \in ofOne(r)
  BY <1>9
<1>10. ASSUME p \in someTwo PROVE \E r \in Run, o \in Run : p \in ofTwo(r, o)
  <2>1. PICK e \in {ofTwo(r, o) : r \in Run, o \in Run} : p \in e
    BY <1>10
  <2>2. \E r \in Run, o \in Run : e = ofTwo(r, o)
    BY <2>1
  <2> QED BY <2>1, <2>2
<1> HIDE DEF someOne, someTwo
<1> QED BY <1>4, <1>7, <1>8, <1>9, <1>10

\* Whoever finds a run finds it finished.
LEMMA StoredIsFinal ==
  ASSUME EvaluationIInv, NEW r \in Run, db[r] # NoRow
  PROVE  db[r].status # NoRow.status
<1>1. Whole(r, db[r])
  BY DEF EvaluationIInv, RunIInv, Committed
<1> QED BY <1>1 DEF Whole, NoRow

\* A SELECT that finds its run.
LEMMA ReadFinds ==
  ASSUME EvaluationIInv, ReaderIInv, Read, ~NotFound
  PROVE  ReaderIInv'
<1> DEFINE s == plan[pos + 1]
<1>1. /\ pos' = pos + 1 /\ plan' = plan /\ db' = db /\ pos < Len(plan)
  BY DEF Read, vars
<1>2. Len(plan) \in Nat /\ DOMAIN plan = 1..Len(plan) /\ pos \in Nat /\ plan \in Plans
  BY DEF ReaderIInv, Plans
<1>3. pos + 1 \in 1..Len(plan)
  BY <1>1, <1>2
<1>4. s \in [part : Parts, runs : SUBSET Run]
  BY <1>2, <1>3, PlanSelects
<1>5. s.part \in Parts /\ s.runs \subseteq Run
  BY <1>4
<1>6. /\ DOMAIN got' = Run
      /\ \A r \in Run :
           got'[r] = IF r \in s.runs /\ (Related(s.part) => got[r] # NoRow)
                       THEN Copy(s.part, db[r], got[r]) ELSE got[r]
  BY DEF Read
<1>7. \A r \in Run : DOMAIN got'[r] = DOMAIN NoRow
  BY <1>6 DEF ReaderIInv, Copy
<1>8. /\ ColumnsOf(s.part) \subseteq DOMAIN NoRow
      /\ "status" \in ColumnsOf(s.part) <=> s.part \in {"run", "runs"}
  BY <1>5 DEF ColumnsOf, Parts, NoRow
<1>9. \A r \in Run : \A c \in DOMAIN NoRow :
        got'[r][c] = IF r \in s.runs /\ (Related(s.part) => got[r] # NoRow)
                          /\ c \in ColumnsOf(s.part)
                       THEN db[r][c] ELSE got[r][c]
  BY <1>6 DEF ReaderIInv, Copy
<1>10. "status" \in DOMAIN NoRow
  BY DEF NoRow
<1>11. s.part = "run" =>
         \E r \in Run :
           /\ s.runs = {r}
           /\ \A i \in 1..pos : r \in plan[i].runs =>
                \E k \in 1..i : plan[k].part = "run" /\ r \in plan[k].runs
  <2>1. (pos + 1) - 1 = pos
    BY <1>2
  <2> QED BY <1>2, <1>3, <2>1 DEF ReaderIInv, InOrder
<1>12. s.part = "runs" => pos = 0
  BY <1>2, <1>3 DEF ReaderIInv, InOrder
<1> HIDE DEF s
\* What is known of a run after the select was known before, or read from its row.
<1>13. ASSUME NEW r \in Run, got'[r].status # NoRow.status
       PROVE  /\ db[r] # NoRow
              /\ got[r].status # NoRow.status \/ (s.part \in {"run", "runs"} /\ r \in s.runs)
  <2>1. CASE got[r].status # NoRow.status
    BY <2>1 DEF ReaderIInv, ReadIsStored
  <2>2. CASE got[r].status = NoRow.status
    BY <2>2, <1>8, <1>9, <1>10, <1>13
  <2> QED BY <2>1, <2>2
<1>14. ASSUME NEW r \in Run, got'[r].status # NoRow.status, NEW i \in 1..pos,
              r \in plan[i].runs
       PROVE  got[r].status # NoRow.status
  <2>1. CASE s.part = "run" /\ r \in s.runs
    <3>1. PICK k \in 1..i : plan[k].part = "run" /\ r \in plan[k].runs
      BY <2>1, <1>11, <1>14
    <3>2. k \in 1..pos
      BY <1>2
    <3> QED BY <3>1, <3>2, <1>1 DEF ReaderIInv
  <2>2. CASE s.part = "runs"
    BY <2>2, <1>12
  <2> QED BY <2>1, <2>2, <1>13, <1>14
<1>15. ASSUME NEW r \in Run PROVE ReadIsStored(r)'
  <2> SUFFICES ASSUME got'[r].status # NoRow.status, NEW i \in 1..(pos + 1),
                      r \in plan[i].runs, NEW c \in ColumnsOf(plan[i].part)
               PROVE  db[r] # NoRow /\ got'[r][c] = db[r][c]
    <3>1. db[r] # NoRow \/ got'[r].status = NoRow.status
      BY <1>13
    <3> QED BY <1>1, <3>1 DEF ReadIsStored
  <2>1. CASE i = pos + 1
    <3>1. r \in s.runs /\ c \in ColumnsOf(s.part) /\ c \in DOMAIN NoRow
      BY <2>1, <1>8 DEF s
    <3>2. Related(s.part) => got[r] # NoRow
      BY <1>13 DEF Related
    <3> QED BY <3>1, <3>2, <1>9, <1>13
  <2>2. CASE i \in 1..pos
    <3>1. got[r].status # NoRow.status
      BY <2>2, <1>14
    <3>2. got[r][c] = db[r][c]
      BY <2>2, <3>1 DEF ReaderIInv, ReadIsStored
    <3>3. c \in DOMAIN NoRow
      <4>1. plan[i] \in [part : Parts, runs : SUBSET Run]
        BY <2>2, <1>2, <1>3, PlanSelects
      <4>2. plan[i].part \in Parts
        BY <4>1
      <4> QED BY <4>2 DEF ColumnsOf, Parts, NoRow
    <3> QED BY <3>2, <3>3, <1>9, <1>13
  <2> QED BY <2>1, <2>2, <1>2
<1>16. ASSUME NEW i \in 1..(pos + 1), plan[i].part = "run", NEW r \in plan[i].runs
       PROVE  got'[r].status # NoRow.status
  <2>1. CASE i = pos + 1
    <3>1. s.part = "run" /\ s.runs = {r} /\ r \in Run
      BY <2>1, <1>11, <1>16 DEF s
    <3>2. db[r] # NoRow
      BY <3>1 DEF NotFound, s
    <3>3. got'[r].status = db[r].status
      BY <3>1, <1>8, <1>9, <1>10 DEF Related
    <3> QED BY <3>1, <3>2, <3>3, StoredIsFinal
  <2>2. CASE i \in 1..pos
    <3>1. got[r].status # NoRow.status
      BY <2>2, <1>1, <1>16 DEF ReaderIInv
    <3>2. r \in Run
      <4>1. plan[i] \in [part : Parts, runs : SUBSET Run]
        BY <2>2, <1>2, <1>3, PlanSelects
      <4> QED BY <4>1
    <3>3. db[r] # NoRow
      BY <3>1, <3>2 DEF ReaderIInv, ReadIsStored
    <3>4. got'[r].status \in {got[r].status, db[r].status}
      BY <3>2, <1>9, <1>10
    <3> QED BY <3>1, <3>2, <3>3, <3>4, StoredIsFinal
  <2> QED BY <2>1, <2>2, <1>2
<1>17. pos' \in 0..Len(plan)
  BY <1>1, <1>2
<1> QED BY <1>1, <1>6, <1>7, <1>15, <1>16, <1>17 DEF ReaderIInv

\* A row that is in the table stays as it is.
LEMMA CommittedStays ==
  ASSUME EvaluationIInv, [Next]_vars
  PROVE  \A r \in Run : db[r] # NoRow => db'[r] = db[r]
<1>1. ASSUME NEW r \in Run, Persist(r) \/ LoseCommitAnswer(r)
      PROVE  \A u \in Run : db[u] # NoRow => db'[u] = db[u]
  BY <1>1, PublishKeeps
<1>2. UNCHANGED db \/ \E r \in Run : Persist(r) \/ LoseCommitAnswer(r)
  BY DEF Next, vars, Crash, Node, Raise, LoadBenchmark, SetupEnvironment, RunAgent,
         CollectTrajectory, Evaluate, Return
<1> QED BY <1>1, <1>2

\* A commit while a request is being answered changes nothing it has read.
LEMMA ReaderSeesCommits ==
  ASSUME EvaluationIInv, ReaderIInv, [Next]_vars, UNCHANGED readerVars
  PROVE  ReaderIInv'
<1>1. \A r \in Run : db[r] # NoRow => db'[r] = db[r]
  BY CommittedStays
<1>2. plan' = plan /\ pos' = pos /\ got' = got
  BY DEF readerVars
<1>3. \A r \in Run : ReadIsStored(r)'
  BY <1>1, <1>2 DEF ReaderIInv, ReadIsStored
<1> QED BY <1>2, <1>3 DEF ReaderIInv

LEMMA ReaderStep ==
  EvaluationIInv /\ ReaderIInv /\ [ReadersNext]_allVars => ReaderIInv'
<1> SUFFICES ASSUME EvaluationIInv, ReaderIInv, [ReadersNext]_allVars PROVE ReaderIInv'
  OBVIOUS
<1>1. CASE Evaluation \/ UNCHANGED allVars
  <2>1. [Next]_vars /\ UNCHANGED readerVars
    BY <1>1 DEF Evaluation, allVars
  <2> QED BY <2>1, ReaderSeesCommits
<1>2. CASE BeginWalk \/ ListSelect \/ NextPage
  <2>1. UNCHANGED <<plan, pos, got, db>>
    BY <1>2 DEF BeginWalk, ListSelect, NextPage, vars
  <2> QED BY <2>1 DEF ReaderIInv, ReadIsStored
<1>3. CASE Ask
  <2>1. /\ plan = <<>> /\ plan' \in Request /\ pos' = pos /\ got' = got /\ db' = db
    BY <1>3 DEF Ask, Idle, vars
  <2>2. pos = 0
    BY <2>1, EmptySeq DEF ReaderIInv
  <2>3. plan' \in Plans /\ InOrder(plan')
    BY <2>1, RequestsInOrder
  <2>4. Len(plan') \in Nat
    BY <2>3 DEF Plans
  <2> QED BY <2>1, <2>2, <2>3, <2>4 DEF ReaderIInv, ReadIsStored
<1>4. CASE Read /\ NotFound
  <2>1. /\ pos < Len(plan) /\ pos' = Len(plan) /\ got' = Blank /\ plan' = plan
    BY <1>4 DEF Read
  <2>2. /\ DOMAIN got' = Run
        /\ \A r \in Run : got'[r] = NoRow
    BY <2>1 DEF Blank
  <2>3. Len(plan) \in Nat
    BY DEF ReaderIInv, Plans
  <2>4. \A r \in Run : ReadIsStored(r)'
    BY <2>2 DEF ReadIsStored
  <2> QED BY <2>1, <2>2, <2>3, <2>4 DEF ReaderIInv
<1>5. CASE Read /\ ~NotFound
  BY <1>5, ReadFinds
<1> QED BY <1>1, <1>2, <1>3, <1>4, <1>5 DEF ReadersNext

\* Whatever the readers do, the evaluations go on as without them.
LEMMA ReaderStepIsEvaluationStep == [ReadersNext]_allVars => [Next]_vars
BY DEF ReadersNext, allVars, Evaluation, Ask, Read, BeginWalk, ListSelect, NextPage

LEMMA EvaluationsGoOn == EvaluationIInv /\ [ReadersNext]_allVars => EvaluationIInv'
BY ReaderStepIsEvaluationStep, EvaluationStep

\* The requests and the walks of readers are invisible to the evaluations they
\* read of: every behaviour with readers is one of the evaluations, so what is
\* proved of Spec holds of the database that readers look at.
THEOREM ReadersOnlyRead == ReadersSpec => Spec
<1>1. ReadersInit => Init
  BY DEF ReadersInit
<1> QED BY <1>1, ReaderStepIsEvaluationStep, PTL DEF ReadersSpec, Spec

\* A request is put together from several moments, and what it shows of a finished
\* run is all that is stored of it, for any runs, readers and writers.
THEOREM ReadersSeeWhole == ReadersSpec => []FinalReadIsWhole
<1>1. ReadersInit => EvaluationIInv /\ ReaderIInv
  <2> SUFFICES ASSUME ReadersInit PROVE EvaluationIInv /\ ReaderIInv
    OBVIOUS
  <2>1. plan = <<>> /\ pos = 0 /\ got = Blank /\ Init
    BY DEF ReadersInit
  <2>2. plan \in Plans /\ Len(plan) = 0 /\ DOMAIN plan = 1..0
    BY <2>1, EmptySeq DEF Plans
  <2>3. InOrder(plan)
    BY <2>2 DEF InOrder
  <2>4. DOMAIN got = Run /\ \A r \in Run : got[r] = NoRow
    BY <2>1 DEF Blank
  <2>5. ReaderIInv
    BY <2>1, <2>2, <2>3, <2>4 DEF ReaderIInv, ReadIsStored
  <2> QED BY <2>1, <2>5, EvaluationInit
<1>2. EvaluationIInv /\ [ReadersNext]_allVars => EvaluationIInv'
  BY EvaluationsGoOn
<1>3. ReaderIInv => FinalReadIsWhole
  <2> SUFFICES ASSUME ReaderIInv, pos = Len(plan), NEW r \in Run,
                      got[r].status \in {"completed", "failed"}
               PROVE  \A i \in DOMAIN plan : r \in plan[i].runs =>
                        \A c \in ColumnsOf(plan[i].part) : got[r][c] = db[r][c]
    BY DEF FinalReadIsWhole
  <2>1. got[r].status # NoRow.status
    BY DEF NoRow
  <2>2. DOMAIN plan = 1..pos
    BY DEF ReaderIInv, Plans
  <2> QED BY <2>1, <2>2 DEF ReaderIInv, ReadIsStored
<1> QED BY <1>1, <1>2, <1>3, ReaderStep, PTL DEF ReadersSpec

------------------------------------------------------------------------------
(* Paging                                                                   *)

Started == {r \in Run : startedAt[r] > 0}

\* No two runs have one started_at, and who has a row has been started.
StartIInv ==
  /\ startedAt \in [Run -> Nat] /\ IsFiniteSet(Started)
  /\ \A r \in Started : startedAt[r] <= Cardinality(Started)
  /\ \A r, o \in Started : startedAt[r] = startedAt[o] => r = o
  /\ \A r \in Run : stage[r] \in {"new", "loaded"} => startedAt[r] = 0
  /\ \A r \in Run : pending[r] # NoRow \/ db[r] # NoRow => startedAt[r] > 0

Walk == [at : 0..4, offset : Nat, rows : Nat, total : Nat,
         shown : SUBSET Run, existing : SUBSET Run]

\* A run the user has not seen yet is behind the page he is at, and on the next one
\* if the count was made.
NotPassed(r) ==
  /\ r \in Listed /\ walk.at # 4
  /\ walk.at \in {0, 1} => Place(r) >= walk.offset
  /\ walk.at \in {2, 3} => Place(r) >= walk.offset + walk.rows
  /\ walk.at = 3 => walk.total > walk.offset + walk.rows

WalkIInv ==
  /\ walk \in Walk /\ (walk.at = 0 => walk.offset = 0)
  /\ \A r \in walk.existing \ walk.shown : NotPassed(r)

LEMMA PlaceBounds ==
  ASSUME StartIInv
  PROVE  /\ Listed \subseteq Started /\ IsFiniteSet(Listed) /\ Cardinality(Listed) \in Nat
         /\ \A r \in Run : IsFiniteSet(Later(r)) /\ Place(r) \in Nat
         /\ \A r \in Listed : Place(r) < Cardinality(Listed)
<1>1. Listed \subseteq Started /\ IsFiniteSet(Started)
  BY DEF StartIInv, Listed, Started
<1>2. IsFiniteSet(Listed) /\ Cardinality(Listed) \in Nat
  BY <1>1, FS_Subset, FS_CardinalityType
<1>3. ASSUME NEW r \in Run PROVE IsFiniteSet(Later(r)) /\ Place(r) \in Nat
  <2>1. Later(r) \in SUBSET Listed
    BY DEF Later
  <2>2. IsFiniteSet(Later(r))
    BY <1>2, <2>1, FS_Subset
  <2>3. QED
    BY <2>2, FS_CardinalityType DEF Place
<1>4. ASSUME NEW r \in Listed PROVE Place(r) < Cardinality(Listed)
  <2>1. Later(r) \in SUBSET Listed /\ r \in Run
    BY DEF Later, Listed
  <2>2. r \notin Later(r)
    <3>1. startedAt[r] \in Nat
      BY <2>1 DEF StartIInv
    <3>2. QED
      BY <3>1 DEF Later
  <2>3. Cardinality(Later(r)) <= Cardinality(Listed)
        /\ (Cardinality(Listed) = Cardinality(Later(r)) => Listed = Later(r))
    BY <1>2, <2>1, FS_Subset
  <2>4. Cardinality(Later(r)) # Cardinality(Listed)
    BY <2>2, <2>3
  <2>5. QED
    BY <1>2, <1>3, <2>1, <2>3, <2>4 DEF Place
<1>5. QED
  BY <1>1, <1>2, <1>3, <1>4

\* Every listed run has a place of its own.
LEMMA PlacesDiffer ==
  ASSUME StartIInv, NEW r \in Listed, NEW o \in Listed, r # o
  PROVE  Place(r) # Place(o)
<1>1. r \in Started /\ o \in Started /\ startedAt[r] \in Nat /\ startedAt[o] \in Nat
      /\ startedAt[r] # startedAt[o]
  BY PlaceBounds DEF StartIInv, Started
<1>2. ASSUME NEW a \in Listed, NEW b \in Listed, startedAt[a] > startedAt[b]
      PROVE  Place(a) # Place(b)
  <2>1. a \in Run /\ b \in Run /\ startedAt[a] \in Nat /\ startedAt[b] \in Nat
        /\ \A u \in Listed : startedAt[u] \in Nat
    BY DEF StartIInv, Listed
  <2>2. Later(a) \in SUBSET Later(b)
    BY <1>2, <2>1 DEF Later
  <2>3. a \in Later(b) /\ a \notin Later(a)
    BY <1>2, <2>1 DEF Later
  <2>4. IsFiniteSet(Later(b))
    BY <2>1, PlaceBounds
  <2>5. Cardinality(Later(b)) = Cardinality(Later(a)) => Later(b) = Later(a)
    BY <2>2, <2>4, FS_Subset
  <2>6. QED
    BY <2>3, <2>5 DEF Place
<1>3. CASE startedAt[r] > startedAt[o]
  BY <1>2, <1>3
<1>4. CASE startedAt[o] > startedAt[r]
  BY <1>2, <1>4
<1>5. QED
  BY <1>1, <1>3, <1>4

\* So a page has no more rows than were asked for.
LEMMA PageFits ==
  ASSUME StartIInv, NEW offset \in Nat
  PROVE  Cardinality(ListRuns(offset)) \in 0..PageSize
<1> DEFINE page == ListRuns(offset)
           places == offset..(offset + PageSize - 1)
           f == [r \in page |-> Place(r)]
<1>1. PageSize \in Nat \ {0}
  BY ReadersAssumption
<1>2. IsFiniteSet(places) /\ Cardinality(places) = PageSize
  BY <1>1, FS_Interval
<1>3. page \in SUBSET Listed /\ f \in [page -> places]
  BY DEF ListRuns
<1>4. IsFiniteSet(page) /\ Cardinality(page) \in Nat
  BY <1>3, PlaceBounds, FS_Subset, FS_CardinalityType
<1>5. \A x, y \in page : x # y => f[x] # f[y]
  BY <1>3, PlacesDiffer
<1>6. ~(Cardinality(places) < Cardinality(page))
  <2> HIDE DEF page, places, f
  <2>1. QED
    BY <1>2, <1>3, <1>4, <1>5, FS_PigeonHole
<1>7. QED
  BY <1>1, <1>2, <1>4, <1>6

\* A run is started once, and its row is committed later.
LEMMA StartStep ==
  ASSUME EvaluationIInv, StartIInv, Evaluation
  PROVE  /\ StartIInv'
         /\ \A r \in Started : startedAt'[r] = startedAt[r]
<1>1. /\ startedAt' = [r \in Run |-> IF pending[r] = NoRow /\ pending'[r] # NoRow
                                       THEN Now ELSE startedAt[r]]
      /\ Next
  BY DEF Evaluation
<1>2. DOMAIN stage = Run /\ DOMAIN pending = Run /\ DOMAIN db = Run
      /\ startedAt \in [Run -> Nat]
  BY DEF EvaluationIInv, Domains, StartIInv
<1>3. Now = Cardinality(Started) + 1 /\ IsFiniteSet(Started) /\ Cardinality(Started) \in Nat
  BY FS_CardinalityType DEF Now, Started, StartIInv
<1>4. ASSUME NEW r \in Run, SetupEnvironment(r)
      PROVE  StartIInv' /\ \A u \in Started : startedAt'[u] = startedAt[u]
  <2>1. /\ stage[r] = "loaded" /\ stage' = [stage EXCEPT ![r] = "ready"]
        /\ pending' = [pending EXCEPT ![r] = Running] /\ db' = db
    BY <1>4 DEF SetupEnvironment, Goto, CreateRun, Running
  <2>2. startedAt[r] = 0 /\ pending[r] = NoRow /\ Running # NoRow
    BY <2>1 DEF StartIInv, Running, NoRow
  <2>3. startedAt' = [startedAt EXCEPT ![r] = Now]
    BY <1>1, <1>2, <2>1, <2>2
  <2>4. Started' = Started \cup {r} /\ r \notin Started
    BY <1>2, <1>3, <2>2, <2>3 DEF Started
  <2>5. IsFiniteSet(Started') /\ Cardinality(Started') = Cardinality(Started) + 1
    BY <1>3, <2>4, FS_AddElement
  <2>6. startedAt' \in [Run -> Nat]
    BY <1>2, <1>3, <2>3
  <2>7. \A u \in Started' : startedAt'[u] <= Cardinality(Started')
    BY <1>2, <1>3, <2>3, <2>4, <2>5 DEF StartIInv, Started
  <2>8. \A u, o \in Started' : startedAt'[u] = startedAt'[o] => u = o
    <3>1. \A u \in Started : startedAt'[u] = startedAt[u] /\ startedAt[u] < Now
      BY <1>2, <1>3, <2>3, <2>4 DEF StartIInv, Started
    <3>2. startedAt'[r] = Now
      BY <1>2, <2>3
    <3>3. \A u \in Started : startedAt'[u] # startedAt'[r]
      BY <1>2, <1>3, <3>1, <3>2 DEF Started
    <3>4. QED
      BY <2>4, <3>1, <3>3 DEF StartIInv
  <2>9. \A u \in Run : stage'[u] \in {"new", "loaded"} => startedAt'[u] = 0
    BY <1>2, <2>1, <2>3 DEF StartIInv
  <2>10. \A u \in Run : pending'[u] # NoRow \/ db'[u] # NoRow => startedAt'[u] > 0
    BY <1>2, <1>3, <2>1, <2>3 DEF StartIInv
  <2>11. \A u \in Started : startedAt'[u] = startedAt[u]
    BY <1>2, <2>3, <2>4 DEF Started
  <2>12. StartIInv'
    BY <2>5, <2>6, <2>7, <2>8, <2>9, <2>10 DEF StartIInv
  <2>13. QED
    BY <2>11, <2>12
<1>5. ASSUME \A r \in Run : ~SetupEnvironment(r)
      PROVE  StartIInv' /\ \A u \in Started : startedAt'[u] = startedAt[u]
  <2>1. \A r \in Run :
          /\ pending'[r] \in {pending[r], NoRow}
          /\ stage'[r] \in {"new", "loaded"} => stage[r] \in {"new", "loaded"}
          /\ db'[r] # db[r] => stage[r] = "evaluated"
    <3>1. ASSUME NEW r \in Run, Persist(r) \/ LoseCommitAnswer(r)
          PROVE  \A u \in Run :
                   /\ pending'[u] \in {pending[u], NoRow}
                   /\ stage'[u] \in {"new", "loaded"} => stage[u] \in {"new", "loaded"}
                   /\ db'[u] # db[u] => stage[u] = "evaluated"
      BY <1>2, <3>1 DEF Persist, LoseCommitAnswer, Publish, EndTransaction, Goto
    <3>2. ASSUME NEW r \in Run,
                 LoadBenchmark(r) \/ RunAgent(r) \/ CollectTrajectory(r) \/ Evaluate(r)
                   \/ Return(r) \/ Raise(r)
          PROVE  \A u \in Run :
                   /\ pending'[u] \in {pending[u], NoRow}
                   /\ stage'[u] \in {"new", "loaded"} => stage[u] \in {"new", "loaded"}
                   /\ db'[u] # db[u] => stage[u] = "evaluated"
      BY <1>2, <3>2 DEF LoadBenchmark, RunAgent, CollectTrajectory, Evaluate, Return, Raise,
                        EndTransaction, Goto
    <3>3. CASE Crash
      BY <1>2, <3>3 DEF Crash
    <3>4. QED
      BY <1>1, <1>5, <3>1, <3>2, <3>3 DEF Next, Node
  <2>2. startedAt' = startedAt
    BY <1>1, <1>2, <2>1
  <2>3. \A r \in Run : stage[r] = "evaluated" => startedAt[r] > 0
    <3>1. Running # NoRow
      BY DEF Running, NoRow
    <3>2. QED
      BY <3>1 DEF EvaluationIInv, RunIInv, Transaction, StartIInv
  <2>4. QED
    BY <2>1, <2>2, <2>3 DEF StartIInv, Started
<1>6. QED
  BY <1>4, <1>5

\* Commits only push the runs of a walk further down the list.
LEMMA PlaceGrows ==
  ASSUME EvaluationIInv, StartIInv, Evaluation, NEW r \in Listed
  PROVE  /\ r \in Listed' /\ Place(r)' >= Place(r)
         /\ Place(r) \in Nat /\ Place(r)' \in Nat
<1>1. StartIInv' /\ \A u \in Started : startedAt'[u] = startedAt[u]
  BY StartStep
<1>2. \A u \in Listed : u \in Started /\ db'[u] = db[u]
  BY PlaceBounds, CommittedStays DEF Evaluation, Listed
<1>3. Listed \subseteq Listed'
  BY <1>2 DEF Listed
<1>4. Later(r) \in SUBSET Later(r)'
  BY <1>1, <1>2, <1>3 DEF Later
<1>5. IsFiniteSet(Later(r)')
  <2>1. Later(r)' \in SUBSET Started' /\ IsFiniteSet(Started')
    BY <1>1 DEF Later, Listed, StartIInv, Started
  <2>2. QED
    BY <2>1, FS_Subset
<1>6. Cardinality(Later(r)) <= Cardinality(Later(r)')
  BY <1>4, <1>5, FS_Subset
<1>7. Place(r) \in Nat /\ Place(r)' \in Nat
  BY <1>5, PlaceBounds, FS_CardinalityType DEF Place, Listed
<1>8. QED
  BY <1>3, <1>6, <1>7 DEF Place

\* What the steps of a walk make of it.
Moved(v, at, offset, rows, total, shown, existing) ==
  /\ v \in Walk /\ v.at = at /\ v.offset = offset /\ v.rows = rows /\ v.total = total
  /\ v.shown = shown /\ v.existing = existing

LEMMA WalkBegins ==
  ASSUME NEW w \in Walk, NEW at \in 0..4, NEW existing \in SUBSET Run
  PROVE  Moved([w EXCEPT !.at = at, !.existing = existing],
               at, w.offset, w.rows, w.total, w.shown, existing)
<1> DEFINE v == [w EXCEPT !.at = at, !.existing = existing]
<1>1. v \in Walk
  BY DEF Walk
<1>2. v.at = at /\ v.existing = existing
  BY DEF Walk
<1>3. v.offset = w.offset /\ v.rows = w.rows
  BY DEF Walk
<1>4. v.total = w.total /\ v.shown = w.shown
  BY DEF Walk
<1> HIDE DEF v
<1>5. QED
  BY <1>1, <1>2, <1>3, <1>4 DEF Moved, v

LEMMA PageListed ==
  ASSUME NEW w \in Walk, NEW rows \in Nat, NEW page \in SUBSET Run
  PROVE  Moved([w EXCEPT !.rows = rows, !.shown = @ \cup page],
               w.at, w.offset, rows, w.total, w.shown \cup page, w.existing)
<1> DEFINE v == [w EXCEPT !.rows = rows, !.shown = @ \cup page]
<1>1. v \in Walk
  BY DEF Walk
<1>2. v.at = w.at /\ v.existing = w.existing
  BY DEF Walk
<1>3. v.offset = w.offset /\ v.rows = rows
  BY DEF Walk
<1>4. v.total = w.total /\ v.shown = w.shown \cup page
  BY DEF Walk
<1> HIDE DEF v
<1>5. QED
  BY <1>1, <1>2, <1>3, <1>4 DEF Moved, v

LEMMA PageCounted ==
  ASSUME NEW w \in Walk, NEW total \in Nat
  PROVE  Moved([w EXCEPT !.total = total],
               w.at, w.offset, w.rows, total, w.shown, w.existing)
<1> DEFINE v == [w EXCEPT !.total = total]
<1>1. v \in Walk
  BY DEF Walk
<1>2. v.at = w.at /\ v.existing = w.existing
  BY DEF Walk
<1>3. v.offset = w.offset /\ v.rows = w.rows
  BY DEF Walk
<1>4. v.total = total /\ v.shown = w.shown
  BY DEF Walk
<1> HIDE DEF v
<1>5. QED
  BY <1>1, <1>2, <1>3, <1>4 DEF Moved, v

LEMMA PageLeft ==
  ASSUME NEW w \in Walk, NEW at \in 0..4, NEW offset \in Nat
  PROVE  Moved([w EXCEPT !.at = at, !.offset = offset],
               at, offset, w.rows, w.total, w.shown, w.existing)
<1> DEFINE v == [w EXCEPT !.at = at, !.offset = offset]
<1>1. v \in Walk
  BY DEF Walk
<1>2. v.at = at /\ v.existing = w.existing
  BY DEF Walk
<1>3. v.offset = offset /\ v.rows = w.rows
  BY DEF Walk
<1>4. v.total = w.total /\ v.shown = w.shown
  BY DEF Walk
<1> HIDE DEF v
<1>5. QED
  BY <1>1, <1>2, <1>3, <1>4 DEF Moved, v

LEMMA Advanced ==
  ASSUME NEW w \in Walk, w.at \in 1..3
  PROVE  Moved([w EXCEPT !.at = @ + 1],
               w.at + 1, w.offset, w.rows, w.total, w.shown, w.existing)
<1> DEFINE v == [w EXCEPT !.at = @ + 1]
<1>1. v \in Walk
  BY DEF Walk
<1>2. v.at = w.at + 1 /\ v.existing = w.existing
  BY DEF Walk
<1>3. v.offset = w.offset /\ v.rows = w.rows
  BY DEF Walk
<1>4. v.total = w.total /\ v.shown = w.shown
  BY DEF Walk
<1> HIDE DEF v
<1>5. QED
  BY <1>1, <1>2, <1>3, <1>4 DEF Moved, v

LEMMA WalkStep ==
  ASSUME EvaluationIInv, StartIInv, WalkIInv, [ReadersNext]_allVars
  PROVE  StartIInv' /\ WalkIInv'
<1>1. CASE UNCHANGED allVars
  BY <1>1 DEF allVars, vars, readerVars, StartIInv, Started, WalkIInv, NotPassed, Listed,
              Place, Later
<1>2. CASE Evaluation
  <2>1. StartIInv' /\ walk' = walk
    BY <1>2, StartStep DEF Evaluation, readerVars
  <2>2. ASSUME NEW r \in walk.existing \ walk.shown PROVE NotPassed(r)'
    <3>1. NotPassed(r)
      BY DEF WalkIInv
    <3>2. r \in Listed' /\ Place(r)' >= Place(r)
      BY <1>2, <3>1, PlaceGrows DEF NotPassed
    <3>3. Place(r) \in Nat /\ Place(r)' \in Nat
      BY <1>2, <3>1, PlaceGrows DEF NotPassed
    <3>4. QED
      BY <2>1, <3>1, <3>2, <3>3 DEF NotPassed, WalkIInv, Walk
  <2>3. QED
    BY <2>1, <2>2 DEF WalkIInv
<1>3. CASE Ask \/ Read \/ BeginWalk \/ ListSelect \/ NextPage
  <2>1. UNCHANGED <<vars, startedAt>>
    BY <1>3 DEF Ask, Read, BeginWalk, ListSelect, NextPage
  <2>2. /\ StartIInv' /\ Listed' = Listed
        /\ \A r \in Run : Place(r)' = Place(r)
    BY <2>1 DEF vars, StartIInv, Started, Listed, Place, Later
  <2>3. /\ walk \in Walk /\ \A r \in walk.existing \ walk.shown : NotPassed(r)
        /\ walk.at \in 0..4 /\ walk.offset \in Nat /\ walk.rows \in Nat
        /\ walk.total \in Nat /\ walk.shown \subseteq Run /\ walk.existing \subseteq Run
    BY DEF WalkIInv, Walk
  <2>4. Listed \subseteq Run /\ \A r \in Run : Place(r) \in Nat
    BY PlaceBounds DEF Listed
  <2>5. CASE Ask \/ Read
    BY <2>2, <2>3, <2>5 DEF Ask, Read, WalkIInv, NotPassed
  <2>6. CASE BeginWalk
    <3>1. walk' = [walk EXCEPT !.at = 1, !.existing = Listed] /\ walk.at = 0
      BY <2>6 DEF BeginWalk, Idle
    <3>2. walk.offset = 0
      BY <3>1 DEF WalkIInv
    <3>3. Moved(walk', 1, walk.offset, walk.rows, walk.total, walk.shown, Listed)
      <4>1. 1 \in 0..4 /\ Listed \in SUBSET Run
        BY <2>4
      <4>2. QED
        BY <2>3, <3>1, <4>1, WalkBegins
    <3>4. QED
      BY <2>2, <2>4, <3>2, <3>3 DEF WalkIInv, NotPassed, Moved
  <2>7. CASE ListSelect
    <3> DEFINE page == ListRuns(walk.offset)
    <3>1. /\ DOMAIN ListStatements = {1, 2} /\ ListStatements[1] = "list_runs"
          /\ ListStatements[2] = "count_runs"
      BY DEF ListStatements
    <3>2. CASE walk.at = 1
      <4>1. walk' = [[walk EXCEPT !.rows = Cardinality(page), !.shown = @ \cup page]
                       EXCEPT !.at = @ + 1]
        BY <2>7, <3>1, <3>2 DEF ListSelect
      <4>2. Cardinality(page) \in 0..PageSize /\ page \subseteq Listed /\ PageSize \in Nat
        BY <2>3, PageFits, ReadersAssumption DEF ListRuns
      <4>3. ASSUME NEW r \in walk.existing \ (walk.shown \cup page)
            PROVE  r \in Listed /\ Place(r) >= walk.offset + Cardinality(page)
        <5>1. r \in Listed /\ Place(r) >= walk.offset /\ r \in Run
          BY <2>3, <3>2, <4>3 DEF NotPassed
        <5>2. Place(r) \notin walk.offset..(walk.offset + PageSize - 1)
          BY <4>3, <5>1 DEF ListRuns
        <5>3. QED
          BY <2>3, <2>4, <4>2, <5>1, <5>2
      <4> HIDE DEF page
      <4>4. Moved(walk', 2, walk.offset, Cardinality(page), walk.total, walk.shown \cup page,
                  walk.existing)
        <5>1. Cardinality(page) \in Nat /\ page \in SUBSET Run
          BY <2>4, <4>2
        <5> DEFINE v == [walk EXCEPT !.rows = Cardinality(page), !.shown = @ \cup page]
        <5>2. Moved(v, 1, walk.offset, Cardinality(page), walk.total, walk.shown \cup page,
                    walk.existing)
          BY <2>3, <3>2, <5>1, PageListed
        <5>3. walk' = [v EXCEPT !.at = @ + 1]
          BY <4>1
        <5> HIDE DEF v
        <5>4. Moved(walk', v.at + 1, v.offset, v.rows, v.total, v.shown, v.existing)
          BY <5>2, <5>3, Advanced DEF Moved
        <5>5. QED
          BY <5>2, <5>4 DEF Moved
      <4>5. QED
        BY <2>2, <2>4, <4>3, <4>4 DEF WalkIInv, NotPassed, Moved
    <3>3. CASE walk.at = 2
      <4>1. walk' = [[walk EXCEPT !.total = Cardinality(Listed)] EXCEPT !.at = @ + 1]
        BY <2>7, <3>1, <3>3 DEF ListSelect
      <4>2. Cardinality(Listed) \in Nat
            /\ \A r \in Listed : Place(r) < Cardinality(Listed)
        BY PlaceBounds
      <4>3. Moved(walk', 3, walk.offset, walk.rows, Cardinality(Listed), walk.shown,
                  walk.existing)
        <5> DEFINE v == [walk EXCEPT !.total = Cardinality(Listed)]
        <5>1. Moved(v, 2, walk.offset, walk.rows, Cardinality(Listed), walk.shown, walk.existing)
          BY <2>3, <3>3, <4>2, PageCounted
        <5>2. walk' = [v EXCEPT !.at = @ + 1]
          BY <4>1
        <5> HIDE DEF v
        <5>3. Moved(walk', v.at + 1, v.offset, v.rows, v.total, v.shown, v.existing)
          BY <5>1, <5>2, Advanced DEF Moved
        <5>4. QED
          BY <5>1, <5>3 DEF Moved
      <4>4. ASSUME NEW r \in walk.existing \ walk.shown
            PROVE  /\ r \in Listed /\ Place(r) >= walk.offset + walk.rows
                   /\ Cardinality(Listed) > walk.offset + walk.rows
        BY <2>3, <2>4, <3>3, <4>2 DEF NotPassed
      <4>5. QED
        BY <2>2, <2>4, <4>3, <4>4 DEF WalkIInv, NotPassed, Moved
    <3>4. QED
      BY <2>7, <3>1, <3>2, <3>3 DEF ListSelect
  <2>8. CASE NextPage
    <3>1. walk.at = 3
      BY <2>8 DEF NextPage, PageShown, ListStatements
    <3>2. CASE walk.offset + walk.rows < walk.total
      <4>1. walk' = [walk EXCEPT !.at = 1, !.offset = @ + walk.rows]
        BY <2>8, <3>2 DEF NextPage
      <4>2. Moved(walk', 1, walk.offset + walk.rows, walk.rows, walk.total, walk.shown,
                  walk.existing)
        <5>1. 1 \in 0..4 /\ walk.offset + walk.rows \in Nat
          BY <2>3
        <5>2. walk' = [walk EXCEPT !.at = 1, !.offset = walk.offset + walk.rows]
          BY <4>1
        <5>3. QED
          BY <2>3, <5>1, <5>2, PageLeft
      <4>3. QED
        BY <2>2, <2>3, <2>4, <3>1, <4>2 DEF WalkIInv, NotPassed, Moved
    <3>3. CASE ~(walk.offset + walk.rows < walk.total)
      <4>1. walk' = [walk EXCEPT !.at = @ + 1]
        BY <2>8, <3>3 DEF NextPage
      <4>2. Moved(walk', 4, walk.offset, walk.rows, walk.total, walk.shown, walk.existing)
        BY <2>3, <3>1, <4>1, Advanced DEF Moved
      <4>3. walk.existing \ walk.shown = {}
        BY <2>3, <3>1, <3>3 DEF NotPassed
      <4>4. QED
        BY <2>2, <4>2, <4>3 DEF WalkIInv, Moved
    <3>4. QED
      BY <3>2, <3>3
  <2>9. QED
    BY <1>3, <2>5, <2>6, <2>7, <2>8
<1>4. QED
  BY <1>1, <1>2, <1>3 DEF ReadersNext

\* For any runs and page size: who pages to the end of the list has seen every run
\* that was there when he began, whatever is committed in front of him or behind.
THEOREM WalkSeesAll == ReadersSpec => []WalkSkipsNothing
<1>1. ReadersInit => EvaluationIInv /\ StartIInv /\ WalkIInv
  <2> SUFFICES ASSUME ReadersInit PROVE EvaluationIInv /\ StartIInv /\ WalkIInv
    OBVIOUS
  <2>1. /\ Init /\ startedAt = [r \in Run |-> 0]
        /\ walk = [at |-> 0, offset |-> 0, rows |-> 0, total |-> 0,
                   shown |-> {}, existing |-> {}]
    BY DEF ReadersInit
  <2>2. Started = {}
    BY <2>1 DEF Started
  <2>3. StartIInv
    BY <2>1, <2>2, FS_EmptySet DEF StartIInv, Init
  <2>4. WalkIInv
    BY <2>1 DEF WalkIInv, Walk
  <2>5. QED
    BY <2>1, <2>3, <2>4, EvaluationInit
<1>2. EvaluationIInv /\ StartIInv /\ WalkIInv /\ [ReadersNext]_allVars
        => (EvaluationIInv /\ StartIInv /\ WalkIInv)'
  BY WalkStep, EvaluationsGoOn
<1>3. WalkIInv => WalkSkipsNothing
  <2> SUFFICES ASSUME WalkIInv, WalkEnded, NEW r \in walk.existing \ walk.shown PROVE FALSE
    BY DEF WalkSkipsNothing
  <2>1. walk.at = 4
    BY DEF WalkEnded, ListStatements
  <2>2. QED
    BY <2>1 DEF WalkIInv, NotPassed
<1>4. QED
  BY <1>1, <1>2, <1>3, PTL DEF ReadersSpec
=============================================================================
