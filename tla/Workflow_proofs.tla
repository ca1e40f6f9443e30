--------------------------- MODULE Workflow_proofs ---------------------------
(***************************************************************************)
(* TLAPS proofs about the data of one evaluation, for any runs, dry runs    *)
(* and errors of the model client: what an agent's outcome says of itself,  *)
(* and that the rows _persist flushes over a running row are a whole run if *)
(* the trajectory is the opening, the agent's events and the three of the   *)
(* nodes that follow.                                                       *)
(***************************************************************************)
EXTENDS Workflow, SequenceTheorems, TLAPS

Running == [NoRow EXCEPT !.status = "running"]

\* What a list of events begins with after the agent has run.
Recorded(ev, agent) ==
  /\ ev \in Seq(Ev)
  /\ \A i \in 1..3 : ev[i] = Opening[i]
  /\ \A i \in 1..Len(agent) : ev[3 + i] = agent[i]

------------------------------------------------------------------------------
(* Lemmas                                                                   *)

\* What an outcome says of itself: which error event is among its events, and
\* when it failed or was a dry run.
Honest(r, o) ==
  /\ o.events \in Seq(Ev)
  /\ \A i \in 1..Len(o.events) :
       o.events[i][1] = "error" => o.category # "none" /\ o.events[i] = ErrorEvent(o.category)
  /\ o.category # "none" =>
       o.success = FALSE /\ \E i \in 1..Len(o.events) : o.events[i] = ErrorEvent(o.category)
  /\ o.success \in BOOLEAN
  /\ o.success => (o.dry <=> r \in DryRuns)
  /\ ~o.success => ~o.dry

LEMMA EventType ==
  /\ \A type \in Plain : Event(type) \in Ev /\ Event(type)[1] = type /\ type # "error"
  /\ \A c \in Category : ErrorEvent(c) \in Ev /\ ErrorEvent(c)[1] = "error" /\ c # "none"
<1>1. \A type \in Plain : Event(type) \in Ev /\ Event(type)[1] = type /\ type # "error"
  BY DEF Event, Ev, Plain
<1>2. \A c \in Category : ErrorEvent(c) \in Ev /\ ErrorEvent(c)[1] = "error"
  BY DEF ErrorEvent, Ev
<1>3. "none" \notin Category
  BY WorkflowAssumption DEF Category, ParseError
<1>4. QED
  BY <1>1, <1>2, <1>3

\* Two lists without an error event.
LEMMA AnswerType ==
  /\ Answer \in Seq(Ev) /\ Len(Answer) = 2
  /\ \A i \in 1..Len(Answer) : Answer[i][1] # "error"
  /\ <<Event("llm_call")>> \in Seq(Ev)
  /\ \A i \in 1..Len(<<Event("llm_call")>>) : <<Event("llm_call")>>[i][1] # "error"
<1> DEFINE a == Event("llm_call")
           b == Event("model_response")
<1>1. a \in Ev /\ b \in Ev /\ a[1] # "error" /\ b[1] # "error"
  BY EventType DEF Plain
<1>2. Answer = <<a, b>>
  BY DEF Answer
<1> HIDE DEF a, b
<1>3. <<a, b>> \in Seq(Ev) /\ Len(<<a, b>>) = 2 /\ <<a, b>>[1] = a /\ <<a, b>>[2] = b
  BY <1>1
<1>4. <<a>> \in Seq(Ev) /\ \A i \in 1..Len(<<a>>) : <<a>>[i][1] # "error"
  BY <1>1
<1>5. \A i \in 1..2 : <<a, b>>[i][1] # "error"
  BY <1>1, <1>3
<1>6. QED
  BY <1>2, <1>3, <1>4, <1>5 DEF a

\* An agent that failed records its failure last.
LEMMA FailedHonest ==
  ASSUME NEW r \in Run, NEW evs \in Seq(Ev), NEW c \in Category,
         \A i \in 1..Len(evs) : evs[i][1] # "error"
  PROVE  Honest(r, Failed(evs, c))
<1> DEFINE o == Failed(evs, c)
<1>1. /\ o.events = Append(evs, ErrorEvent(c)) /\ o.success = FALSE /\ o.dry = FALSE
      /\ o.category = c
  BY DEF Failed, Outcome
<1>2. ErrorEvent(c) \in Ev /\ c # "none"
  BY EventType
<1>3. /\ o.events \in Seq(Ev) /\ Len(o.events) = Len(evs) + 1 /\ Len(evs) \in Nat
      /\ \A i \in 1..Len(evs) : o.events[i] = evs[i]
      /\ o.events[Len(evs) + 1] = ErrorEvent(c)
  BY <1>1, <1>2, AppendProperties, LenProperties
<1> HIDE DEF o
<1>4. \A i \in 1..Len(o.events) :
        o.events[i][1] = "error" => o.events[i] = ErrorEvent(o.category)
  <2> SUFFICES ASSUME NEW i \in 1..Len(o.events), o.events[i][1] = "error"
               PROVE  o.events[i] = ErrorEvent(o.category)
    OBVIOUS
  <2>1. i = Len(evs) + 1
    BY <1>3
  <2>2. QED
    BY <1>1, <1>3, <2>1
<1>5. \E i \in 1..Len(o.events) : o.events[i] = ErrorEvent(o.category)
  <2>1. Len(evs) + 1 \in 1..Len(o.events)
    BY <1>3
  <2>2. QED
    BY <1>1, <1>3, <2>1
<1>6. Honest(r, o)
  BY <1>1, <1>2, <1>3, <1>4, <1>5 DEF Honest
<1>7. QED
  BY <1>6 DEF o

\* One that answered has no error event.
LEMMA AnswerHonest ==
  ASSUME NEW r \in Run, NEW success \in BOOLEAN, NEW dry \in BOOLEAN,
         success => (dry <=> r \in DryRuns), ~success => ~dry
  PROVE  Honest(r, Outcome(Answer, success, dry, "none"))
  BY AnswerType DEF Honest, Outcome

LEMMA OutcomesHonest ==
  ASSUME NEW r \in Run, NEW o \in AgentOutcome(r)
  PROVE  Honest(r, o)
<1>1. <<>> \in Seq(Ev) /\ \A i \in 1..Len(<<>>) : (<<>>)[i][1] # "error"
  BY EmptySeq
<1>2. ASSUME o \in ListenerFailure PROVE Honest(r, o)
  <2>1. "model" \in Category
    BY DEF Category
  <2>2. QED
    BY <1>2, <2>1, AnswerType, FailedHonest DEF ListenerFailure
<1>3. CASE r \in DryRuns
  <2>1. Honest(r, Outcome(Answer, TRUE, TRUE, "none"))
    BY <1>3, AnswerHonest
  <2>2. QED
    BY <1>2, <1>3, <2>1 DEF AgentOutcome, DryOutcome
<1>4. CASE r \notin DryRuns
  <2>1. ASSUME NEW c \in ClientError, o = Failed(<<>>, c) PROVE Honest(r, o)
    BY <1>1, <2>1, FailedHonest DEF Category
  <2>2. ASSUME NEW c \in {"cost_limit"} \cup ParseError, o = Failed(<<Event("llm_call")>>, c)
        PROVE  Honest(r, o)
    BY <2>2, AnswerType, FailedHonest DEF Category
  <2>3. ASSUME NEW success \in BOOLEAN, o = Outcome(Answer, success, FALSE, "none")
        PROVE  Honest(r, o)
    BY <1>4, <2>3, AnswerHonest
  <2>4. QED
    BY <1>2, <1>4, <2>1, <2>2, <2>3 DEF AgentOutcome, LiveOutcome
<1>5. QED
  BY <1>3, <1>4

\* An event more at the end of a list.
LEMMA CollectOne ==
  ASSUME NEW ev \in Seq(Ev), NEW e \in Ev
  PROVE  /\ ev \o <<e>> \in Seq(Ev) /\ Len(ev \o <<e>>) = Len(ev) + 1
         /\ \A i \in 1..Len(ev) : (ev \o <<e>>)[i] = ev[i]
         /\ (ev \o <<e>>)[Len(ev) + 1] = e
<1>1. <<e>> \in Seq(Ev) /\ Len(<<e>>) = 1 /\ <<e>>[1] = e
  OBVIOUS
<1>2. Len(ev) \in Nat
  BY LenProperties
<1>3. /\ ev \o <<e>> \in Seq(Ev)
      /\ Len(ev \o <<e>>) = Len(ev) + Len(<<e>>)
      /\ \A i \in 1 .. Len(ev) + Len(<<e>>) :
           (ev \o <<e>>)[i] = IF i <= Len(ev) THEN ev[i] ELSE <<e>>[i - Len(ev)]
  BY <1>1, ConcatProperties
<1>4. QED
  BY <1>1, <1>2, <1>3

\* The rows _persist flushes over a running row, field by field.
LEMMA SavedRow ==
  ASSUME NEW r \in Run, NEW table, DOMAIN table = Run, table[r] = Running,
         NEW ev, NEW n, NEW o
  PROVE  SaveRun(table, r, ev, n, o)[r] =
           [status |-> RunStatus(o), category |-> o.category,
            events |-> [i \in 0..(Len(ev) - 1) |-> ev[i + 1]],
            steps |-> n, evaluation |-> EvaluationStatus(o), cost |-> HasLiveCost(r, ev),
            execution |-> "none", artifact |-> FALSE]
<1> DEFINE ts == [i \in 0..(Len(ev) - 1) |-> ev[i + 1]]
           t1 == AddEvents(table, r, ev)
           t2 == AddMetrics(t1, r, n)
           t3 == AddEvaluation(t2, r, EvaluationStatus(o))
           t4 == FinishRun(t3, r, RunStatus(o), o.category, HasLiveCost(r, ev))
           row(status, category, evs, count, verdict, cost) ==
             [status |-> status, category |-> category, events |-> evs, steps |-> count,
              evaluation |-> verdict, cost |-> cost, execution |-> "none",
              artifact |-> FALSE]
<1>1. DOMAIN t1 = Run /\ t1[r] = [table[r] EXCEPT !.events = ts]
  BY DEF AddEvents
<1>2. t1[r] = row("running", "none", ts, 0, "none", FALSE)
  <2> HIDE DEF t1, ts
  <2>1. QED
    BY <1>1 DEF Running, NoRow
<1> HIDE DEF t1, ts
<1>3. DOMAIN t2 = Run /\ t2[r] = [t1[r] EXCEPT !.steps = n]
  BY <1>1 DEF AddMetrics
<1> HIDE DEF t2
<1>4. t2[r] = row("running", "none", ts, n, "none", FALSE)
  <2>1. t2[r] = [row("running", "none", ts, 0, "none", FALSE) EXCEPT !.steps = n]
    BY <1>2, <1>3
  <2>2. QED
    BY <2>1
<1>5. DOMAIN t3 = Run /\ t3[r] = [t2[r] EXCEPT !.evaluation = EvaluationStatus(o)]
  BY <1>3 DEF AddEvaluation
<1> HIDE DEF t3
<1>6. t3[r] = row("running", "none", ts, n, EvaluationStatus(o), FALSE)
  <2>1. t3[r] = [row("running", "none", ts, n, "none", FALSE)
                   EXCEPT !.evaluation = EvaluationStatus(o)]
    BY <1>4, <1>5
  <2>2. QED
    BY <2>1
<1>7. t4[r] = [t3[r] EXCEPT !.status = RunStatus(o), !.category = o.category,
                            !.cost = HasLiveCost(r, ev)]
  BY <1>5 DEF FinishRun
<1> HIDE DEF t4
<1>8. t4[r] = row(RunStatus(o), o.category, ts, n, EvaluationStatus(o), HasLiveCost(r, ev))
  <2>1. t4[r] = [row("running", "none", ts, n, EvaluationStatus(o), FALSE)
                   EXCEPT !.status = RunStatus(o), !.category = o.category,
                          !.cost = HasLiveCost(r, ev)]
    BY <1>6, <1>7
  <2>2. QED
    BY <2>1
<1>9. QED
  BY <1>8 DEF t1, t2, t3, t4, ts, SaveRun

\* The events a call has in memory when it persists make a whole row.
LEMMA RowIsWhole ==
  ASSUME NEW r \in Run, NEW o, Honest(r, o), NEW ev, Recorded(ev, o.events),
         NEW n, n = Len(o.events) + 4, Len(ev) = n + 2,
         ev[n] = Event("trajectory_collected"), ev[n + 1] = Event("evaluation_completed"),
         ev[n + 2] = Event("persistence_requested")
  PROVE  Whole(r, [status |-> RunStatus(o), category |-> o.category,
                   events |-> [i \in 0..(Len(ev) - 1) |-> ev[i + 1]],
                   steps |-> n, evaluation |-> EvaluationStatus(o),
                   cost |-> HasLiveCost(r, ev), execution |-> "none", artifact |-> FALSE])
<1> DEFINE agent == o.events
           stored == [i \in 0..(Len(ev) - 1) |-> ev[i + 1]]
           kinds == {stored[i] : i \in DOMAIN stored}
           errors == {e \in kinds : e[1] = "error"}
<1>1. agent \in Seq(Ev) /\ Len(agent) \in Nat /\ n \in Nat /\ n > 3
  BY LenProperties DEF Honest
<1>2. Len(Opening) = 3 /\ \A i \in 1..3 : Opening[i][1] # "error"
  BY DEF Opening, Event
<1>3. DOMAIN stored = 0..(n + 1) /\ \A i \in 0..(n + 1) : stored[i] = ev[i + 1]
  BY <1>1
<1>4. /\ \A i \in 1..3 : ev[i] = Opening[i]
      /\ \A i \in 1..Len(agent) : ev[3 + i] = agent[i]
  BY DEF Recorded
<1> HIDE DEF stored
<1>5. \A i \in 1..Len(Opening) : stored[i - 1] = Opening[i]
  BY <1>1, <1>2, <1>3, <1>4
<1>6. <<stored[n - 1], stored[n], stored[n + 1]>> =
        <<Event("trajectory_collected"), Event("evaluation_completed"),
          Event("persistence_requested")>>
  <2>1. stored[n - 1] = ev[n] /\ stored[n] = ev[n + 1] /\ stored[n + 1] = ev[n + 2]
    <3>1. /\ n - 1 \in 0..(n + 1) /\ n \in 0..(n + 1) /\ n + 1 \in 0..(n + 1)
          /\ (n - 1) + 1 = n /\ (n + 1) + 1 = n + 2
      BY <1>1
    <3>2. QED
      BY <1>3, <3>1
  <2>2. QED
    BY <2>1
<1>7. \A e : e \in kinds <=> \E j \in 1..(n + 2) : e = ev[j]
  <2>1. ASSUME NEW i \in 0..(n + 1) PROVE i + 1 \in 1..(n + 2) /\ stored[i] = ev[i + 1]
    BY <1>1, <1>3
  <2>2. ASSUME NEW j \in 1..(n + 2) PROVE j - 1 \in 0..(n + 1) /\ stored[j - 1] = ev[j]
    BY <1>1, <1>3
  <2>3. kinds = {stored[i] : i \in 0..(n + 1)}
    BY <1>3
  <2> HIDE DEF kinds
  <2>4. ASSUME NEW e \in kinds PROVE \E j \in 1..(n + 2) : e = ev[j]
    <3>1. PICK i \in 0..(n + 1) : e = stored[i]
      BY <2>3
    <3>2. QED
      BY <2>1, <3>1
  <2>5. ASSUME NEW j \in 1..(n + 2) PROVE ev[j] \in kinds
    BY <2>2, <2>3
  <2>6. QED
    BY <2>4, <2>5
<1>8. \A j \in 1..(n + 2) : ev[j][1] = "error" => \E i \in 1..Len(agent) : ev[j] = agent[i]
  <2> SUFFICES ASSUME NEW j \in 1..(n + 2), ev[j][1] = "error"
               PROVE  \E i \in 1..Len(agent) : ev[j] = agent[i]
    OBVIOUS
  <2>1. j \notin 1..3
    BY <1>2, <1>4
  <2>2. j \notin {n, n + 1, n + 2}
    BY DEF Event
  <2>3. j - 3 \in 1..Len(agent) /\ 3 + (j - 3) = j
    BY <1>1, <2>1, <2>2
  <2>4. QED
    BY <1>4, <2>3
<1>9. \A i \in 1..Len(agent) : agent[i] \in kinds
  <2> SUFFICES ASSUME NEW i \in 1..Len(agent) PROVE agent[i] \in kinds
    OBVIOUS
  <2>1. 3 + i \in 1..(n + 2) /\ ev[3 + i] = agent[i]
    BY <1>1, <1>4
  <2>2. QED
    BY <1>7, <2>1
<1> HIDE DEF kinds
<1>10. errors = IF o.category = "none" THEN {} ELSE {ErrorEvent(o.category)}
  <2>1. \A e \in errors : \E i \in 1..Len(agent) : e = agent[i] /\ agent[i][1] = "error"
    BY <1>7, <1>8
  <2>2. CASE o.category = "none"
    BY <2>1, <2>2 DEF Honest
  <2>3. CASE o.category # "none"
    <3>1. \A e \in errors : e = ErrorEvent(o.category)
      BY <2>1 DEF Honest
    <3>2. PICK i \in 1..Len(agent) : agent[i] = ErrorEvent(o.category)
      BY <2>3 DEF Honest
    <3>3. ErrorEvent(o.category) \in errors
      BY <1>9, <3>2 DEF ErrorEvent
    <3>4. QED
      BY <2>3, <3>1, <3>3
  <2>4. QED
    BY <2>2, <2>3
<1> HIDE DEF agent
<1>11. HasLiveCost(r, ev) <=> (r \notin DryRuns /\ Event("llm_call") \in kinds)
  <2>1. DOMAIN ev = 1..(n + 2)
    BY LenProperties DEF Recorded
  <2>2. QED
    BY <1>7, <2>1 DEF HasLiveCost
<1>12. o.category # "none" => RunStatus(o) = "failed"
  BY DEF Honest, RunStatus
<1>13. EvaluationStatus(o) = IF RunStatus(o) = "failed" THEN "failed"
                             ELSE IF r \in DryRuns THEN "simulated" ELSE "passed"
  BY DEF Honest, RunStatus, EvaluationStatus
<1>14. RunStatus(o) \in {"completed", "failed"}
  BY DEF RunStatus
<1>15. n > Len(Opening)
  BY <1>1, <1>2
<1> DEFINE row == [status |-> RunStatus(o), category |-> o.category, events |-> stored,
                   steps |-> n, evaluation |-> EvaluationStatus(o),
                   cost |-> HasLiveCost(r, ev), execution |-> "none", artifact |-> FALSE]
<1>16. /\ row.status = RunStatus(o) /\ row.category = o.category /\ row.events = stored
       /\ row.steps = n /\ row.evaluation = EvaluationStatus(o)
       /\ row.cost = HasLiveCost(r, ev)
  OBVIOUS
<1> HIDE DEF row
<1>17. Whole(r, row)
  BY <1>3, <1>5, <1>6, <1>10, <1>11, <1>12, <1>13, <1>14, <1>15, <1>16 DEF Whole, kinds
<1>18. QED
  BY <1>17 DEF row, stored
=============================================================================
