------------------------ MODULE ExternalRuns_proofs ------------------------
(***************************************************************************)
(* TLAPS proofs about ExternalRuns, for any sets of requests, any bodies    *)
(* and transcripts, any number of failures and repetitions.  Each property  *)
(* is inductive together with what it needs to know of the requests that    *)
(* are between two of their database calls.                                 *)
(***************************************************************************)
EXTENDS ExternalRuns, TLAPS

Stages == {"ready", "checked", "loaded", "missing", "found", "flushed", "ended"}
Answers == {"none", "ok", "not_found", "invalid", "conflict", "raced", "error"}

\* A row has the columns of RunRepository, a table the rows of Row.
IsRow(x) ==
  x = [status |-> x.status, category |-> x.category, events |-> x.events,
       steps |-> x.steps, evaluation |-> x.evaluation, cost |-> x.cost,
       execution |-> x.execution, artifact |-> x.artifact]
IsTable(t) == DOMAIN t = Row /\ IsRow(t[ApiRun])

RequestsOK ==
  /\ stage \in [Request -> Stages]
  /\ answer \in [Request -> Answers]
  /\ \A r \in Request : answer[r] # "none" <=> stage[r] = "ended"
  /\ retries \in [Request -> 0..MaxRetries]
  /\ races \in [ImportRequest -> Nat]
  /\ inserted \subseteq ImportRequest
  /\ IsTable(db)

------------------------------------------------------------------------------
(* What the steps do, and do not do                                         *)

LEMMA RunsApart ==
  /\ ApiRun \in Row
  /\ \A i \in ImportRequest, n \in 0..MaxRetries :
       <<i, n>> \in Row /\ <<i, n>> \in Imported /\ <<i, n>> # ApiRun
BY ExternalAssumption DEF Row, Imported

\* What the commit of an import stores.
SavedTranscript(i) ==
  LET t == Transcript(i) IN
  [status |-> t.status, category |-> t.category,
   events |-> [n \in 0..(Len(t.events) - 1) |-> t.events[n + 1]],
   steps |-> Len(t.events), evaluation |-> IF t.success THEN "passed" ELSE "failed",
   cost |-> FALSE, execution |-> t.status, artifact |-> TRUE]

\* The writes of an import, one after the other.
LEMMA Saving ==
  ASSUME NEW table, DOMAIN table = Row, NEW i, NEW row \in Row
  PROVE  LET saved == SaveTranscript(table, i, row) IN
         /\ DOMAIN saved = Row
         /\ saved[row] = SavedTranscript(i)
         /\ \A r \in Row : r # row => saved[r] = table[r]
<1> DEFINE t == Transcript(i)
           evs == [n \in 0..(Len(t.events) - 1) |-> t.events[n + 1]]
           verdict == IF t.success THEN "passed" ELSE "failed"
           columns(status, category, events, steps, evaluation, execution, artifact) ==
             [status |-> status, category |-> category, events |-> events,
              steps |-> steps, evaluation |-> evaluation, cost |-> FALSE,
              execution |-> execution, artifact |-> artifact]
           t1 == CreateRun(table, row)
           t2 == CreateAgentExecution(t1, row)
           t3 == AddEvents(t2, row, t.events)
           t4 == FinishAgentExecution(t3, row, t.status)
           t5 == AddArtifact(t4, row)
           t6 == AddMetrics(t5, row, Len(t.events))
           t7 == AddEvaluation(t6, row, verdict)
           t8 == FinishRun(t7, row, t.status, t.category, FALSE)
           Others(after) == DOMAIN after = Row /\ \A r \in Row : r # row => after[r] = table[r]
<1>1. t1[row] = [NoRow EXCEPT !.status = "running"] /\ Others(t1)
  BY DEF CreateRun
<1>2. t1[row] = columns("running", "none", <<>>, 0, "none", "none", FALSE)
  BY <1>1 DEF NoRow
<1> HIDE DEF t1, evs, verdict
<1>3. t2[row] = [t1[row] EXCEPT !.execution = "prepared"] /\ Others(t2)
  BY <1>1 DEF CreateAgentExecution
<1>4. t2[row] = columns("running", "none", <<>>, 0, "none", "prepared", FALSE)
  <2>1. t2[row] = [columns("running", "none", <<>>, 0, "none", "none", FALSE)
                     EXCEPT !.execution = "prepared"]
    BY <1>2, <1>3
  <2> QED BY <2>1
<1> HIDE DEF t2
<1>5. t3[row] = [t2[row] EXCEPT !.events = evs] /\ Others(t3)
  BY <1>3 DEF AddEvents, evs
<1>6. t3[row] = columns("running", "none", evs, 0, "none", "prepared", FALSE)
  <2>1. t3[row] = [columns("running", "none", <<>>, 0, "none", "prepared", FALSE)
                     EXCEPT !.events = evs]
    BY <1>4, <1>5
  <2> QED BY <2>1
<1> HIDE DEF t3
<1>7. t4[row] = [t3[row] EXCEPT !.execution = t.status] /\ Others(t4)
  BY <1>5 DEF FinishAgentExecution
<1>8. t4[row] = columns("running", "none", evs, 0, "none", t.status, FALSE)
  <2>1. t4[row] = [columns("running", "none", evs, 0, "none", "prepared", FALSE)
                     EXCEPT !.execution = t.status]
    BY <1>6, <1>7
  <2> QED BY <2>1
<1> HIDE DEF t4
<1>9. t5[row] = [t4[row] EXCEPT !.artifact = TRUE] /\ Others(t5)
  BY <1>7 DEF AddArtifact
<1>10. t5[row] = columns("running", "none", evs, 0, "none", t.status, TRUE)
  <2>1. t5[row] = [columns("running", "none", evs, 0, "none", t.status, FALSE)
                     EXCEPT !.artifact = TRUE]
    BY <1>8, <1>9
  <2> QED BY <2>1
<1> HIDE DEF t5
<1>11. t6[row] = [t5[row] EXCEPT !.steps = Len(t.events)] /\ Others(t6)
  BY <1>9 DEF AddMetrics
<1>12. t6[row] = columns("running", "none", evs, Len(t.events), "none", t.status, TRUE)
  <2>1. t6[row] = [columns("running", "none", evs, 0, "none", t.status, TRUE)
                     EXCEPT !.steps = Len(t.events)]
    BY <1>10, <1>11
  <2> QED BY <2>1
<1> HIDE DEF t6
<1>13. t7[row] = [t6[row] EXCEPT !.evaluation = verdict] /\ Others(t7)
  BY <1>11 DEF AddEvaluation
<1>14. t7[row] = columns("running", "none", evs, Len(t.events), verdict, t.status, TRUE)
  <2>1. t7[row] = [columns("running", "none", evs, Len(t.events), "none", t.status, TRUE)
                     EXCEPT !.evaluation = verdict]
    BY <1>12, <1>13
  <2> QED BY <2>1
<1> HIDE DEF t7
<1>15. /\ t8[row] = [t7[row] EXCEPT !.status = t.status, !.category = t.category,
                                    !.cost = FALSE]
       /\ Others(t8)
  BY <1>13 DEF FinishRun
<1>16. t8[row] = columns(t.status, t.category, evs, Len(t.events), verdict, t.status, TRUE)
  <2>1. t8[row] = [columns("running", "none", evs, Len(t.events), verdict, t.status, TRUE)
                     EXCEPT !.status = t.status, !.category = t.category, !.cost = FALSE]
    BY <1>14, <1>15
  <2> QED BY <2>1
<1>17. t8[row] = SavedTranscript(i)
  BY <1>16 DEF SavedTranscript, evs, verdict
<1>18. SaveTranscript(table, i, row) = t8
  BY DEF SaveTranscript, t1, t2, t3, t4, t5, t6, t7, verdict
<1> QED BY <1>15, <1>17, <1>18

LEMMA SavedIsSome == ASSUME NEW i PROVE SavedTranscript(i) # NoRow
BY DEF SavedTranscript, NoRow

LEMMA RequestsStart == Init => RequestsOK
<1> SUFFICES ASSUME Init PROVE RequestsOK
  OBVIOUS
<1>1. IsTable(db)
  BY RunsApart DEF Init, IsTable, IsRow, NoRow
<1> QED BY <1>1, ExternalAssumption DEF Init, RequestsOK, Stages, Answers, Request

\* The table of one step after the other.
LEMMA TableKept ==
  ASSUME RequestsOK, [Next]_vars
  PROVE  IsTable(db')
<1>1. IsTable(db) /\ retries \in [Request -> 0..MaxRetries]
  BY DEF RequestsOK
<1>2. CASE db' = db
  BY <1>1, <1>2 DEF IsTable, IsRow
<1>3. CASE CreateApiRun
  BY <1>1, <1>3, RunsApart DEF CreateApiRun, CreateRun, IsTable, IsRow, NoRow
<1>4. ASSUME NEW e \in EventRequest, CommitEvent(e)
      PROVE  IsTable(db')
  BY <1>1, <1>4, RunsApart DEF CommitEvent, IsTable, IsRow
<1>5. ASSUME NEW f \in FinishRequest, CommitFinish(f)
      PROVE  IsTable(db')
  BY <1>1, <1>5, RunsApart DEF CommitFinish, FinishRun, IsTable, IsRow
<1>6. ASSUME NEW i \in ImportRequest, CommitImport(i)
      PROVE  IsTable(db')
  <2>1. retries[i] \in 0..MaxRetries
    BY <1>1 DEF Request
  <2> DEFINE row == <<i, retries[i]>>
  <2>2. row \in Row /\ row # ApiRun /\ ApiRun \in Row
    BY <2>1, RunsApart
  <2>3. db' = SaveTranscript(db, i, row)
    BY <1>6 DEF CommitImport
  <2> HIDE DEF row
  <2>4. DOMAIN db' = Row /\ db'[ApiRun] = db[ApiRun]
    BY <1>1, <2>2, <2>3, Saving DEF IsTable
  <2> QED BY <1>1, <2>4 DEF IsTable, IsRow
<1> QED
  BY <1>2, <1>3, <1>4, <1>5, <1>6
  DEF Next, vars, Handler, EventStep, FinishStep, ImportStep, CheckRun, RefuseEvent,
      InsertEvent, RefuseFinish, LoadRun, UpdateRun, RefuseImport, FindTarget,
      InsertTarget, SaveImport, Fail, Retry, RollBack

LEMMA RequestsKept ==
  ASSUME RequestsOK, [Next]_vars
  PROVE  RequestsOK'
<1>1. /\ stage \in [Request -> Stages] /\ answer \in [Request -> Answers]
      /\ \A r \in Request : answer[r] # "none" <=> stage[r] = "ended"
      /\ retries \in [Request -> 0..MaxRetries] /\ races \in [ImportRequest -> Nat]
      /\ inserted \subseteq ImportRequest /\ MaxRetries \in Nat
  BY ExternalAssumption DEF RequestsOK
<1>2. IsTable(db')
  BY TableKept
<1> USE DEF Request, Stages, Answers, Goto, Answer
<1>3. CASE CreateApiRun \/ UNCHANGED vars
  BY <1>1, <1>2, <1>3 DEF CreateApiRun, vars, history, RequestsOK
<1>4. ASSUME NEW e \in EventRequest, EventStep(e)
      PROVE  RequestsOK'
  BY <1>1, <1>2, <1>4 DEF EventStep, CheckRun, RefuseEvent, InsertEvent, CommitEvent,
     AnswerOrLose, history, RequestsOK
<1>5. ASSUME NEW f \in FinishRequest, FinishStep(f)
      PROVE  RequestsOK'
  BY <1>1, <1>2, <1>5 DEF FinishStep, RefuseFinish, LoadRun, UpdateRun, CommitFinish,
     AnswerOrLose, history, RequestsOK
<1>6. ASSUME NEW i \in ImportRequest, ImportStep(i)
      PROVE  RequestsOK'
  <2>1. CASE RefuseImport(i) \/ SaveImport(i)
    BY <1>1, <1>2, <2>1 DEF RefuseImport, SaveImport, history, RequestsOK
  <2>2. CASE FindTarget(i)
    BY <1>1, <1>2, <2>2 DEF FindTarget, history, RequestsOK
  <2>3. CASE InsertTarget(i)
    BY <1>1, <1>2, <2>3 DEF InsertTarget, RequestsOK
  <2>4. CASE CommitImport(i)
    BY <1>1, <1>2, <2>4 DEF CommitImport, AnswerOrLose, RequestsOK
  <2> QED BY <1>6, <2>1, <2>2, <2>3, <2>4 DEF ImportStep
<1>7. ASSUME NEW r \in Request, Fail(r)
      PROVE  RequestsOK'
  BY <1>1, <1>2, <1>7 DEF Fail, RollBack, RequestsOK
<1>8. ASSUME NEW r \in Request, Retry(r)
      PROVE  RequestsOK'
  BY <1>1, <1>2, <1>8 DEF Retry, history, RequestsOK
<1> QED BY <1>3, <1>4, <1>5, <1>6, <1>7, <1>8 DEF Next, Handler

------------------------------------------------------------------------------
(* POST /runs/{id}/events                                                   *)

\* Of a number at most one insert is open, and none if an event is stored under it;
\* an event is stored only if its client was told so or its answer was lost.
EventIInv ==
  /\ EventAnswerIsTrue
  /\ \A e \in EventRequest : stage[e] = "flushed" =>
       /\ Sequence(e) \notin DOMAIN Stored
       /\ \A o \in EventRequest :
            (stage[o] = "flushed" /\ Sequence(o) = Sequence(e)) => o = e
  /\ \A e \in EventRequest :
       (Sequence(e) \in DOMAIN Stored /\ Stored[Sequence(e)] = e) =>
         e \in lost \/ answer[e] = "ok"

LEMMA EventsStart == Init => EventIInv
BY RunsApart DEF Init, EventIInv, EventAnswerIsTrue, Stored, NoRow, Request

\* What leaves these alone.
LEMMA EventsFrame ==
  ASSUME EventIInv, Stored' = Stored, lost' = lost,
         \A e \in EventRequest : stage'[e] = stage[e] /\ answer'[e] = answer[e]
  PROVE  EventIInv'
BY DEF EventIInv, EventAnswerIsTrue

\* What is not a request of this kind leaves these alone.
LEMMA OtherRequests ==
  ASSUME RequestsOK, NEW r \in Request, NEW Others, Others \subseteq Request,
         r \notin Others,
         \/ \E place : Goto(r, place)
         \/ \E told : Answer(r, told)
  PROVE  \A e \in Others : stage'[e] = stage[e] /\ answer'[e] = answer[e]
BY DEF RequestsOK, Goto, Answer

LEMMA EventStepKeeps ==
  ASSUME RequestsOK, EventIInv, NEW e \in EventRequest, EventStep(e)
  PROVE  EventIInv'
<1>1. /\ stage \in [Request -> Stages] /\ answer \in [Request -> Answers]
      /\ e \in Request /\ EventRequest \subseteq Request
      /\ answer[e] # "none" <=> stage[e] = "ended"
  BY DEF RequestsOK, Request
<1>2. CASE CheckRun(e) \/ RefuseEvent(e)
  BY <1>1, <1>2 DEF CheckRun, RefuseEvent, Goto, Answer, history, EventIInv,
     EventAnswerIsTrue, Stored
<1>3. CASE InsertEvent(e)
  <2>1. /\ stage[e] = "checked" /\ answer[e] = "none" /\ Stored' = Stored /\ lost' = lost
        /\ \A o \in EventRequest : stage[o] = "flushed" => Sequence(o) # Sequence(e)
    BY <1>1, <1>3 DEF InsertEvent, SameNumber, Open, history, Stored
  <2>2. CASE Sequence(e) \in DOMAIN Stored /\ Answer(e, "conflict")
    BY <1>1, <2>1, <2>2 DEF Answer, EventIInv, EventAnswerIsTrue
  <2>3. CASE Sequence(e) \notin DOMAIN Stored /\ Goto(e, "flushed")
    BY <1>1, <2>1, <2>3 DEF Goto, EventIInv, EventAnswerIsTrue
  <2> QED BY <1>3, <2>2, <2>3 DEF InsertEvent
<1>4. CASE CommitEvent(e)
  <2> DEFINE now == Stored'
  <2>1. /\ stage[e] = "flushed" /\ Sequence(e) \notin DOMAIN Stored
        /\ \A o \in EventRequest : (stage[o] = "flushed" /\ o # e) => Sequence(o) # Sequence(e)
    BY <1>4 DEF CommitEvent, EventIInv
  <2>2. DOMAIN db = Row /\ IsRow(db[ApiRun])
    BY DEF RequestsOK, IsTable
  <2>3. now = [n \in DOMAIN Stored \cup {Sequence(e)} |->
                 IF n = Sequence(e) THEN e ELSE Stored[n]]
    BY <1>4, <2>2, RunsApart DEF CommitEvent, IsRow, Stored
  <2>4. /\ DOMAIN now = DOMAIN Stored \cup {Sequence(e)} /\ now[Sequence(e)] = e
        /\ \A n \in DOMAIN Stored : now[n] = Stored[n]
    BY <2>1, <2>3
  <2>5. /\ \A o \in EventRequest : o # e => stage'[o] = stage[o] /\ answer'[o] = answer[o]
        /\ stage'[e] = "ended" /\ lost \subseteq lost'
        /\ answer'[e] = "ok" \/ (answer'[e] = "error" /\ e \in lost')
    BY <1>1, <1>4 DEF CommitEvent, AnswerOrLose, Answer
  <2>6. EventAnswerIsTrue'
    <3> SUFFICES ASSUME NEW o \in EventRequest
                 PROVE  /\ answer'[o] = "ok" =>
                             Sequence(o) \in DOMAIN now /\ now[Sequence(o)] = o
                        /\ answer'[o] = "conflict" =>
                             /\ Sequence(o) \in DOMAIN now
                             /\ now[Sequence(o)] = o => o \in lost'
      BY DEF EventAnswerIsTrue
    <3> HIDE DEF now
    <3>1. CASE o = e
      BY <3>1, <2>4, <2>5
    <3>2. CASE o # e
      BY <3>2, <2>1, <2>4, <2>5 DEF EventIInv, EventAnswerIsTrue
    <3> QED BY <3>1, <3>2
  <2>7. \A o \in EventRequest : stage'[o] = "flushed" =>
          /\ Sequence(o) \notin DOMAIN now
          /\ \A p \in EventRequest :
               (stage'[p] = "flushed" /\ Sequence(p) = Sequence(o)) => p = o
    <3> HIDE DEF now
    <3> QED BY <2>1, <2>4, <2>5 DEF EventIInv
  <2>8. \A o \in EventRequest :
          (Sequence(o) \in DOMAIN now /\ now[Sequence(o)] = o) =>
             o \in lost' \/ answer'[o] = "ok"
    <3> HIDE DEF now
    <3> QED BY <2>1, <2>4, <2>5 DEF EventIInv
  <2> QED BY <2>6, <2>7, <2>8 DEF EventIInv
<1> QED BY <1>2, <1>3, <1>4 DEF EventStep

LEMMA EventsKept ==
  ASSUME RequestsOK, EventIInv, [Next]_vars
  PROVE  EventIInv'
<1>1. DOMAIN db = Row /\ IsRow(db[ApiRun]) /\ EventRequest \subseteq Request
  BY DEF RequestsOK, IsTable, Request
<1>2. CASE CreateApiRun
  <2>1. db[ApiRun] = NoRow /\ db'[ApiRun] = [NoRow EXCEPT !.status = "running"]
    BY <1>1, <1>2, RunsApart DEF CreateApiRun, CreateRun, Missing
  <2>2. Stored' = Stored
    BY <2>1 DEF Stored, NoRow
  <2> QED BY <1>2, <2>2, EventsFrame DEF CreateApiRun, history
<1>3. ASSUME NEW e \in EventRequest, EventStep(e)
      PROVE  EventIInv'
  BY <1>3, EventStepKeeps
<1>4. ASSUME NEW f \in FinishRequest, FinishStep(f)
      PROVE  EventIInv'
  <2>1. \A e \in EventRequest : stage'[e] = stage[e] /\ answer'[e] = answer[e]
    <3>1. \/ \E place : Goto(f, place)
          \/ \E told : Answer(f, told)
      BY <1>4 DEF FinishStep, RefuseFinish, LoadRun, UpdateRun, CommitFinish, AnswerOrLose
    <3>2. f \in Request /\ f \notin EventRequest
      BY ExternalAssumption DEF Request
    <3> QED BY <1>1, <3>1, <3>2, OtherRequests
  <2>2. Stored' = Stored
    BY <1>1, <1>4, RunsApart DEF FinishStep, RefuseFinish, LoadRun, UpdateRun, CommitFinish,
       FinishRun, Stored, IsRow
  <2>3. lost' = lost
    BY <1>4, ExternalAssumption DEF FinishStep, RefuseFinish, LoadRun, UpdateRun,
       CommitFinish, AnswerOrLose, history
  <2> QED BY <2>1, <2>2, <2>3, EventsFrame
<1>5. ASSUME NEW i \in ImportRequest, ImportStep(i)
      PROVE  EventIInv'
  <2>1. \A e \in EventRequest : stage'[e] = stage[e] /\ answer'[e] = answer[e]
    <3>1. \/ \E place : Goto(i, place)
          \/ \E told : Answer(i, told)
      BY <1>5 DEF ImportStep, RefuseImport, FindTarget, InsertTarget, SaveImport,
         CommitImport, AnswerOrLose
    <3>2. i \in Request /\ i \notin EventRequest
      BY ExternalAssumption DEF Request
    <3> QED BY <1>1, <3>1, <3>2, OtherRequests
  <2>2. db'[ApiRun] = db[ApiRun]
    <3>1. CASE CommitImport(i)
      <4>1. retries[i] \in 0..MaxRetries
        BY DEF RequestsOK, Request
      <4> QED BY <1>1, <3>1, <4>1, RunsApart, Saving DEF CommitImport
    <3>2. CASE ~CommitImport(i)
      BY <1>5, <3>2 DEF ImportStep, RefuseImport, FindTarget, InsertTarget, SaveImport
    <3> QED BY <3>1, <3>2
  <2>3. lost' = lost
    BY <1>5, ExternalAssumption DEF ImportStep, RefuseImport, FindTarget, InsertTarget,
       SaveImport, CommitImport, AnswerOrLose, history
  <2> QED BY <2>1, <2>2, <2>3, EventsFrame DEF Stored
<1>6. ASSUME NEW r \in Request, Fail(r) \/ Retry(r)
      PROVE  EventIInv'
  <2>1. /\ stage \in [Request -> Stages] /\ answer \in [Request -> Answers]
        /\ Stored' = Stored /\ lost' = lost
    BY <1>6 DEF RequestsOK, Fail, Retry, history, Stored
  <2>2. CASE Fail(r)
    <3>1. answer[r] = "none" /\ stage'[r] = "ended" /\ answer'[r] = "error"
      BY <2>1, <2>2 DEF Fail, Answer, RequestsOK
    <3>2. \A e \in EventRequest : e # r => stage'[e] = stage[e] /\ answer'[e] = answer[e]
      BY <1>1, <2>1, <2>2 DEF Fail, Answer
    <3> QED BY <2>1, <3>1, <3>2 DEF EventIInv, EventAnswerIsTrue
  <2>3. CASE Retry(r)
    <3>1. answer[r] # "ok" /\ stage'[r] = "ready" /\ answer'[r] = "none"
      BY <2>1, <2>3 DEF Retry
    <3>2. \A e \in EventRequest : e # r => stage'[e] = stage[e] /\ answer'[e] = answer[e]
      BY <1>1, <2>1, <2>3 DEF Retry
    <3> QED BY <2>1, <3>1, <3>2 DEF EventIInv, EventAnswerIsTrue
  <2> QED BY <1>6, <2>2, <2>3
<1>7. CASE UNCHANGED vars
  BY <1>7, EventsFrame DEF vars, Stored
<1> QED BY <1>2, <1>3, <1>4, <1>5, <1>6, <1>7 DEF Next, Handler

------------------------------------------------------------------------------
(* POST /runs/{id}/finish                                                   *)

\* Nobody is past its test for the run, and none has finished it, before it exists.
FinishIInv ==
  /\ FinishIsLastRequests
  /\ db[ApiRun].status = NoRow.status =>
       /\ db[ApiRun] = NoRow /\ last = NoRequest
       /\ \A r \in EventRequest \cup FinishRequest : stage[r] \in {"ready", "ended"}

LEMMA FinishesStart == Init => FinishIInv
BY RunsApart DEF Init, FinishIInv, FinishIsLastRequests, Request

\* What leaves the run's columns and its requests alone.
LEMMA FinishesFrame ==
  ASSUME FinishIInv, db'[ApiRun] = db[ApiRun], last' = last, unwritten' = unwritten,
         \A r \in EventRequest \cup FinishRequest :
           stage'[r] = stage[r] \/ stage'[r] \in {"ready", "ended"}
  PROVE  FinishIInv'
BY DEF FinishIInv, FinishIsLastRequests

LEMMA CommitFinishKeeps ==
  ASSUME RequestsOK, FinishIInv, NEW f \in FinishRequest, CommitFinish(f)
  PROVE  FinishIInv'
<1> DEFINE row == db[ApiRun]
           status == NewValue(f, "status")
           category == NewValue(f, "category")
<1>1. /\ DOMAIN db = Row /\ IsRow(row) /\ stage[f] = "flushed"
      /\ row.status # NoRow.status /\ Finish(f).status # NoRow.status
      /\ Finish(f) = [status |-> Finish(f).status, category |-> Finish(f).category]
  BY ExternalAssumption DEF RequestsOK, IsTable, CommitFinish, FinishIInv, Final, NoRow
<1>2. db'[ApiRun] = [row EXCEPT !.status = status, !.category = category, !.cost = FALSE]
  BY <1>1, RunsApart DEF CommitFinish, FinishRun
<1> HIDE DEF status, category
<1>3. db'[ApiRun].status = status /\ db'[ApiRun].category = category
  BY <1>1, <1>2 DEF IsRow
<1>4. last' = f /\ unwritten' = Overtaken(f)
  BY DEF CommitFinish
<1>5. status # NoRow.status
  BY <1>1 DEF status, NewValue
<1>6. ASSUME NEW c \in {"status", "category"}, Finish(f)[c] # seen[f][c] \/ seen[f][c] = row[c]
      PROVE  NewValue(f, c) = Finish(f)[c]
  BY <1>6 DEF NewValue, Written
<1>7. FinishIsLastRequests'
  <2>1. \A c \in {"status", "category"} : db'[ApiRun][c] = NewValue(f, c)
    BY <1>3 DEF status, category
  <2>2. ASSUME NEW c \in {"status", "category"}, c \notin unwritten'
        PROVE  db'[ApiRun][c] = Finish(f)[c]
    <3>1. Finish(f)[c] # seen[f][c] \/ seen[f][c] = row[c]
      BY <1>4, <2>2 DEF Overtaken
    <3> QED BY <1>6, <2>1, <3>1
  <2> QED BY <1>4, <2>2 DEF FinishIsLastRequests
<1> QED BY <1>3, <1>5, <1>7 DEF FinishIInv

LEMMA FinishesKept ==
  ASSUME RequestsOK, FinishIInv, [Next]_vars
  PROVE  FinishIInv'
<1>1. /\ DOMAIN db = Row /\ IsRow(db[ApiRun]) /\ stage \in [Request -> Stages]
      /\ EventRequest \cup FinishRequest \subseteq Request
  BY DEF RequestsOK, IsTable, Request
<1>2. CASE CreateApiRun
  <2>1. db[ApiRun] = NoRow /\ db'[ApiRun] = [NoRow EXCEPT !.status = "running"]
    BY <1>1, <1>2, RunsApart DEF CreateApiRun, CreateRun, Missing
  <2>2. db'[ApiRun].status = "running" /\ last = NoRequest /\ last' = last
    BY <1>2, <2>1 DEF FinishIInv, NoRow, CreateApiRun, history
  <2> QED BY <2>2 DEF FinishIInv, FinishIsLastRequests, NoRow
<1>3. ASSUME NEW e \in EventRequest, EventStep(e)
      PROVE  FinishIInv'
  <2>1. last' = last /\ unwritten' = unwritten
    BY <1>3 DEF EventStep, CheckRun, RefuseEvent, InsertEvent, CommitEvent, history
  <2>2. \A r \in EventRequest \cup FinishRequest : r # e => stage'[r] = stage[r]
    BY <1>1, <1>3 DEF EventStep, CheckRun, RefuseEvent, InsertEvent, CommitEvent, AnswerOrLose,
       Goto, Answer
  <2>3. CASE CommitEvent(e)
    <3>1. db[ApiRun].status # NoRow.status
      BY <2>3 DEF CommitEvent, FinishIInv
    <3>2. Columns(db'[ApiRun]) = Columns(db[ApiRun])
      BY <1>1, <2>3, RunsApart DEF CommitEvent, IsRow, Columns
    <3>3. db'[ApiRun].status = db[ApiRun].status
      BY <3>2 DEF Columns
    <3>4. \A c \in {"status", "category"} : db'[ApiRun][c] = db[ApiRun][c]
      BY <3>2 DEF Columns
    <3>5. FinishIsLastRequests'
      BY <2>1, <3>4 DEF FinishIInv, FinishIsLastRequests
    <3> QED BY <2>1, <3>1, <3>3, <3>5 DEF FinishIInv
  <2>4. CASE ~CommitEvent(e)
    <3>1. db' = db
      BY <1>3, <2>4 DEF EventStep, CheckRun, RefuseEvent, InsertEvent
    <3>2. CASE db[ApiRun].status = NoRow.status
      <4>1. stage[e] = "ready" /\ db[ApiRun] = NoRow
        BY <1>3, <2>4, <3>2 DEF FinishIInv, EventStep, CheckRun, RefuseEvent, InsertEvent
      <4>2. stage'[e] = "ended"
        BY <1>1, <1>3, <2>4, <4>1 DEF EventStep, CheckRun, RefuseEvent, InsertEvent, Missing,
           Answer
      <4> QED BY <2>1, <2>2, <3>1, <4>2, FinishesFrame
    <3>3. CASE db[ApiRun].status # NoRow.status
      BY <2>1, <3>1, <3>3 DEF FinishIInv, FinishIsLastRequests
    <3> QED BY <3>2, <3>3
  <2> QED BY <2>3, <2>4
<1>4. ASSUME NEW f \in FinishRequest, FinishStep(f)
      PROVE  FinishIInv'
  <2>1. CASE CommitFinish(f)
    BY <2>1, CommitFinishKeeps
  <2>2. CASE ~CommitFinish(f)
    <3>1. db' = db /\ last' = last /\ unwritten' = unwritten
      BY <1>4, <2>2 DEF FinishStep, RefuseFinish, LoadRun, UpdateRun, history
    <3>2. \A r \in EventRequest \cup FinishRequest : r # f => stage'[r] = stage[r]
      BY <1>1, <1>4, <2>2 DEF FinishStep, RefuseFinish, LoadRun, UpdateRun, Goto, Answer
    <3>3. CASE db[ApiRun].status = NoRow.status
      <4>1. stage'[f] = "ended"
        BY <1>1, <1>4, <2>2, <3>3 DEF FinishStep, RefuseFinish, LoadRun, UpdateRun, Answer,
           Missing, FinishIInv
      <4> QED BY <3>1, <3>2, <4>1, FinishesFrame
    <3>4. CASE db[ApiRun].status # NoRow.status
      BY <3>1, <3>4 DEF FinishIInv, FinishIsLastRequests
    <3> QED BY <3>3, <3>4
  <2> QED BY <2>1, <2>2
<1>5. ASSUME NEW i \in ImportRequest, ImportStep(i)
      PROVE  FinishIInv'
  <2>1. \A r \in EventRequest \cup FinishRequest : stage'[r] = stage[r]
    <3>1. \/ \E place : Goto(i, place)
          \/ \E told : Answer(i, told)
      BY <1>5 DEF ImportStep, RefuseImport, FindTarget, InsertTarget, SaveImport,
         CommitImport, AnswerOrLose
    <3>2. i \in Request /\ i \notin EventRequest \cup FinishRequest
      BY ExternalAssumption DEF Request
    <3> QED BY <1>1, <3>1, <3>2, OtherRequests
  <2>2. db'[ApiRun] = db[ApiRun] /\ last' = last /\ unwritten' = unwritten
    <3>1. CASE CommitImport(i)
      <4>1. retries[i] \in 0..MaxRetries
        BY DEF RequestsOK, Request
      <4> QED BY <1>1, <3>1, <4>1, RunsApart, Saving DEF CommitImport
    <3>2. CASE ~CommitImport(i)
      BY <1>5, <3>2 DEF ImportStep, RefuseImport, FindTarget, InsertTarget, SaveImport,
         history
    <3> QED BY <3>1, <3>2
  <2> QED BY <2>1, <2>2, FinishesFrame
<1>6. ASSUME NEW r \in Request, Fail(r) \/ Retry(r)
      PROVE  FinishIInv'
  <2>1. db' = db /\ last' = last /\ unwritten' = unwritten
    BY <1>6 DEF Fail, Retry, history
  <2>2. \A o \in Request : stage'[o] = stage[o] \/ stage'[o] \in {"ready", "ended"}
    BY <1>1, <1>6 DEF Fail, Retry, Answer
  <2> QED BY <1>1, <2>1, <2>2, FinishesFrame
<1>7. CASE UNCHANGED vars
  BY <1>7, FinishesFrame DEF vars
<1> QED BY <1>2, <1>3, <1>4, <1>5, <1>6, <1>7 DEF Next, Handler

------------------------------------------------------------------------------
(* import_agent_transcript                                                  *)

\* An import that has its target has it from the table or inserted it.
ImportIInv ==
  /\ ImportsAllOrNothing
  /\ \A i \in ImportRequest :
       stage[i] \in {"found", "flushed"} => Target(i) \in targets \/ i \in inserted

LEMMA ImportsStart == Init => ImportIInv
<1> SUFFICES ASSUME Init PROVE ImportIInv
  OBVIOUS
<1>1. \A row \in Imported : db[row] = NoRow
  BY DEF Init, Row
<1> QED BY <1>1 DEF Init, ImportIInv, ImportsAllOrNothing, Request

\* A request is answered "ok" only by its commit.
LEMMA ImportsFrame ==
  ASSUME RequestsOK, ImportIInv, targets' = targets, retries' = retries,
         \A row \in Imported : db'[row] = db[row],
         \A i \in ImportRequest :
           /\ answer'[i] = answer[i] \/ answer'[i] # "ok"
           /\ stage'[i] \in {"found", "flushed"} => Target(i) \in targets \/ i \in inserted'
  PROVE  ImportIInv'
<1>1. {x \in Imported : db'[x] # NoRow} = {x \in Imported : db[x] # NoRow}
  OBVIOUS
<1>2. \A i \in ImportRequest : <<i, retries[i]>> \in Imported
  BY RunsApart DEF RequestsOK, Request
<1>3. \A i \in ImportRequest : answer'[i] = "ok" => db'[<<i, retries'[i]>>] # NoRow
  BY <1>2 DEF ImportIInv, ImportsAllOrNothing
<1> QED BY <1>1, <1>3 DEF ImportIInv, ImportsAllOrNothing

LEMMA CommitImportKeeps ==
  ASSUME RequestsOK, ImportIInv, NEW i \in ImportRequest, CommitImport(i)
  PROVE  ImportIInv'
<1> DEFINE new == <<i, retries[i]>>
<1>1. new \in Row /\ new \in Imported /\ new[1] = i
  <2>1. retries[i] \in 0..MaxRetries
    BY DEF RequestsOK, Request
  <2> QED BY <2>1, RunsApart
<1>2. db' = SaveTranscript(db, i, new)
  BY DEF CommitImport
<1>3. retries' = retries /\ answer \in [Request -> Answers] /\ stage \in [Request -> Stages]
  BY DEF CommitImport, RequestsOK
<1>4. new = <<i, retries[i]>>
  OBVIOUS
<1> HIDE DEF new
<1>5. /\ db'[new] = SavedTranscript(i)
      /\ \A row \in Imported : row # new => db'[row] = db[row]
  BY <1>1, <1>2, Saving DEF RequestsOK, IsTable, Row
<1>6. db'[new] # NoRow /\ WholeImport(i, db'[new])
  BY <1>5, SavedIsSome DEF WholeImport, SavedTranscript, Columns
<1>7. targets' = targets \cup {Target(i)}
  <2>1. Target(i) \in targets \/ i \in inserted
    BY DEF CommitImport, ImportIInv
  <2>2. CASE i \in inserted
    BY <2>2 DEF CommitImport
  <2>3. CASE i \notin inserted
    <3>1. inserted \cap {i} = {}
      BY <2>3
    <3> QED BY <2>1, <2>3, <3>1 DEF CommitImport
  <2> QED BY <2>2, <2>3
<1>8. \A row \in Imported :
        db'[row] # NoRow => WholeImport(row[1], db'[row]) /\ Target(row[1]) \in targets'
  BY <1>1, <1>5, <1>6, <1>7 DEF ImportIInv, ImportsAllOrNothing
<1>9. targets' = {Target(row[1]) : row \in {x \in Imported : db'[x] # NoRow}}
  <2>1. targets = {Target(row[1]) : row \in {x \in Imported : db[x] # NoRow}}
    BY DEF ImportIInv, ImportsAllOrNothing
  <2>2. ASSUME NEW t \in targets' PROVE \E row \in Imported : db'[row] # NoRow /\ t = Target(row[1])
    BY <2>1, <2>2, <1>1, <1>5, <1>6, <1>7
  <2>3. ASSUME NEW row \in Imported, db'[row] # NoRow PROVE Target(row[1]) \in targets'
    BY <2>3, <1>8
  <2> QED BY <2>2, <2>3
<1>10. \A o \in ImportRequest : answer'[o] = "ok" => db'[<<o, retries[o]>>] # NoRow
  <2> SUFFICES ASSUME NEW o \in ImportRequest, answer'[o] = "ok"
               PROVE  db'[<<o, retries[o]>>] # NoRow
    OBVIOUS
  <2>1. CASE o = i
    BY <2>1, <1>4, <1>6
  <2>2. CASE o # i
    <3>1. answer[o] = "ok" /\ <<o, retries[o]>> # new
      <4>1. answer'[o] = answer[o]
        BY <2>2, <1>3 DEF CommitImport, AnswerOrLose, Answer, Request
      <4>2. <<o, retries[o]>> # <<i, retries[i]>>
        BY <2>2
      <4> QED BY <4>1, <4>2, <1>4
    <3>2. <<o, retries[o]>> \in Imported
      BY RunsApart DEF RequestsOK, Request
    <3> QED BY <3>1, <3>2, <1>5 DEF ImportIInv, ImportsAllOrNothing
  <2> QED BY <2>1, <2>2
<1>11. \A o \in ImportRequest :
         stage'[o] \in {"found", "flushed"} => Target(o) \in targets' \/ o \in inserted'
  <2> SUFFICES ASSUME NEW o \in ImportRequest, stage'[o] \in {"found", "flushed"}
               PROVE  Target(o) \in targets' \/ o \in inserted'
    OBVIOUS
  <2>1. o # i /\ stage[o] \in {"found", "flushed"}
    BY <1>3 DEF CommitImport, AnswerOrLose, Answer, Request
  <2> QED BY <2>1, <1>7 DEF CommitImport, ImportIInv
<1> QED BY <1>3, <1>8, <1>9, <1>10, <1>11 DEF ImportIInv, ImportsAllOrNothing

LEMMA ImportsKept ==
  ASSUME RequestsOK, ImportIInv, [Next]_vars
  PROVE  ImportIInv'
<1>1. /\ DOMAIN db = Row /\ stage \in [Request -> Stages] /\ answer \in [Request -> Answers]
      /\ ImportRequest \subseteq Request /\ Imported \subseteq Row /\ ApiRun \notin Imported
  BY ExternalAssumption DEF RequestsOK, IsTable, Request, Row
<1> DEFINE Kept(i) == Target(i) \in targets \/ i \in inserted
<1>2. \A i \in ImportRequest : stage[i] \in {"found", "flushed"} => Kept(i)
  BY DEF ImportIInv
<1>3. CASE CreateApiRun
  <2>1. \A row \in Imported : db'[row] = db[row]
    BY <1>1, <1>3 DEF CreateApiRun, CreateRun
  <2> QED BY <1>2, <1>3, <2>1, ImportsFrame DEF CreateApiRun
<1>4. ASSUME NEW r \in Request, r \notin ImportRequest,
             (\E place : Goto(r, place)) \/ (\E told : Answer(r, told)),
             targets' = targets, retries' = retries, inserted' = inserted,
             \A row \in Imported : db'[row] = db[row]
      PROVE  ImportIInv'
  <2>1. \A i \in ImportRequest : stage'[i] = stage[i] /\ answer'[i] = answer[i]
    BY <1>1, <1>4, OtherRequests
  <2> QED BY <1>2, <1>4, <2>1, ImportsFrame
<1>5. ASSUME NEW i \in ImportRequest, ImportStep(i)
      PROVE  ImportIInv'
  <2>1. CASE CommitImport(i)
    BY <2>1, CommitImportKeeps
  <2>2. CASE ~CommitImport(i)
    <3>1. db' = db /\ targets' = targets /\ retries' = retries /\ inserted \subseteq inserted'
      BY <1>5, <2>2 DEF ImportStep, RefuseImport, FindTarget, InsertTarget, SaveImport
    <3>2. \A o \in ImportRequest : o # i => stage'[o] = stage[o] /\ answer'[o] = answer[o]
      BY <1>1, <1>5, <2>2 DEF ImportStep, RefuseImport, FindTarget, InsertTarget, SaveImport,
         Goto, Answer
    <3>3. answer'[i] = answer[i] \/ answer'[i] # "ok"
      BY <1>1, <1>5, <2>2 DEF ImportStep, RefuseImport, FindTarget, InsertTarget, SaveImport,
         Goto, Answer
    <3>4. stage'[i] \in {"found", "flushed"} => Target(i) \in targets \/ i \in inserted'
      BY <1>1, <1>2, <1>5, <2>2 DEF ImportStep, RefuseImport, FindTarget, InsertTarget,
         SaveImport, Goto, Answer
    <3> QED BY <1>2, <3>1, <3>2, <3>3, <3>4, ImportsFrame
  <2> QED BY <2>1, <2>2
<1>6. ASSUME NEW r \in Request, Fail(r)
      PROVE  ImportIInv'
  <2>1. /\ db' = db /\ targets' = targets /\ retries' = retries
        /\ \A i \in ImportRequest : i # r => (i \in inserted <=> i \in inserted')
    BY <1>6 DEF Fail, RollBack
  <2>2. /\ \A i \in ImportRequest : i # r => stage'[i] = stage[i] /\ answer'[i] = answer[i]
        /\ stage'[r] = "ended" /\ answer'[r] = "error"
    BY <1>1, <1>6 DEF Fail, Answer
  <2> QED BY <1>2, <2>1, <2>2, ImportsFrame
<1>7. ASSUME NEW r \in Request, Retry(r)
      PROVE  ImportIInv'
  <2>1. db' = db /\ targets' = targets /\ inserted' = inserted
    BY <1>7 DEF Retry, history
  <2>2. /\ \A i \in ImportRequest : i # r => /\ stage'[i] = stage[i] /\ answer'[i] = answer[i]
                                             /\ retries'[i] = retries[i]
        /\ stage'[r] = "ready" /\ answer'[r] = "none"
    BY <1>1, <1>7 DEF Retry, RequestsOK
  <2> QED BY <2>1, <2>2 DEF ImportIInv, ImportsAllOrNothing
<1>8. CASE UNCHANGED vars
  BY <1>2, <1>8, ImportsFrame DEF vars
<1>9. ASSUME NEW e \in EventRequest, EventStep(e)
      PROVE  ImportIInv'
  <2>1. e \in Request /\ e \notin ImportRequest
    BY ExternalAssumption DEF Request
  <2>2. /\ (\E place : Goto(e, place)) \/ (\E told : Answer(e, told))
        /\ targets' = targets /\ retries' = retries /\ inserted' = inserted
    BY <1>9 DEF EventStep, CheckRun, RefuseEvent, InsertEvent, CommitEvent, AnswerOrLose
  <2>3. \A row \in Imported : db'[row] = db[row]
    BY <1>1, <1>9 DEF EventStep, CheckRun, RefuseEvent, InsertEvent, CommitEvent
  <2> QED BY <1>4, <2>1, <2>2, <2>3
<1>10. ASSUME NEW f \in FinishRequest, FinishStep(f)
       PROVE  ImportIInv'
  <2>1. f \in Request /\ f \notin ImportRequest
    BY ExternalAssumption DEF Request
  <2>2. /\ (\E place : Goto(f, place)) \/ (\E told : Answer(f, told))
        /\ targets' = targets /\ retries' = retries /\ inserted' = inserted
    BY <1>10 DEF FinishStep, RefuseFinish, LoadRun, UpdateRun, CommitFinish, AnswerOrLose
  <2>3. \A row \in Imported : db'[row] = db[row]
    BY <1>1, <1>10 DEF FinishStep, RefuseFinish, LoadRun, UpdateRun, CommitFinish, FinishRun
  <2> QED BY <1>4, <2>1, <2>2, <2>3
<1> QED BY <1>3, <1>5, <1>6, <1>7, <1>8, <1>9, <1>10 DEF Next, Handler

\* Who has not found its target has lost no race for it.
RaceIInv ==
  /\ RacesOnce
  /\ \A i \in ImportRequest : stage[i] = "missing" => races[i] = 0

LEMMA RacesKept ==
  ASSUME RequestsOK, RaceIInv, [Next]_vars
  PROVE  RaceIInv'
<1>1. /\ stage \in [Request -> Stages] /\ races \in [ImportRequest -> Nat]
      /\ ImportRequest \subseteq Request
  BY DEF RequestsOK, Request
<1>2. ASSUME NEW i \in ImportRequest, FindTarget(i)
      PROVE  RaceIInv'
  BY <1>1, <1>2 DEF FindTarget, Goto, history, RaceIInv, RacesOnce
<1>3. ASSUME NEW i \in ImportRequest, InsertTarget(i)
      PROVE  RaceIInv'
  BY <1>1, <1>3 DEF InsertTarget, Goto, Answer, RaceIInv, RacesOnce
<1>4. ASSUME races' = races, targets \subseteq targets',
             \A i \in ImportRequest : stage'[i] = "missing" => stage[i] = "missing"
      PROVE  RaceIInv'
  BY <1>4 DEF RaceIInv, RacesOnce
<1>5. CASE CreateApiRun \/ UNCHANGED vars
  BY <1>4, <1>5 DEF CreateApiRun, vars, history
<1>6. ASSUME NEW e \in EventRequest, EventStep(e)
      PROVE  RaceIInv'
  <2>1. \A i \in ImportRequest : stage'[i] = "missing" => stage[i] = "missing"
    BY <1>1, <1>6 DEF EventStep, CheckRun, RefuseEvent, InsertEvent, CommitEvent, AnswerOrLose,
       Goto, Answer
  <2> QED BY <1>4, <1>6, <2>1 DEF EventStep, CheckRun, RefuseEvent, InsertEvent, CommitEvent,
         history
<1>7. ASSUME NEW f \in FinishRequest, FinishStep(f)
      PROVE  RaceIInv'
  <2>1. \A i \in ImportRequest : stage'[i] = "missing" => stage[i] = "missing"
    BY <1>1, <1>7 DEF FinishStep, RefuseFinish, LoadRun, UpdateRun, CommitFinish, AnswerOrLose,
       Goto, Answer
  <2> QED BY <1>4, <1>7, <2>1 DEF FinishStep, RefuseFinish, LoadRun, UpdateRun, CommitFinish,
         history
<1>8. ASSUME NEW i \in ImportRequest, RefuseImport(i) \/ SaveImport(i) \/ CommitImport(i)
      PROVE  RaceIInv'
  <2>1. \A o \in ImportRequest : stage'[o] = "missing" => stage[o] = "missing"
    BY <1>1, <1>8 DEF RefuseImport, SaveImport, CommitImport, AnswerOrLose, Goto, Answer
  <2> QED BY <1>4, <1>8, <2>1 DEF RefuseImport, SaveImport, CommitImport, history
<1>9. ASSUME NEW r \in Request, Fail(r) \/ Retry(r)
      PROVE  RaceIInv'
  <2>1. \A i \in ImportRequest : stage'[i] = "missing" => stage[i] = "missing"
    BY <1>1, <1>9 DEF Fail, Retry, Answer
  <2> QED BY <1>4, <1>9, <2>1 DEF Fail, Retry, history
<1> QED BY <1>2, <1>3, <1>5, <1>6, <1>7, <1>8, <1>9 DEF Next, Handler, ImportStep

------------------------------------------------------------------------------
(* Values, and who can wait for whom                                        *)

Values == {"absent", "running"} \cup Final

Kinds ==
  /\ \A e \in EventRequest : stage[e] \in {"ready", "checked", "flushed", "ended"}
  /\ \A f \in FinishRequest : stage[f] \in {"ready", "loaded", "flushed", "ended"}
  /\ \A i \in ImportRequest : stage[i] \in {"ready", "missing", "found", "flushed", "ended"}

\* The reported run's status; the imported ones' follows from ImportIInv.
ValueIInv ==
  /\ Kinds
  /\ db[ApiRun].status \in Values
  /\ \A i \in inserted : stage[i] \in {"found", "flushed"}

LEMMA ValuesStart == Init => ValueIInv
BY RunsApart DEF Init, ValueIInv, Values, NoRow, Kinds, Request

LEMMA KindsKept ==
  ASSUME RequestsOK, Kinds, [Next]_vars
  PROVE  Kinds'
<1>1. /\ stage \in [Request -> Stages]
      /\ \A e \in EventRequest : e \in Request /\ e \notin FinishRequest \cup ImportRequest
      /\ \A f \in FinishRequest : f \in Request /\ f \notin ImportRequest
      /\ \A i \in ImportRequest : i \in Request
  BY ExternalAssumption DEF RequestsOK, Request
<1>2. ASSUME NEW r \in Request, NEW place, stage' = [stage EXCEPT ![r] = place],
             \/ place \in {"ready", "ended"}
             \/ place = "flushed"
             \/ r \in EventRequest /\ place = "checked"
             \/ r \in FinishRequest /\ place = "loaded"
             \/ r \in ImportRequest /\ place \in {"missing", "found"}
      PROVE  Kinds'
  BY <1>1, <1>2 DEF Kinds
<1>3. CASE stage' = stage
  BY <1>3 DEF Kinds
<1>4. ASSUME NEW e \in EventRequest, EventStep(e)
      PROVE  Kinds'
  BY <1>1, <1>2, <1>4 DEF EventStep, CheckRun, RefuseEvent, InsertEvent, CommitEvent,
     AnswerOrLose, Goto, Answer
<1>5. ASSUME NEW f \in FinishRequest, FinishStep(f)
      PROVE  Kinds'
  BY <1>1, <1>2, <1>5 DEF FinishStep, RefuseFinish, LoadRun, UpdateRun, CommitFinish,
     AnswerOrLose, Goto, Answer
<1>6. ASSUME NEW i \in ImportRequest, ImportStep(i)
      PROVE  Kinds'
  <2>1. CASE FindTarget(i)
    <3>1. \E place \in {"missing", "found"} : stage' = [stage EXCEPT ![i] = place]
      BY <2>1 DEF FindTarget, Goto
    <3> QED BY <1>1, <1>2, <3>1
  <2>2. CASE ~FindTarget(i)
    BY <1>1, <1>2, <1>6, <2>2 DEF ImportStep, RefuseImport, InsertTarget, SaveImport,
       CommitImport, AnswerOrLose, Goto, Answer
  <2> QED BY <2>1, <2>2
<1>7. ASSUME NEW r \in Request, Fail(r) \/ Retry(r)
      PROVE  Kinds'
  BY <1>2, <1>7 DEF Fail, Retry, Answer
<1> QED BY <1>3, <1>4, <1>5, <1>6, <1>7 DEF Next, Handler, CreateApiRun, vars

LEMMA ReportedValue ==
  ASSUME RequestsOK, db[ApiRun].status \in Values, [Next]_vars
  PROVE  db'[ApiRun].status \in Values
<1>1. DOMAIN db = Row /\ IsRow(db[ApiRun]) /\ retries \in [Request -> 0..MaxRetries]
  BY DEF RequestsOK, IsTable
<1>2. CASE db' = db
  BY <1>2
<1>3. CASE CreateApiRun
  <2>1. db'[ApiRun] = [NoRow EXCEPT !.status = "running"]
    BY <1>1, <1>3, RunsApart DEF CreateApiRun, CreateRun
  <2> QED BY <2>1 DEF NoRow, Values
<1>4. ASSUME NEW e \in EventRequest, CommitEvent(e)
      PROVE  db'[ApiRun].status \in Values
  BY <1>1, <1>4, RunsApart DEF CommitEvent, IsRow
<1>5. ASSUME NEW f \in FinishRequest, CommitFinish(f)
      PROVE  db'[ApiRun].status \in Values
  <2> DEFINE status == NewValue(f, "status")
             category == NewValue(f, "category")
  <2>1. status \in Values
    BY ExternalAssumption DEF NewValue, Values
  <2>2. db'[ApiRun] = [db[ApiRun] EXCEPT !.status = status, !.category = category,
                                         !.cost = FALSE]
    BY <1>1, <1>5, RunsApart DEF CommitFinish, FinishRun
  <2> HIDE DEF status, category
  <2> QED BY <1>1, <2>1, <2>2 DEF IsRow
<1>6. ASSUME NEW i \in ImportRequest, CommitImport(i)
      PROVE  db'[ApiRun].status \in Values
  <2>1. retries[i] \in 0..MaxRetries
    BY <1>1 DEF Request
  <2>2. db'[ApiRun] = db[ApiRun]
    BY <1>1, <1>6, <2>1, RunsApart, Saving DEF CommitImport
  <2> QED BY <2>2
<1> QED
  BY <1>2, <1>3, <1>4, <1>5, <1>6
  DEF Next, vars, Handler, EventStep, FinishStep, ImportStep, CheckRun, RefuseEvent,
      InsertEvent, RefuseFinish, LoadRun, UpdateRun, RefuseImport, FindTarget,
      InsertTarget, SaveImport, Fail, Retry, RollBack

LEMMA OwnersKept ==
  ASSUME RequestsOK, \A i \in inserted : stage[i] \in {"found", "flushed"}, [Next]_vars
  PROVE  \A i \in inserted' : stage'[i] \in {"found", "flushed"}
<1>1. /\ stage \in [Request -> Stages] /\ inserted \subseteq ImportRequest
      /\ \A i \in ImportRequest : i \in Request /\ i \notin EventRequest \cup FinishRequest
  BY ExternalAssumption DEF RequestsOK, Request
<1>2. CASE CreateApiRun \/ UNCHANGED vars
  BY <1>2 DEF CreateApiRun, vars
<1>3. ASSUME NEW e \in EventRequest, EventStep(e)
      PROVE  inserted' = inserted /\ \A i \in inserted : stage'[i] = stage[i]
  BY <1>1, <1>3 DEF EventStep, CheckRun, RefuseEvent, InsertEvent, CommitEvent, AnswerOrLose,
     Goto, Answer
<1>4. ASSUME NEW f \in FinishRequest, FinishStep(f)
      PROVE  inserted' = inserted /\ \A i \in inserted : stage'[i] = stage[i]
  BY <1>1, <1>4 DEF FinishStep, RefuseFinish, LoadRun, UpdateRun, CommitFinish, AnswerOrLose,
     Goto, Answer
<1>5. ASSUME NEW i \in ImportRequest, ImportStep(i)
      PROVE  \A o \in inserted' : stage'[o] \in {"found", "flushed"}
  <2>1. \A o \in inserted : o # i => stage'[o] = stage[o]
    BY <1>1, <1>5 DEF ImportStep, RefuseImport, FindTarget, InsertTarget, SaveImport,
       CommitImport, AnswerOrLose, Goto, Answer
  <2>2. \A o \in inserted' : o # i => o \in inserted
    BY <1>5 DEF ImportStep, RefuseImport, FindTarget, InsertTarget, SaveImport, CommitImport
  <2>3. i \in inserted' => stage'[i] \in {"found", "flushed"}
    BY <1>1, <1>5 DEF ImportStep, RefuseImport, FindTarget, InsertTarget, SaveImport,
       CommitImport, Goto, Answer
  <2> QED BY <2>1, <2>2, <2>3
<1>6. ASSUME NEW r \in Request, Fail(r)
      PROVE  \A i \in inserted' : stage'[i] \in {"found", "flushed"}
  BY <1>1, <1>6 DEF Fail, RollBack, Answer
<1>7. ASSUME NEW r \in Request, Retry(r)
      PROVE  \A i \in inserted' : stage'[i] \in {"found", "flushed"}
  BY <1>1, <1>7 DEF Retry
<1> QED BY <1>2, <1>3, <1>4, <1>5, <1>6, <1>7 DEF Next, Handler

------------------------------------------------------------------------------
(* Theorems                                                                 *)

ExternalIInv ==
  RequestsOK /\ EventIInv /\ FinishIInv /\ ImportIInv /\ RaceIInv /\ ValueIInv

LEMMA ExternalInvariance == Spec => []ExternalIInv
<1>1. Init => ExternalIInv
  <2>1. Init => RaceIInv
    BY DEF Init, RaceIInv, RacesOnce, Request
  <2> QED BY <2>1, RequestsStart, EventsStart, FinishesStart, ImportsStart, ValuesStart
          DEF ExternalIInv
<1>2. ExternalIInv /\ [Next]_vars => ExternalIInv'
  <2>1. ASSUME RequestsOK, ValueIInv, [Next]_vars PROVE ValueIInv'
    BY <2>1, ReportedValue, OwnersKept, KindsKept DEF ValueIInv
  <2> QED BY <2>1, RequestsKept, EventsKept, FinishesKept, ImportsKept, RacesKept
          DEF ExternalIInv
<1> QED BY <1>1, <1>2, PTL DEF Spec

\* create_event (apps/api/main.py) never answers 201 for an event that is not stored,
\* nor 409 for one that is the client's own unless its answer was lost, for any
\* requests, numbers, failures and repetitions.
THEOREM EventAnswers == Spec => []EventAnswerIsTrue
<1>1. ExternalIInv => EventAnswerIsTrue
  BY DEF ExternalIInv, EventIInv
<1> QED BY <1>1, ExternalInvariance, PTL

\* finish_run (apps/api/main.py, run_repository.py) leaves the values of one request,
\* the last that committed, for any finishes, unless they overlap.
THEOREM LastFinish == Spec => []FinishIsLastRequests
<1>1. ExternalIInv => FinishIsLastRequests
  BY DEF ExternalIInv, FinishIInv
<1> QED BY <1>1, ExternalInvariance, PTL

\* import_agent_transcript (real_agent_adapter.py) stores a whole history with its
\* target or nothing, for any transcripts, failures and repetitions.
THEOREM WholeImports == Spec => []ImportsAllOrNothing
<1>1. ExternalIInv => ImportsAllOrNothing
  BY DEF ExternalIInv, ImportIInv
<1> QED BY <1>1, ExternalInvariance, PTL

\* get_or_create_agent_target (run_repository.py) refuses an import at most once
\* because another one has stored the same new target.
THEOREM LosesOnce == Spec => []RacesOnce
<1>1. ExternalIInv => RacesOnce
  BY DEF ExternalIInv, RaceIInv
<1> QED BY <1>1, ExternalInvariance, PTL

\* Statuses, answers and the places of the handlers of apps/api/main.py and
\* real_agent_adapter.py are the declared ones.
THEOREM ExternalTypes == Spec => []ExternalTypeOK
<1>1. ASSUME ExternalIInv PROVE ExternalTypeOK
  <2>1. \A r \in Request : answer[r] \in Answers /\ (answer[r] # "none" <=> stage[r] = "ended")
    BY <1>1 DEF ExternalIInv, RequestsOK
  <2>2. ASSUME NEW row \in Imported PROVE db[row].status \in Values
    <3>1. CASE db[row] = NoRow
      BY <3>1 DEF NoRow, Values
    <3>2. CASE db[row] # NoRow
      <4>1. WholeImport(row[1], db[row]) /\ row[1] \in ImportRequest
        BY <1>1, <2>2, <3>2 DEF ExternalIInv, ImportIInv, ImportsAllOrNothing, Imported
      <4>2. db[row].status = Transcript(row[1]).status
        BY <4>1 DEF WholeImport, Columns
      <4> QED BY <4>1, <4>2, ExternalAssumption DEF Values
    <3> QED BY <3>1, <3>2
  <2>3. \A row \in Row : db[row].status \in Values
    BY <1>1, <2>2 DEF ExternalIInv, ValueIInv, Row
  <2> QED BY <1>1, <2>1, <2>3 DEF ExternalIInv, ValueIInv, Kinds, ExternalTypeOK, Answers, Values
<1> QED BY <1>1, ExternalInvariance, PTL

\* Requests and imports never wait for each other in a circle, for any numbers of
\* them: an insert into agent_targets waits only for a transaction that has made its
\* own, one into events or an UPDATE only for one that is about to commit.
THEOREM NobodyStuck == Spec => []NeverStuck
<1>1. ASSUME ExternalIInv PROVE NeverStuck
  <2> SUFFICES ASSUME NEW r \in Request, stage[r] \notin {"ready", "ended"}
               PROVE  \E o \in Request : CanGoOn(o)
    BY DEF NeverStuck
  <2>1. \A o \in Request : stage[o] = "flushed" => CanGoOn(o)
    BY DEF CanGoOn
  <2>2. CASE r \in EventRequest
    <3>1. stage[r] \in {"checked", "flushed"}
      BY <1>1, <2>2 DEF ExternalIInv, ValueIInv, Kinds
    <3>2. CASE SameNumber(r) = {}
      BY <2>1, <2>2, <3>1, <3>2 DEF CanGoOn
    <3>3. CASE SameNumber(r) # {}
      BY <2>1, <3>3 DEF SameNumber, Open
    <3> QED BY <3>2, <3>3
  <2>3. CASE r \in FinishRequest
    <3>1. stage[r] \in {"loaded", "flushed"}
      BY <1>1, <2>3 DEF ExternalIInv, ValueIInv, Kinds
    <3>2. CASE FinishRequest \cap Open = {}
      BY <2>1, <2>3, <3>1, <3>2 DEF CanGoOn
    <3>3. CASE FinishRequest \cap Open # {}
      BY <2>1, <3>3 DEF Open
    <3> QED BY <3>2, <3>3
  <2>4. CASE r \in ImportRequest
    <3>1. stage[r] \in {"missing", "found", "flushed"}
      BY <1>1, <2>4 DEF ExternalIInv, ValueIInv, Kinds
    <3>2. CASE \A o \in inserted : Target(o) # Target(r)
      BY <2>1, <2>4, <3>1, <3>2 DEF CanGoOn
    <3>3. ASSUME NEW o \in inserted PROVE o \in Request /\ CanGoOn(o)
      <4>1. o \in ImportRequest /\ stage[o] \in {"found", "flushed"}
        BY <1>1, <3>3 DEF ExternalIInv, RequestsOK, ValueIInv
      <4> QED BY <4>1 DEF CanGoOn, Request
    <3> QED BY <3>2, <3>3
  <2> QED BY <2>2, <2>3, <2>4 DEF Request
<1> QED BY <1>1, ExternalInvariance, PTL
=============================================================================
