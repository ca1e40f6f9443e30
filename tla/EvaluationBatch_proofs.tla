----------------------- MODULE EvaluationBatch_proofs -----------------------
(***************************************************************************)
(* TLAPS proofs about EvaluationBatch, for any number of benchmarks, any    *)
(* max_concurrency and any number of faults.  One session serves all tasks, *)
(* so a commit of one publishes the rows of all: the invariant says what a  *)
(* task's row can be at each of its stages, and that the session and the    *)
(* table differ at most by running rows, whoever flushed, committed, failed *)
(* or closed the session.                                                   *)
(***************************************************************************)
EXTENDS EvaluationBatch, Workflow_proofs, FiniteSetTheorems

Cancelled == [NoRow EXCEPT !.status = "cancelled", !.category = "cancellation"]

\* The session has failed somebody or was closed under those who go on.
Excuse == faults > 0 \/ batch \in {"closed", "crashed"}

\* What the session shows of a run and the table does not, is its running row.
Shown(r) == view[r] = db[r] \/ (db[r] = NoRow /\ view[r] = Running)

Shape(r) == db[r] \in {NoRow, Running, Cancelled} \/ Whole(r, db[r])

\* The row of a run at each stage of its task.
Progress(r) ==
  /\ stage[r] \in Stage
  /\ stage[r] = "queued" => view[r] = NoRow
  /\ stage[r] = "agent" => view[r] \in {NoRow, Running}
  /\ stage[r] = "agent" /\ view[r] = NoRow => Excuse
  /\ stage[r] = "cancelled" => view[r] # Running
  /\ stage[r] = "raised" /\ view[r] = Running => Excuse
  /\ stage[r] = "done" =>
       /\ Whole(r, view[r])
       /\ view[r].status = RunStatus(outcome[r]) /\ view[r].category = outcome[r].category

BatchDomains ==
  /\ DOMAIN stage = Run /\ DOMAIN outcome = Run /\ DOMAIN view = Run /\ DOMAIN db = Run
  /\ faults \in Nat
  /\ session \in {"usable", "poisoned"}

BatchIInv ==
  /\ BatchDomains
  /\ session = "poisoned" => Excuse
  /\ \A r \in Run : Shown(r) /\ Shape(r) /\ Progress(r)

------------------------------------------------------------------------------
(* Rows                                                                     *)

\* The rows a run can have are told apart by their status.
LEMMA RowsDiffer ==
  /\ NoRow.status = "absent" /\ Running.status = "running" /\ Cancelled.status = "cancelled"
  /\ NoRow # Running /\ NoRow # Cancelled /\ Running # Cancelled
  /\ \A r \in Run : \A row : Whole(r, row) =>
       row.status \in {"completed", "failed"} /\ row \notin {NoRow, Running, Cancelled}
<1>1. NoRow.status = "absent" /\ Running.status = "running" /\ Cancelled.status = "cancelled"
  BY DEF NoRow, Running, Cancelled
<1>2. QED
  BY <1>1 DEF Whole

LEMMA CreatedRow ==
  ASSUME NEW r \in Run, NEW table, DOMAIN table = Run
  PROVE  /\ CreateRun(table, r)[r] = Running /\ DOMAIN CreateRun(table, r) = Run
         /\ \A u \in Run \ {r} : CreateRun(table, r)[u] = table[u]
  BY DEF CreateRun, Running

LEMMA CancelledRow ==
  ASSUME NEW r \in Run, NEW table, DOMAIN table = Run, table[r] = Running
  PROVE  LET t == FinishRun(table, r, "cancelled", "cancellation", FALSE) IN
         /\ t[r] = Cancelled /\ DOMAIN t = Run
         /\ \A u \in Run \ {r} : t[u] = table[u]
<1> DEFINE t == FinishRun(table, r, "cancelled", "cancellation", FALSE)
<1>1. /\ t[r] = [table[r] EXCEPT !.status = "cancelled", !.category = "cancellation",
                                  !.cost = FALSE]
      /\ DOMAIN t = Run /\ \A u \in Run \ {r} : t[u] = table[u]
  BY DEF FinishRun
<1>2. [Running EXCEPT !.status = "cancelled", !.category = "cancellation", !.cost = FALSE]
        = Cancelled
  BY DEF Running, Cancelled, NoRow
<1>3. QED
  BY <1>1, <1>2

\* The trajectory of run_async is the one RowIsWhole asks for.
LEMMA TrajectoryRecorded ==
  ASSUME NEW r \in Run, NEW o, Honest(r, o)
  PROVE  LET n == Len(o.events) + 4
             ev == Trajectory(o) IN
         /\ n \in Nat /\ Recorded(ev, o.events) /\ Len(ev) = n + 2
         /\ ev[n] = Event("trajectory_collected")
         /\ ev[n + 1] = Event("evaluation_completed")
         /\ ev[n + 2] = Event("persistence_requested")
<1> DEFINE agent == o.events
           k == Len(agent)
           ev == Trajectory(o)
           tail == <<Event("trajectory_collected"), Event("evaluation_completed"),
                     Event("persistence_requested")>>
           front == Opening \o agent
<1>1. agent \in Seq(Ev) /\ k \in Nat
  BY LenProperties DEF Honest
<1>2. /\ Opening \in Seq(Ev) /\ Len(Opening) = 3
      /\ tail \in Seq(Ev) /\ Len(tail) = 3
      /\ tail[1] = Event("trajectory_collected") /\ tail[2] = Event("evaluation_completed")
      /\ tail[3] = Event("persistence_requested")
  BY EventType DEF Plain, Opening
<1>3. ev = front \o tail
  BY DEF Trajectory
<1> HIDE DEF agent, tail, ev
<1>4. /\ front \in Seq(Ev) /\ Len(front) = k + 3
      /\ \A i \in 1..3 : front[i] = Opening[i]
      /\ \A i \in 1..k : front[3 + i] = agent[i]
  <2>1. /\ front \in Seq(Ev) /\ Len(front) = 3 + k
        /\ \A i \in 1 .. 3 + k : front[i] = IF i <= 3 THEN Opening[i] ELSE agent[i - 3]
    <3> HIDE DEF front, k
    <3>1. /\ front \in Seq(Ev) /\ Len(front) = Len(Opening) + Len(agent)
          /\ \A i \in 1 .. Len(Opening) + Len(agent) :
               front[i] = IF i <= Len(Opening) THEN Opening[i] ELSE agent[i - Len(Opening)]
      BY <1>1, <1>2, ConcatProperties DEF front
    <3>2. Len(Opening) = 3 /\ Len(agent) = k
      BY <1>2 DEF k
    <3>3. QED
      BY <3>1, <3>2
  <2>2. \A i \in 1..k : 3 + i \in 1 .. 3 + k /\ ~(3 + i <= 3) /\ (3 + i) - 3 = i
    BY <1>1
  <2>3. \A i \in 1..3 : i \in 1 .. 3 + k /\ i <= 3
    BY <1>1
  <2> HIDE DEF front, k
  <2>4. \A i \in 1..k : front[3 + i] = agent[i]
    BY <2>1, <2>2
  <2>5. QED
    BY <1>1, <2>1, <2>3, <2>4
<1> HIDE DEF front, k
<1>5. /\ ev \in Seq(Ev) /\ Len(ev) = k + 6
      /\ \A i \in 1 .. k + 6 : ev[i] = IF i <= k + 3 THEN front[i] ELSE tail[i - (k + 3)]
  <2>1. /\ ev \in Seq(Ev) /\ Len(ev) = (k + 3) + 3
        /\ \A i \in 1 .. (k + 3) + 3 : ev[i] = IF i <= k + 3 THEN front[i] ELSE tail[i - (k + 3)]
    <3>1. /\ ev \in Seq(Ev) /\ Len(ev) = Len(front) + Len(tail)
          /\ \A i \in 1 .. Len(front) + Len(tail) :
               ev[i] = IF i <= Len(front) THEN front[i] ELSE tail[i - Len(front)]
      BY <1>2, <1>3, <1>4, ConcatProperties
    <3>2. QED
      BY <1>2, <1>4, <3>1
  <2>2. (k + 3) + 3 = k + 6
    BY <1>1
  <2>3. QED
    BY <2>1, <2>2
<1>6. /\ \A i \in 1..3 : ev[i] = Opening[i]
      /\ \A i \in 1..k : ev[3 + i] = agent[i]
  <2>1. \A i \in 1..3 : i \in 1 .. k + 6 /\ i <= k + 3
    BY <1>1
  <2>2. \A i \in 1..k : 3 + i \in 1 .. k + 6 /\ 3 + i <= k + 3
    BY <1>1
  <2>3. QED
    BY <1>4, <1>5, <2>1, <2>2
<1>7. /\ ev[k + 4] = tail[1] /\ ev[k + 5] = tail[2] /\ ev[k + 6] = tail[3]
  <2>1. /\ k + 4 \in 1 .. k + 6 /\ ~(k + 4 <= k + 3) /\ (k + 4) - (k + 3) = 1
        /\ k + 5 \in 1 .. k + 6 /\ ~(k + 5 <= k + 3) /\ (k + 5) - (k + 3) = 2
        /\ k + 6 \in 1 .. k + 6 /\ ~(k + 6 <= k + 3) /\ (k + 6) - (k + 3) = 3
    BY <1>1
  <2>2. QED
    BY <1>5, <2>1
<1>8. Recorded(ev, agent)
  BY <1>5, <1>6 DEF Recorded, k
<1>9. k + 4 \in Nat /\ (k + 4) + 1 = k + 5 /\ (k + 4) + 2 = k + 6
  BY <1>1
<1>10. QED
  BY <1>2, <1>5, <1>7, <1>8, <1>9 DEF ev, k, agent

\* What a task commits of its run is the whole of it, and no row but its own.
LEMMA SavedIsWhole ==
  ASSUME NEW r \in Run, NEW o \in AgentOutcome(r),
         NEW table, DOMAIN table = Run, table[r] = Running
  PROVE  LET t == SaveRun(table, r, Trajectory(o), StepCount(o), o) IN
         /\ Whole(r, t[r]) /\ t[r].status = RunStatus(o) /\ t[r].category = o.category
         /\ DOMAIN t = Run /\ \A u \in Run \ {r} : t[u] = table[u]
<1> DEFINE t == SaveRun(table, r, Trajectory(o), StepCount(o), o)
           n == Len(o.events) + 4
           ev == Trajectory(o)
           row == [status |-> RunStatus(o), category |-> o.category,
                   events |-> [i \in 0..(Len(ev) - 1) |-> ev[i + 1]],
                   steps |-> n, evaluation |-> EvaluationStatus(o),
                   cost |-> HasLiveCost(r, ev), execution |-> "none", artifact |-> FALSE]
<1>1. Honest(r, o)
  BY OutcomesHonest
<1>2. StepCount(o) = n
  <2>1. Len(o.events) \in Nat /\ Len(Opening) = 3
    BY <1>1, LenProperties DEF Honest, Opening
  <2>2. QED
    BY <2>1 DEF StepCount
<1>3. t[r] = row
  BY <1>2, SavedRow
<1>4. Whole(r, row)
  <2>1. /\ Recorded(ev, o.events) /\ Len(ev) = n + 2
        /\ ev[n] = Event("trajectory_collected") /\ ev[n + 1] = Event("evaluation_completed")
        /\ ev[n + 2] = Event("persistence_requested")
    BY <1>1, TrajectoryRecorded
  <2> HIDE DEF ev
  <2>2. QED
    BY <1>1, <2>1, RowIsWhole
<1>5. row.status = RunStatus(o) /\ row.category = o.category
  OBVIOUS
<1>6. DOMAIN t = Run /\ \A u \in Run \ {r} : t[u] = table[u]
  BY DEF SaveRun, FinishRun, AddEvaluation, AddMetrics, AddEvents
<1>7. QED
  BY <1>3, <1>4, <1>5, <1>6

------------------------------------------------------------------------------
(* The invariant                                                            *)

LEMMA BatchInit == Init => BatchIInv
<1> SUFFICES ASSUME Init PROVE BatchIInv
  OBVIOUS
<1>1. BatchDomains /\ session = "usable"
  BY DEF Init, BatchDomains
<1>2. ASSUME NEW r \in Run PROVE Shown(r) /\ Shape(r) /\ Progress(r)
  <2>1. stage[r] = "queued" /\ view[r] = NoRow /\ db[r] = NoRow
    BY DEF Init
  <2>2. QED
    BY <2>1 DEF Shown, Shape, Progress, Stage
<1>3. QED
  BY <1>1, <1>2 DEF BatchIInv

\* A step of one task leaves the stages of the others and their rows in the
\* session as they are; a commit brings the table up to the session.
LEMMA OneTask ==
  ASSUME BatchIInv, NEW r \in Run, BatchDomains', Excuse => Excuse',
         session' = "poisoned" => Excuse',
         Shown(r)' /\ Shape(r)' /\ Progress(r)',
         \A u \in Run \ {r} :
           /\ stage'[u] = stage[u] /\ outcome'[u] = outcome[u] /\ view'[u] = view[u]
           /\ db'[u] \in {db[u], view[u]}
  PROVE  BatchIInv'
<1>1. ASSUME NEW u \in Run \ {r} PROVE Shown(u)' /\ Shape(u)' /\ Progress(u)'
  <2>1. Shown(u) /\ Shape(u) /\ Progress(u)
    BY DEF BatchIInv
  <2>2. Shown(u)' /\ Shape(u)'
    BY <2>1 DEF Shown, Shape
  <2>3. Progress(u)'
    BY <2>1 DEF Progress
  <2>4. QED
    BY <2>2, <2>3
<1>2. QED
  BY <1>1 DEF BatchIInv

\* A rollback takes the running rows away that no commit has published, and there
\* is an excuse for every task that misses its own from now on.
LEMMA RollbackKeeps ==
  ASSUME BatchIInv, BatchDomains', Excuse', view' = db, UNCHANGED <<db, outcome>>,
         \A u \in Run : stage'[u] = stage[u] \/ stage'[u] \in {"raised", "crashed"}
  PROVE  BatchIInv'
<1>1. ASSUME NEW u \in Run PROVE Shown(u)' /\ Shape(u)' /\ Progress(u)'
  <2>1. Shown(u) /\ Shape(u) /\ Progress(u)
    BY DEF BatchIInv
  <2>2. Shown(u)' /\ Shape(u)'
    BY <2>1 DEF Shown, Shape
  <2>3. ASSUME stage'[u] \in {"raised", "crashed"} PROVE Progress(u)'
    BY <2>3 DEF Progress, Stage
  <2>4. ASSUME stage'[u] = stage[u] PROVE Progress(u)'
    <3>1. view[u] # Running => db[u] = view[u]
      BY <2>1 DEF Shown
    <3>2. view[u] = Running => db[u] \in {NoRow, Running}
      BY <2>1 DEF Shown
    <3>3. stage[u] = "done" => view[u] # Running
      BY <2>1, RowsDiffer DEF Progress
    <3>4. QED
      BY <2>1, <2>4, <3>1, <3>2, <3>3, RowsDiffer DEF Progress
  <2>5. QED
    BY <2>2, <2>3, <2>4
<1>2. QED
  BY <1>1 DEF BatchIInv

LEMMA StartKeeps ==
  ASSUME BatchIInv, NEW r \in Run, Start(r) \/ StartFails(r) \/ ListenerRaises(r)
  PROVE  BatchIInv'
<1> USE DEF BatchIInv, BatchDomains
<1>1. CASE Start(r)
  <2>1. /\ stage[r] = "queued" /\ stage' = [stage EXCEPT ![r] = "agent"]
        /\ view' = CreateRun(view, r) /\ UNCHANGED <<outcome, batch, db, session, faults>>
    BY <1>1 DEF Start, Admitted, End, Flush
  <2>2. /\ view'[r] = Running /\ DOMAIN view' = Run
        /\ \A u \in Run \ {r} : view'[u] = view[u]
    BY <2>1, CreatedRow
  <2>3. view[r] = NoRow /\ db[r] = NoRow
    BY <2>1, RowsDiffer DEF Progress, Shown
  <2>4. Shown(r)' /\ Shape(r)' /\ Progress(r)'
    BY <2>1, <2>2, <2>3, RowsDiffer DEF Shown, Shape, Progress, Stage
  <2>5. QED
    BY <2>1, <2>2, <2>4, OneTask DEF Excuse
<1>2. CASE StartFails(r) /\ UNCHANGED <<session, view, db, faults>>
  <2>1. /\ stage[r] = "queued" /\ stage' = [stage EXCEPT ![r] = "raised"]
        /\ UNCHANGED <<outcome, batch, db, session, faults, view>>
    BY <1>2 DEF StartFails, Admitted, End
  <2>2. Shown(r)' /\ Shape(r)' /\ Progress(r)'
    BY <2>1, RowsDiffer DEF Shown, Shape, Progress, Stage
  <2>3. QED
    BY <2>1, <2>2, OneTask DEF Excuse
<1>3. CASE StartFails(r) /\ RefusedFlush
  <2>1. /\ stage' = [stage EXCEPT ![r] = "raised"] /\ view' = db
        /\ UNCHANGED <<outcome, db>> /\ faults' = faults + 1 /\ session' = "poisoned"
    BY <1>3 DEF StartFails, End, RefusedFlush, Poison
  <2>2. Excuse'
    BY <2>1 DEF Excuse
  <2>3. QED
    BY <2>1, <2>2, RollbackKeeps
<1>4. CASE ListenerRaises(r)
  <2>1. /\ stage' = [stage EXCEPT ![r] = "raised"] /\ faults' = faults + 1
        /\ UNCHANGED <<outcome, batch, db, session>>
        /\ \/ stage[r] = "queued" /\ view' = CreateRun(view, r)
           \/ stage[r] = "agent" /\ view' = view
    BY <1>4 DEF ListenerRaises, Admitted, End
  <2>2. Excuse'
    BY <2>1 DEF Excuse
  <2>3. /\ DOMAIN view' = Run /\ view'[r] \in {view[r], Running}
        /\ view'[r] = view[r] \/ view[r] = NoRow
        /\ \A u \in Run \ {r} : view'[u] = view[u]
    BY <2>1, CreatedRow DEF Progress
  <2>4. Shown(r)' /\ Shape(r)' /\ Progress(r)'
    BY <2>1, <2>2, <2>3, RowsDiffer DEF Shown, Shape, Progress, Stage
  <2>5. QED
    BY <2>1, <2>2, <2>3, <2>4, OneTask
<1>5. QED
  BY <1>1, <1>2, <1>3, <1>4 DEF StartFails

\* A task commits its own run: whole if the agent answered, cancelled if it was
\* cancelled.  What it publishes of its siblings is at most their running rows.
LEMMA CommitKeeps ==
  ASSUME BatchIInv, NEW r \in Run, Finish(r) \/ CancelInAgent(r)
  PROVE  /\ BatchIInv'
         /\ db[r] \in {NoRow, Running}
         /\ db'[r].status \in {"completed", "failed", "cancelled"}
         /\ \A u \in Run \ {r} : db'[u] \in {db[u], view[u]}
<1> USE DEF BatchIInv, BatchDomains
<1>1. /\ stage[r] = "agent" /\ session = "usable"
      /\ UNCHANGED <<batch, session, faults>> /\ db' = view'
      /\ \E s \in {"done", "raised", "cancelled"} : stage' = [stage EXCEPT ![r] = s]
      /\ view[r] # NoRow
  BY DEF Finish, CancelInAgent, Commit, End, Missing
<1>2. view[r] = Running /\ db[r] \in {NoRow, Running}
  BY <1>1 DEF Progress, Shown
<1>3. CASE Finish(r)
  <2>1. PICK o \in AgentOutcome(r) :
          /\ outcome' = [outcome EXCEPT ![r] = o]
          /\ view' = SaveRun(view, r, Trajectory(o), StepCount(o), o)
    BY <1>3 DEF Finish, Commit, AsyncAgentOutcome
  <2>2. /\ Whole(r, view'[r]) /\ view'[r].status = RunStatus(o)
        /\ view'[r].category = o.category
        /\ DOMAIN view' = Run /\ \A u \in Run \ {r} : view'[u] = view[u]
    BY <1>2, <2>1, SavedIsWhole
  <2>3. stage'[r] \in {"done", "raised"}
    BY <1>3 DEF Finish, End
  <2>4. Shown(r)' /\ Shape(r)' /\ Progress(r)'
    BY <1>1, <2>1, <2>2, <2>3, RowsDiffer DEF Shown, Shape, Progress, Stage
  <2>5. BatchIInv'
    BY <1>1, <2>1, <2>2, <2>4, OneTask DEF Excuse
  <2>6. db'[r].status \in {"completed", "failed"}
    BY <1>1, <2>2, RowsDiffer
  <2>7. QED
    BY <1>1, <1>2, <2>2, <2>5, <2>6
<1>4. CASE CancelInAgent(r)
  <2>1. /\ view' = FinishRun(view, r, "cancelled", "cancellation", FALSE)
        /\ stage' = [stage EXCEPT ![r] = "cancelled"] /\ UNCHANGED outcome
    BY <1>4 DEF CancelInAgent, Commit, End
  <2>2. /\ view'[r] = Cancelled /\ DOMAIN view' = Run
        /\ \A u \in Run \ {r} : view'[u] = view[u]
    BY <1>2, <2>1, CancelledRow
  <2>3. Shown(r)' /\ Shape(r)' /\ Progress(r)'
    BY <1>1, <2>1, <2>2, RowsDiffer DEF Shown, Shape, Progress, Stage
  <2>4. BatchIInv'
    BY <1>1, <2>1, <2>2, <2>3, OneTask DEF Excuse
  <2>5. QED
    BY <1>1, <1>2, <2>2, <2>4, RowsDiffer
<1>5. QED
  BY <1>3, <1>4

LEMMA FinishFailsKeeps ==
  ASSUME BatchIInv, NEW r \in Run, FinishFails(r)
  PROVE  BatchIInv'
<1> USE DEF BatchIInv, BatchDomains
<1>1. /\ stage[r] = "agent" /\ stage' = [stage EXCEPT ![r] = "raised"]
      /\ UNCHANGED <<outcome, batch>>
  BY DEF FinishFails, End
<1>2. CASE RefusedFlush
  <2>1. view' = db /\ UNCHANGED db /\ faults' = faults + 1 /\ session' = "poisoned"
    BY <1>2 DEF RefusedFlush, Poison
  <2>2. Excuse'
    BY <2>1 DEF Excuse
  <2>3. QED
    BY <1>1, <2>1, <2>2, RollbackKeeps
<1>3. CASE Missing(view, r) /\ Poison /\ UNCHANGED faults
  <2>1. view[r] = NoRow /\ view' = db /\ UNCHANGED <<db, faults>> /\ session' = "poisoned"
    BY <1>3 DEF Missing, Poison
  <2>2. Excuse'
    BY <1>1, <2>1 DEF Progress, Excuse
  <2>3. QED
    BY <1>1, <2>1, <2>2, RollbackKeeps
<1>4. CASE Refused
  <2>1. session = "poisoned" /\ UNCHANGED <<session, view, db, faults>>
    BY <1>4 DEF Refused
  <2>2. Excuse /\ Excuse'
    BY <1>1, <2>1 DEF Excuse
  <2>3. Shown(r)' /\ Shape(r)' /\ Progress(r)'
    BY <1>1, <2>1, <2>2 DEF Shown, Shape, Progress, Stage
  <2>4. QED
    BY <1>1, <2>1, <2>2, <2>3, OneTask
<1>5. QED
  BY <1>2, <1>3, <1>4 DEF FinishFails

LEMMA CancelKeeps ==
  ASSUME BatchIInv, NEW r \in Run, CancelFails(r) \/ CancelInQueue(r)
  PROVE  BatchIInv'
<1> USE DEF BatchIInv, BatchDomains
<1>1. UNCHANGED <<outcome, batch, session, view, db, faults>>
  BY DEF CancelFails, CancelInQueue
<1>2. Excuse' = Excuse
  BY <1>1 DEF Excuse
<1>3. CASE CancelFails(r)
  <2>1. /\ stage[r] = "agent" /\ stage' = [stage EXCEPT ![r] = "raised"]
        /\ session = "usable" => view[r] = NoRow
    BY <1>3 DEF CancelFails, End, Missing
  <2>2. Excuse
    BY <2>1 DEF Progress
  <2>3. Shown(r)' /\ Shape(r)' /\ Progress(r)'
    BY <1>1, <1>2, <2>1, <2>2 DEF Shown, Shape, Progress, Stage
  <2>4. QED
    BY <1>1, <1>2, <2>1, <2>3, OneTask
<1>4. CASE CancelInQueue(r)
  <2>1. stage[r] = "queued" /\ stage' = [stage EXCEPT ![r] = "cancelled"]
    BY <1>4 DEF CancelInQueue, End
  <2>2. Shown(r)' /\ Shape(r)' /\ Progress(r)'
    BY <1>1, <1>2, <2>1, RowsDiffer DEF Shown, Shape, Progress, Stage
  <2>3. QED
    BY <1>1, <1>2, <2>1, <2>2, OneTask
<1>5. QED
  BY <1>3, <1>4

\* Steps that leave tasks and rows alone.
LEMMA NothingHappens ==
  ASSUME BatchIInv, UNCHANGED <<stage, outcome, session, view, db, faults>>,
         Excuse => Excuse'
  PROVE  BatchIInv'
<1>1. BatchDomains' /\ (session' = "poisoned" => Excuse')
  BY DEF BatchIInv, BatchDomains
<1>2. ASSUME NEW r \in Run PROVE Shown(r)' /\ Shape(r)' /\ Progress(r)'
  <2>1. Shown(r) /\ Shape(r) /\ Progress(r)
    BY DEF BatchIInv
  <2>2. Shown(r)' /\ Shape(r)'
    BY <2>1 DEF Shown, Shape
  <2>3. Progress(r)'
    BY <2>1 DEF Progress
  <2>4. QED
    BY <2>2, <2>3
<1>3. QED
  BY <1>1, <1>2 DEF BatchIInv

\* The caller: only closing the session changes rows, and it is an excuse.
LEMMA CallerKeeps ==
  ASSUME BatchIInv, CallerStep \/ CancelBatch \/ Crash
  PROVE  BatchIInv'
<1>1. CASE GatherRaises \/ GatherReturns \/ CancelRest \/ CancelBatch
  <2>1. UNCHANGED <<stage, outcome, session, view, db, faults>>
    BY <1>1 DEF GatherRaises, GatherReturns, CancelRest, CancelBatch
  <2>2. batch' = batch \/ batch = "gathering"
    BY <1>1 DEF GatherRaises, GatherReturns, CancelRest, CancelBatch
  <2>3. Excuse => Excuse'
    BY <2>1, <2>2 DEF Excuse
  <2>4. QED
    BY <2>1, <2>3, NothingHappens
<1>2. CASE CloseSession
  <2>1. /\ batch' = "closed" /\ session' = "usable" /\ view' = db
        /\ UNCHANGED <<stage, outcome, db, faults>>
    BY <1>2 DEF CloseSession
  <2>2. Excuse' /\ BatchDomains'
    BY <2>1 DEF Excuse, BatchIInv, BatchDomains
  <2>3. QED
    BY <2>1, <2>2, RollbackKeeps
<1>3. CASE Crash
  <2>1. /\ stage' = [r \in Run |-> IF stage[r] \in Ended THEN stage[r] ELSE "crashed"]
        /\ batch' = "crashed" /\ view' = db /\ UNCHANGED <<outcome, session, db, faults>>
    BY <1>3 DEF Crash
  <2>2. Excuse' /\ BatchDomains'
    BY <2>1 DEF Excuse, BatchIInv, BatchDomains
  <2>3. QED
    BY <2>1, <2>2, RollbackKeeps
<1>4. QED
  BY <1>1, <1>2, <1>3 DEF CallerStep

LEMMA BatchStep == BatchIInv /\ [Next]_vars => BatchIInv'
<1> SUFFICES ASSUME BatchIInv, [Next]_vars PROVE BatchIInv'
  OBVIOUS
<1>1. CASE UNCHANGED vars
  <2>1. UNCHANGED <<stage, outcome, batch, session, view, db, faults>>
    BY <1>1 DEF vars
  <2>2. QED
    BY <2>1, NothingHappens DEF Excuse
<1>2. CASE CallerStep \/ CancelBatch \/ Crash
  BY <1>2, CallerKeeps
<1>3. ASSUME NEW r \in Run, TaskStep(r) PROVE BatchIInv'
  BY <1>3, StartKeeps, CommitKeeps, FinishFailsKeeps, CancelKeeps DEF TaskStep
<1>4. QED
  BY <1>1, <1>2, <1>3 DEF Next

------------------------------------------------------------------------------
(* Theorems                                                                 *)

\* What the table has of a run is in the session too, unless it is a running row.
LEMMA FinalIsShown ==
  ASSUME BatchIInv, NEW r \in Run
  PROVE  /\ view[r] # Running => db[r] = view[r]
         /\ db[r].status = "running" => db[r] = Running /\ view[r] = Running
<1>1. Shown(r) /\ Shape(r)
  BY DEF BatchIInv
<1>2. QED
  BY <1>1, RowsDiffer DEF Shown, Shape

\* The rows in the table are nothing, a running or a cancelled row with nothing in
\* it, or a whole run: no commit publishes half of another task's run.
THEOREM NoHalf == Spec => []NoHalfRun
<1>1. BatchIInv => NoHalfRun
  <2> SUFFICES ASSUME BatchIInv, NEW r \in Run
               PROVE  \/ db[r] = NoRow
                      \/ db[r] = CreateRun(db, r)[r]
                      \/ db[r] = FinishRun(CreateRun(db, r), r, "cancelled",
                                           "cancellation", FALSE)[r]
                      \/ Whole(r, db[r])
    BY DEF NoHalfRun
  <2>1. DOMAIN db = Run /\ Shape(r)
    BY DEF BatchIInv, BatchDomains
  <2>2. CreateRun(db, r)[r] = Running /\ DOMAIN CreateRun(db, r) = Run
    BY <2>1, CreatedRow
  <2>3. FinishRun(CreateRun(db, r), r, "cancelled", "cancellation", FALSE)[r] = Cancelled
    BY <2>2, CancelledRow
  <2>4. QED
    BY <2>1, <2>2, <2>3 DEF Shape
<1>2. QED
  BY <1>1, BatchInit, BatchStep, PTL DEF Spec

\* A task that is done has shown its rows to everybody.
LEMMA DoneShown == BatchIInv => DoneIsPublished
<1> SUFFICES ASSUME BatchIInv, NEW r \in Run, stage[r] = "done"
             PROVE  /\ Whole(r, db[r])
                    /\ db[r].status = RunStatus(outcome[r])
                    /\ db[r].category = outcome[r].category
  BY DEF DoneIsPublished
<1>1. /\ Whole(r, view[r])
      /\ view[r].status = RunStatus(outcome[r]) /\ view[r].category = outcome[r].category
  BY DEF BatchIInv, Progress
<1>2. db[r] = view[r]
  BY <1>1, FinalIsShown, RowsDiffer
<1>3. QED
  BY <1>1, <1>2

\* A result that was handed to the caller is in the table, whole and as returned.
THEOREM Done == Spec => []DoneIsPublished
BY DoneShown, BatchInit, BatchStep, PTL DEF Spec

\* A run is left running by a crash, or by a task that raised after a fault or the
\* closing of the session.
THEOREM LeftRunning == Spec => []LeftRunningOnlyByFailure
<1>1. BatchIInv => LeftRunningOnlyByFailure
  <2> SUFFICES ASSUME BatchIInv, NEW r \in Run, db[r].status = "running", stage[r] \in Ended
               PROVE  stage[r] = "crashed" \/ (stage[r] = "raised" /\ Excuse)
    BY DEF LeftRunningOnlyByFailure, Excuse
  <2>1. view[r] = Running
    BY FinalIsShown
  <2>2. stage[r] \notin {"done", "cancelled"}
    BY <2>1, RowsDiffer DEF BatchIInv, Progress
  <2>3. QED
    BY <2>1, <2>2 DEF BatchIInv, Progress, Ended
<1>2. QED
  BY <1>1, BatchInit, BatchStep, PTL DEF Spec

------------------------------------------------------------------------------
(* The tasks and their caller                                               *)

Working == {r \in Run : stage[r] = "agent"}

\* The semaphore's bound, and what the caller can conclude from how gather ended.
CallerIInv ==
  /\ stage \in [Run -> Stage]
  /\ cancelled \subseteq Run
  /\ \A r \in Run : outcome[r] \in AgentOutcome(r) \cup {NoOutcome}
  /\ batch \in {"gathering", "raised", "closed", "returned", "crashed"}
  /\ faults \in 0..MaxFaults
  /\ Cardinality(Working) <= MaxConcurrency
  /\ batch = "returned" => \A r \in Run : stage[r] = "done"
  /\ batch \in {"raised", "closed"} => \E r \in Run : stage[r] \in {"raised", "cancelled"}

LEMMA WorkingFinite ==
  /\ IsFiniteSet(Working) /\ Cardinality(Working) \in Nat
  /\ IsFiniteSet(Working') /\ Cardinality(Working') \in Nat
<1>1. IsFiniteSet(Run) /\ Working \subseteq Run /\ Working' \subseteq Run
  BY BatchAssumption DEF Working
<1>2. QED
  BY <1>1, FS_Subset, FS_CardinalityType

\* A step that puts nobody to work keeps the semaphore's bound.
LEMMA NobodyStarts ==
  ASSUME Cardinality(Working) <= MaxConcurrency, Working' \subseteq Working
  PROVE  Cardinality(Working') <= MaxConcurrency
<1>1. Cardinality(Working') <= Cardinality(Working)
  BY WorkingFinite, FS_Subset
<1>2. QED
  BY <1>1, WorkingFinite, BatchAssumption

\* A task ends, or begins while fewer work than may.
LEMMA TaskCalls ==
  ASSUME CallerIInv, NEW r \in Run, stage[r] \in {"queued", "agent"}, NEW s \in Stage,
         stage' = [stage EXCEPT ![r] = s], UNCHANGED <<cancelled, batch>>,
         faults' \in 0..MaxFaults,
         \A u \in Run : outcome'[u] \in AgentOutcome(u) \cup {NoOutcome},
         s = "agent" => Cardinality(Working) < MaxConcurrency
  PROVE  CallerIInv'
<1>1. \A u \in Run : stage'[u] = IF u = r THEN s ELSE stage[u]
  BY DEF CallerIInv
<1>2. Cardinality(Working') <= MaxConcurrency
  <2>1. CASE s # "agent"
    <3>1. Working' \subseteq Working
      BY <1>1, <2>1 DEF Working
    <3>2. QED
      BY <3>1, NobodyStarts DEF CallerIInv
  <2>2. CASE s = "agent"
    <3>1. Working' = Working \cup {r}
      BY <1>1, <2>2 DEF Working
    <3>2. Cardinality(Working') <= Cardinality(Working) + 1
      BY <3>1, WorkingFinite, FS_AddElement
    <3>3. QED
      BY <2>2, <3>2, WorkingFinite, BatchAssumption
  <2>3. QED
    BY <2>1, <2>2
<1>3. stage' \in [Run -> Stage]
  BY DEF CallerIInv
<1>4. batch' # "returned"
  BY DEF CallerIInv
<1>5. batch' \in {"raised", "closed"} => \E u \in Run : stage'[u] \in {"raised", "cancelled"}
  <2> SUFFICES ASSUME batch \in {"raised", "closed"}
               PROVE  \E u \in Run : stage'[u] \in {"raised", "cancelled"}
    OBVIOUS
  <2>1. PICK u \in Run : stage[u] \in {"raised", "cancelled"}
    BY DEF CallerIInv
  <2>2. stage'[u] = stage[u]
    BY <1>1, <2>1
  <2>3. QED
    BY <2>1, <2>2
<1>6. QED
  BY <1>2, <1>3, <1>4, <1>5 DEF CallerIInv

LEMMA CallerInit == Init => CallerIInv
<1> SUFFICES ASSUME Init PROVE CallerIInv
  OBVIOUS
<1>1. Working = {}
  BY DEF Init, Working
<1>2. Cardinality(Working) = 0
  BY <1>1, FS_EmptySet
<1>3. QED
  BY <1>2, BatchAssumption DEF Init, CallerIInv, Stage

LEMMA CallerInvariant == BatchIInv /\ CallerIInv /\ [Next]_vars => CallerIInv'
<1> SUFFICES ASSUME BatchIInv, CallerIInv, [Next]_vars PROVE CallerIInv'
  OBVIOUS
<1>d. DOMAIN outcome = Run
  BY DEF BatchIInv, BatchDomains
<1>f. faults + 1 \in 0..MaxFaults \/ ~(faults < MaxFaults)
  BY BatchAssumption DEF CallerIInv
<1>1. CASE UNCHANGED vars
  BY <1>1 DEF vars, CallerIInv, Working
<1>2. CASE CancelBatch \/ CancelRest
  <2>1. cancelled' \subseteq Run /\ UNCHANGED <<stage, outcome, batch, faults>>
    BY <1>2 DEF CancelBatch, CancelRest, CallerIInv
  <2>2. QED
    BY <2>1 DEF CallerIInv, Working
<1>3. CASE Crash
  <2>1. /\ stage' = [r \in Run |-> IF stage[r] \in Ended THEN stage[r] ELSE "crashed"]
        /\ batch' = "crashed" /\ UNCHANGED <<cancelled, outcome, faults>>
    BY <1>3 DEF Crash
  <2>2. Working' \subseteq Working
    BY <2>1 DEF Working, Ended
  <2>3. Cardinality(Working') <= MaxConcurrency
    BY <2>2, NobodyStarts DEF CallerIInv
  <2>4. stage' \in [Run -> Stage]
    BY <2>1 DEF CallerIInv, Stage
  <2>5. QED
    BY <2>1, <2>3, <2>4 DEF CallerIInv
<1>4. CASE GatherRaises \/ GatherReturns \/ CloseSession
  <2>1. /\ UNCHANGED <<stage, cancelled, outcome, faults>>
        /\ \/ batch' = "raised" /\ \E r \in Run : stage[r] \in {"raised", "cancelled"}
           \/ batch' = "returned" /\ \A r \in Run : stage[r] = "done"
           \/ batch = "raised" /\ batch' = "closed"
    BY <1>4 DEF GatherRaises, GatherReturns, CloseSession
  <2>2. QED
    BY <2>1 DEF CallerIInv, Working
<1>5. ASSUME NEW r \in Run, Start(r) \/ ListenerRaises(r) PROVE CallerIInv'
  <2>1. /\ stage[r] \in {"queued", "agent"}
        /\ UNCHANGED <<cancelled, outcome, batch>>
        /\ faults' = faults \/ (faults < MaxFaults /\ faults' = faults + 1)
        /\ \/ stage' = [stage EXCEPT ![r] = "raised"]
           \/ stage' = [stage EXCEPT ![r] = "agent"] /\ Cardinality(Working) < MaxConcurrency
    BY <1>5 DEF Start, ListenerRaises, Admitted, Flush, End, Working
  <2>2. QED
    BY <1>f, <2>1, TaskCalls DEF CallerIInv, Stage
<1>6. ASSUME NEW r \in Run, StartFails(r) \/ FinishFails(r) PROVE CallerIInv'
  <2>1. /\ stage[r] \in {"queued", "agent"}
        /\ UNCHANGED <<cancelled, outcome, batch>>
        /\ faults' = faults \/ (faults < MaxFaults /\ faults' = faults + 1)
        /\ stage' = [stage EXCEPT ![r] = "raised"]
    BY <1>6 DEF StartFails, FinishFails, Admitted, RefusedFlush, Refused, End
  <2>2. QED
    BY <1>f, <2>1, TaskCalls DEF CallerIInv, Stage
<1>7. ASSUME NEW r \in Run, Finish(r) PROVE CallerIInv'
  <2>1. PICK o \in AgentOutcome(r) : outcome' = [outcome EXCEPT ![r] = o]
    BY <1>7 DEF Finish, AsyncAgentOutcome
  <2>2. \A u \in Run : outcome'[u] \in AgentOutcome(u) \cup {NoOutcome}
    BY <1>d, <2>1 DEF CallerIInv
  <2>3. /\ stage[r] = "agent" /\ UNCHANGED <<cancelled, batch, faults>>
        /\ \E s \in {"done", "raised"} : stage' = [stage EXCEPT ![r] = s]
    BY <1>7 DEF Finish, Commit, End
  <2>4. QED
    BY <2>2, <2>3, TaskCalls DEF CallerIInv, Stage
<1>8. ASSUME NEW r \in Run, CancelInAgent(r) \/ CancelFails(r) \/ CancelInQueue(r)
      PROVE  CallerIInv'
  <2>1. /\ stage[r] \in {"queued", "agent"}
        /\ UNCHANGED <<cancelled, outcome, batch, faults>>
        /\ \E s \in {"cancelled", "raised"} : stage' = [stage EXCEPT ![r] = s]
    BY <1>8 DEF CancelInAgent, CancelFails, CancelInQueue, Commit, End
  <2>2. QED
    BY <2>1, TaskCalls DEF CallerIInv, Stage
<1>9. QED
  BY <1>1, <1>2, <1>3, <1>4, <1>5, <1>6, <1>7, <1>8 DEF Next, CallerStep, TaskStep

\* The tasks, the session and the rows keep their types; the session never shows a
\* status that finish_run does not write.
THEOREM BatchTypes == Spec => []BatchTypeOK
<1>1. ASSUME BatchIInv, CallerIInv PROVE BatchTypeOK
  <2>1. ASSUME NEW r \in Run
        PROVE  {view[r].status, db[r].status} \subseteq
                 {"absent", "running", "completed", "failed", "cancelled"}
    <3>1. Shape(r) /\ Shown(r)
      BY <1>1 DEF BatchIInv
    <3>2. QED
      BY <3>1, RowsDiffer DEF Shape, Shown
  <2>2. QED
    BY <1>1, <2>1 DEF BatchTypeOK, BatchIInv, BatchDomains, CallerIInv
<1>2. QED
  BY <1>1, BatchInit, BatchStep, CallerInit, CallerInvariant, PTL DEF Spec

\* What the caller of run_batch_async can conclude: with a list of results, every
\* run is whole in the table; with an exception, a task failed or was cancelled;
\* and never more tasks than max_concurrency had their agents at work.
CallerTold ==
  /\ batch = "returned" => \A r \in Run : stage[r] = "done" /\ Whole(r, db[r])
  /\ batch \in {"raised", "closed"} => \E r \in Run : stage[r] \in {"raised", "cancelled"}
  /\ Cardinality(Working) <= MaxConcurrency

\* For any number of benchmarks and faults, what gather hands to the caller is true
\* of the table, and the semaphore's limit holds in spite of failures between its
\* acquisition and its release.
THEOREM CallerIsTold == Spec => []CallerTold
<1>1. BatchIInv => DoneIsPublished
  BY DoneShown
<1>2. DoneIsPublished /\ CallerIInv => CallerTold
  BY DEF CallerIInv, CallerTold, DoneIsPublished
<1>3. QED
  BY <1>1, <1>2, BatchInit, BatchStep, CallerInit, CallerInvariant, PTL DEF Spec

------------------------------------------------------------------------------
(* The ledger                                                               *)

\* Only two steps change the table, each as the ledger allows.
LEMMA BatchLedgerStep ==
  BatchIInv /\ [Next]_vars => [Ledger!Next]_([r \in Run |->
    IF db[r] = NoRow THEN <<"absent">>
    ELSE IF db[r].status = "running" THEN <<"running">>
    ELSE <<"final", db[r]>>])
<1> DEFINE entry(row) == IF row = NoRow THEN <<"absent">>
                         ELSE IF row.status = "running" THEN <<"running">>
                         ELSE <<"final", row>>
           shown == [r \in Run |-> entry(db[r])]
<1> SUFFICES ASSUME BatchIInv, [Next]_vars PROVE [Ledger!Next]_shown
  OBVIOUS
<1>1. CASE UNCHANGED db
  BY <1>1
<1>2. ASSUME NEW r \in Run, Finish(r) \/ CancelInAgent(r) PROVE Ledger!Next
  <2>1. /\ db[r] \in {NoRow, Running}
        /\ db'[r].status \in {"completed", "failed", "cancelled"}
        /\ \A u \in Run \ {r} : db'[u] \in {db[u], view[u]}
    BY <1>2, CommitKeeps
  <2>2. entry(db[r]) \in {<<"absent">>, <<"running">>}
    BY <2>1, RowsDiffer
  <2>3. entry(db'[r]) = <<"final", db'[r]>>
    BY <2>1, RowsDiffer
  <2>4. Ledger!Advances(entry(db[r]), entry(db'[r]))
    BY <2>2, <2>3 DEF Ledger!Advances
  <2>5. ASSUME NEW u \in Run \ {r}
        PROVE  entry(db'[u]) = entry(db[u]) \/ Ledger!Advances(entry(db[u]), entry(db'[u]))
    <3>1. db'[u] = db[u] \/ (db[u] = NoRow /\ db'[u] = Running)
      BY <2>1 DEF BatchIInv, Shown
    <3>2. entry(NoRow) = <<"absent">> /\ entry(Running) = <<"running">>
      BY RowsDiffer
    <3>3. QED
      BY <3>1, <3>2 DEF Ledger!Advances
  <2>6. \A u \in Run : shown'[u] = shown[u] \/ Ledger!Advances(shown[u], shown'[u])
    BY <2>4, <2>5
  <2>7. QED
    BY <2>6 DEF Ledger!Next
<1>3. UNCHANGED db \/ \E r \in Run : Finish(r) \/ CancelInAgent(r)
  BY DEF Next, vars, Crash, CancelBatch, CallerStep, GatherRaises, GatherReturns,
         CloseSession, CancelRest, TaskStep, Start, StartFails, ListenerRaises,
         FinishFails, CancelFails, CancelInQueue, Flush, RefusedFlush, Poison, Refused
<1>4. QED
  BY <1>1, <1>2, <1>3

\* The batch implements the ledger: readers see a run appear, running or final, and
\* never change once it is final nor disappear, although the tasks share one
\* transaction, for any number of tasks.
THEOREM ImplementsBatchLedger == Spec => LedgerSpec
<1>1. Init => Ledger!Init
  BY DEF Init, Ledger!Init
<1>2. QED
  BY <1>1, BatchInit, BatchStep, BatchLedgerStep, PTL
  DEF Spec, LedgerSpec, Ledger!Spec
=============================================================================
