--------------------------- MODULE EvaluationRun ---------------------------
(***************************************************************************)
(* EvaluationService.run of packages/core/agent_eval/workflow.py, called by *)
(* the threads of one process (the API's endpoints, the MCP server's tools) *)
(* or by a process of its own (the TUI's backend, scripts), each call with  *)
(* a session of its own.  The nodes of the graph run in sequence; what they *)
(* flush stays in the call's transaction until _persist commits it.         *)
(***************************************************************************)
EXTENDS Workflow, FiniteSets

VARIABLES stage,    \* the last node a call has run
          events,   \* EventCollector._events
          outcome,  \* final_state and failure_category
          steps,    \* the step_count among the metrics
          pending,  \* the row in the call's open transaction
          db,       \* the committed rows
          result    \* the EvaluationResult a caller got

vars == <<stage, events, outcome, steps, pending, db, result>>

NoOutcome == Outcome(<<>>, FALSE, FALSE, "none")
NoResult == [status |-> "none", events |-> 0, cost |-> FALSE]

\* A call of run() that has begun and not ended.
Active == {"loaded", "ready", "acted", "collected", "evaluated", "persisted"}
Stage == {"new", "returned", "raised", "crashed"} \cup Active

RowStatus == {"absent", "running", "completed", "failed"}

TypeOK ==
  /\ stage \in [Run -> Stage]
  /\ \A r \in Run :
       /\ events[r] \in Seq(Ev)
       /\ outcome[r] \in AgentOutcome(r) \cup {NoOutcome}
       /\ steps[r] \in Nat
       /\ pending[r].status \in {"absent", "running"}
       /\ db[r].status \in RowStatus
       /\ result[r].status \in {"none", "simulated", "completed", "failed"}
       /\ result[r].cost \in BOOLEAN

Init ==
  /\ stage = [r \in Run |-> "new"]
  /\ events = [r \in Run |-> <<>>]
  /\ outcome = [r \in Run |-> NoOutcome]
  /\ steps = [r \in Run |-> 0]
  /\ pending = [r \in Run |-> NoRow]
  /\ db = [r \in Run |-> NoRow]
  /\ result = [r \in Run |-> NoResult]

Goto(r, s) == stage' = [stage EXCEPT ![r] = s]
Collect(r, evs) == events' = [events EXCEPT ![r] = @ \o evs]

------------------------------------------------------------------------------
(* The nodes                                                                *)

LoadBenchmark(r) ==
  /\ stage[r] = "new"
  /\ Goto(r, "loaded")
  /\ Collect(r, <<Event("benchmark_loaded")>>)
  /\ UNCHANGED <<outcome, steps, pending, db, result>>

\* Mutant of SetupEnvironment: the running row is committed.
SetupCommits(r) ==
  /\ stage[r] = "loaded" /\ Goto(r, "ready")
  /\ db' = CreateRun(db, r)
  /\ pending' = CreateRun(pending, r)
  /\ Collect(r, <<Event("environment_ready")>>)
  /\ UNCHANGED <<outcome, steps, result>>

SetupEnvironment(r) ==
  /\ stage[r] = "loaded"
  /\ Goto(r, "ready")
  /\ pending' = CreateRun(pending, r)
  /\ Collect(r, <<Event("environment_ready")>>)
  /\ UNCHANGED <<outcome, steps, db, result>>

\* The agent and the except clauses around it: whatever the agent raises becomes
\* an outcome, so the evaluation goes on.
RunAgent(r) ==
  /\ stage[r] = "ready"
  /\ Goto(r, "acted")
  /\ outcome' \in {[outcome EXCEPT ![r] = o] : o \in AgentOutcome(r)}
  /\ Collect(r, <<Event("user_prompt")>> \o outcome'[r].events)
  /\ UNCHANGED <<steps, pending, db, result>>

CollectTrajectory(r) ==
  /\ stage[r] = "acted"
  /\ Goto(r, "collected")
  /\ Collect(r, <<Event("trajectory_collected")>>)
  /\ UNCHANGED <<outcome, steps, pending, db, result>>

\* Mutant of Evaluate: the metrics are computed after the event that counts them.
EvaluateLate(r) ==
  /\ stage[r] = "collected" /\ Goto(r, "evaluated")
  /\ steps' = [steps EXCEPT ![r] = Len(events[r]) + 1]
  /\ Collect(r, <<Event("evaluation_completed")>>)
  /\ UNCHANGED <<outcome, pending, db, result>>

Evaluate(r) ==
  /\ stage[r] = "collected"
  /\ Goto(r, "evaluated")
  /\ steps' = [steps EXCEPT ![r] = Len(events[r])]
  /\ Collect(r, <<Event("evaluation_completed")>>)
  /\ UNCHANGED <<outcome, pending, db, result>>

\* The transaction of the call is over, and with it what it had flushed.
EndTransaction(r) == pending' = [pending EXCEPT ![r] = NoRow]

\* Mutant of Publish: session.commit() is forgotten.
PublishNothing(r) == EndTransaction(r) /\ UNCHANGED <<events, db>>

\* The flushes of _persist and its commit, seen by others as one step.
Publish(r) ==
  /\ Collect(r, <<Event("persistence_requested")>>)
  /\ db' = [db EXCEPT ![r] = SaveRun(pending, r, events'[r], steps[r], outcome[r])[r]]
  /\ EndTransaction(r)

Persist(r) ==
  /\ stage[r] = "evaluated"
  /\ Goto(r, "persisted")
  /\ Publish(r)
  /\ UNCHANGED <<outcome, steps, result>>

\* The rest of run(): nothing of what it returns is read back from the database.
Return(r) ==
  /\ stage[r] = "persisted"
  /\ Goto(r, "returned")
  /\ result' = [result EXCEPT ![r] =
                  [status |-> ResultStatus(outcome[r]), events |-> Len(events[r]),
                   cost |-> HasLiveCost(r, events[r])]]
  /\ UNCHANGED <<events, outcome, steps, pending, db>>

\* run_regression of the MCP server: it counts what its calls of run() returned.
Regression(runs) ==
  LET with(statuses) == Cardinality({r \in runs : result[r].status \in statuses})
  IN [total |-> Cardinality(runs), passed |-> with({"completed", "simulated"}),
      failed |-> with({"failed"})]

------------------------------------------------------------------------------
(* Failures                                                                 *)

\* A node raised (a benchmark that is not valid, a listener, the database): the
\* caller's `with` closes the session and the transaction is rolled back.
Raise(r) ==
  /\ stage[r] \in {"new"} \cup (Active \ {"persisted"})
  /\ Goto(r, "raised")
  /\ EndTransaction(r)
  /\ UNCHANGED <<events, outcome, steps, db, result>>

\* The database commits but the connection is lost before it says so.
LoseCommitAnswer(r) ==
  /\ stage[r] = "evaluated"
  /\ Goto(r, "raised")
  /\ Publish(r)
  /\ UNCHANGED <<outcome, steps, result>>

\* The process dies: the open transactions of all its calls are rolled back.
Crash ==
  /\ \E r \in Run : stage[r] \in Active
  /\ stage' = [r \in Run |-> IF stage[r] \in Active THEN "crashed" ELSE stage[r]]
  /\ pending' = [r \in Run |-> NoRow]
  /\ UNCHANGED <<events, outcome, steps, db, result>>

Node(r) ==
  \/ LoadBenchmark(r) \/ SetupEnvironment(r) \/ RunAgent(r) \/ CollectTrajectory(r)
  \/ Evaluate(r) \/ Persist(r) \/ Return(r)

Next == Crash \/ \E r \in Run : Node(r) \/ Raise(r) \/ LoseCommitAnswer(r)

Spec == Init /\ [][Next]_vars

\* A call that has begun goes on: its thread is scheduled, and what it waits for
\* (the model, the database) has a timeout.
FairSpec == Spec /\ \A r \in Run : WF_vars(stage[r] # "new" /\ Node(r))

------------------------------------------------------------------------------
(* Properties                                                               *)

\* Whatever fails and wherever the process dies, what readers find of a run is
\* nothing or the whole of it.
PublishedRunIsWhole == \A r \in Run : db[r] = NoRow \/ Whole(r, db[r])

\* What run() returns was computed from memory after the commit: it agrees with
\* the rows a reader of that run id finds, and the sums of a regression with the
\* statuses of its rows, although a run's status has other values there.
ReturnedIsPublished ==
  LET returned == {r \in Run : stage[r] = "returned"}
      rows(s) == {r \in returned : db[r].status = s} IN
  /\ \A r \in returned :
       /\ db[r] # NoRow
       /\ Cardinality(DOMAIN db[r].events) = result[r].events
       /\ db[r].cost = result[r].cost
       /\ result[r].status = IF db[r].evaluation = "simulated" THEN "simulated"
                             ELSE db[r].status
  /\ Regression(returned) =
       [total |-> Cardinality(returned), passed |-> Cardinality(rows("completed")),
        failed |-> Cardinality(rows("failed"))]

\* A failing agent does not lose its run: unless the call raises or the process
\* dies, the failure ends up in the table.
AgentFailureIsRecorded ==
  \A r \in Run : (stage[r] = "acted" /\ ~outcome[r].success) ~>
    (db[r].status = "failed" \/ stage[r] \in {"raised", "crashed"})

\* Readers, who list and open runs while others execute, see a run appear once,
\* final, and never change: the calls implement RunLedger.
Ledger ==
  INSTANCE RunLedger WITH
    ledger <- [r \in Run |-> IF db[r] = NoRow THEN <<"absent">>
                             ELSE IF Whole(r, db[r]) THEN <<"final", db[r]>>
                             ELSE <<"broken">>]

LedgerSpec == Ledger!Spec
=============================================================================
