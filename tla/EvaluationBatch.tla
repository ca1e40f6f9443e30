-------------------------- MODULE EvaluationBatch --------------------------
(***************************************************************************)
(* EvaluationService.run_batch_async of packages/core/agent_eval/           *)
(* workflow.py: a coroutine per benchmark, all on one service and therefore *)
(* on one SQLAlchemy session, with an agent that is awaited.                *)
(*                                                                          *)
(* The only await of run_async is the agent's, so a task runs in two steps: *)
(* up to the agent, and from the agent to its commit.  Between them the     *)
(* others flush, commit and fail on the same session.  The caller is        *)
(* asyncio.run around `with session_factory() as session`: when gather      *)
(* raises, the session is closed and the loop cancels what is left.         *)
(***************************************************************************)
EXTENDS Workflow, FiniteSets

CONSTANTS MaxConcurrency,  \* the argument of run_batch_async
          Interrupts,      \* whether the caller may be interrupted (Ctrl-C)
          MaxFaults        \* bound: refused flushes and listeners that raise

\* Benchmarks are numbered in the order of the list that was passed.
ASSUME BatchAssumption ==
  /\ IsFiniteSet(Run) /\ Run = 1..Cardinality(Run)
  /\ MaxConcurrency \in Nat \ {0}
  /\ Interrupts \in BOOLEAN
  /\ MaxFaults \in Nat

VARIABLES stage,       \* where each task is
          cancelled,   \* tasks that will have CancelledError thrown at them
          outcome,     \* history: what the agent made of each benchmark
          batch,       \* where the coroutine awaiting gather is
          session,     \* "usable", or "poisoned" by a failed flush until closed
          view,        \* the rows as the session sees them
          db,          \* the committed rows
          faults       \* history: refused flushes and listeners that raised

vars == <<stage, cancelled, outcome, batch, session, view, db, faults>>

Stage == {"queued", "agent", "done", "raised", "cancelled", "crashed"}
Ended == {"done", "raised", "cancelled", "crashed"}
NoOutcome == Outcome(<<>>, FALSE, FALSE, "none")

BatchTypeOK ==
  /\ stage \in [Run -> Stage]
  /\ cancelled \subseteq Run
  /\ \A r \in Run : outcome[r] \in AgentOutcome(r) \cup {NoOutcome}
  /\ batch \in {"gathering", "raised", "closed", "returned", "crashed"}
  /\ session \in {"usable", "poisoned"}
  /\ \A r \in Run :
       {view[r].status, db[r].status} \subseteq
         {"absent", "running", "completed", "failed", "cancelled"}
  /\ faults \in 0..MaxFaults

Init ==
  /\ stage = [r \in Run |-> "queued"]
  /\ cancelled = {}
  /\ outcome = [r \in Run |-> NoOutcome]
  /\ batch = "gathering"
  /\ session = "usable"
  /\ view = [r \in Run |-> NoRow]
  /\ db = [r \in Run |-> NoRow]
  /\ faults = 0

------------------------------------------------------------------------------
(* The shared session                                                       *)

\* session.commit() publishes what every task has flushed.
Commit(table) == view' = table /\ db' = table /\ UNCHANGED <<session, faults>>

Flush(table) == view' = table /\ UNCHANGED <<db, session, faults>>

\* A flush the database refuses: the transaction is rolled back with everybody's
\* rows, and until rollback() or close() each use raises PendingRollbackError.
Poison == view' = db /\ session' = "poisoned" /\ UNCHANGED db

RefusedFlush ==
  /\ session = "usable" /\ faults < MaxFaults
  /\ faults' = faults + 1
  /\ Poison

\* The session refuses to be used.
Refused == session = "poisoned" /\ UNCHANGED <<session, view, db, faults>>

------------------------------------------------------------------------------
(* A task                                                                   *)

End(r, s) == stage' = [stage EXCEPT ![r] = s]

\* The semaphore lets the tasks in in the order of the list.
Admitted(r) ==
  /\ stage[r] = "queued" /\ r \notin cancelled
  /\ \A s \in Run : s < r => stage[s] # "queued"
  /\ Cardinality({s \in Run : stage[s] = "agent"}) < MaxConcurrency

\* Up to the agent: load_benchmark, create_run.
Start(r) ==
  /\ Admitted(r)
  /\ Flush(CreateRun(view, r)) /\ session = "usable"
  /\ End(r, "agent")
  /\ UNCHANGED <<cancelled, outcome, batch>>

\* The benchmark is not valid, or its row cannot be created.
StartFails(r) ==
  /\ Admitted(r)
  /\ \/ UNCHANGED <<session, view, db, faults>>
     \/ RefusedFlush
  /\ End(r, "raised")
  /\ UNCHANGED <<cancelled, outcome, batch>>

\* The event listener raises outside the agent, after create_run: nothing takes
\* the row back.
ListenerRaises(r) ==
  /\ faults < MaxFaults /\ session = "usable"
  /\ \/ Admitted(r) /\ view' = CreateRun(view, r)
     \/ stage[r] = "agent" /\ UNCHANGED view
  /\ faults' = faults + 1
  /\ End(r, "raised")
  /\ UNCHANGED <<cancelled, outcome, batch, session, db>>

\* The trajectory that _persist saves.
Trajectory(o) ==
  Opening \o o.events \o
  <<Event("trajectory_collected"), Event("evaluation_completed"), Event("persistence_requested")>>

\* Mutant of StepCount: the events of _evaluate and _persist count too.
StepCountAll(o) == Len(Opening) + Len(o.events) + 3

StepCount(o) == Len(Opening) + Len(o.events) + 1

\* build_async_agent: both asynchronous agents record what their synchronous twins
\* do, and await nothing but the client.
AsyncAgentOutcome(r) == AgentOutcome(r)

\* Mutant of Finish: the task awaits something more after its commit.
FinishAwaits(r) ==
  /\ stage[r] = "agent" /\ r \notin cancelled
  /\ session = "usable" /\ ~Missing(view, r)
  /\ \E o \in AsyncAgentOutcome(r) :
       /\ outcome' = [outcome EXCEPT ![r] = o]
       /\ Commit(SaveRun(view, r, Trajectory(o), StepCount(o), o))
  /\ UNCHANGED <<stage, cancelled, batch>>

\* From the agent's answer to the commit, and on_result, which may raise.
Finish(r) ==
  /\ stage[r] = "agent" /\ r \notin cancelled
  /\ session = "usable" /\ ~Missing(view, r)
  /\ \E o \in AsyncAgentOutcome(r) :
       /\ outcome' = [outcome EXCEPT ![r] = o]
       /\ Commit(SaveRun(view, r, Trajectory(o), StepCount(o), o))
  /\ \E s \in {"done", "raised"} : End(r, s)
  /\ UNCHANGED <<cancelled, batch>>

\* Mutant of FinishFails: the task returns its result although nothing was saved.
FinishFailsSilently(r) ==
  /\ stage[r] = "agent" /\ r \notin cancelled
  /\ RefusedFlush \/ Refused
  /\ End(r, "done")
  /\ UNCHANGED <<cancelled, outcome, batch>>

\* _persist cannot save the run: the database refuses a flush, it refuses the
\* events of a run whose row was rolled back, or the session is poisoned.
FinishFails(r) ==
  /\ stage[r] = "agent" /\ r \notin cancelled
  /\ \/ RefusedFlush
     \/ session = "usable" /\ Missing(view, r) /\ Poison /\ UNCHANGED faults
     \/ Refused
  /\ End(r, "raised")
  /\ UNCHANGED <<cancelled, outcome, batch>>

\* Mutant of CancelInAgent: the handler does not commit.
CancelWithoutCommit(r) ==
  /\ r \in cancelled /\ stage[r] = "agent"
  /\ session = "usable" /\ ~Missing(view, r)
  /\ Flush(FinishRun(view, r, "cancelled", "cancellation", FALSE))
  /\ End(r, "cancelled")
  /\ UNCHANGED <<cancelled, outcome, batch>>

\* CancelledError in the agent: the except clause records the cancellation.
CancelInAgent(r) ==
  /\ r \in cancelled /\ stage[r] = "agent"
  /\ session = "usable" /\ ~Missing(view, r)
  /\ Commit(FinishRun(view, r, "cancelled", "cancellation", FALSE))
  /\ End(r, "cancelled")
  /\ UNCHANGED <<cancelled, outcome, batch>>

\* Mutant of CancelFails: the task hangs on a poisoned session.
CancelFailsOnlyMissing(r) ==
  /\ r \in cancelled /\ stage[r] = "agent"
  /\ session = "usable" /\ Missing(view, r)
  /\ End(r, "raised")
  /\ UNCHANGED <<cancelled, outcome, batch, session, view, db, faults>>

\* finish_run raises in the except clause: the row is gone, or the session
\* poisoned.
CancelFails(r) ==
  /\ r \in cancelled /\ stage[r] = "agent"
  /\ session = "usable" => Missing(view, r)
  /\ End(r, "raised")
  /\ UNCHANGED <<cancelled, outcome, batch, session, view, db, faults>>

\* A task that has no run yet has nothing to record.
CancelInQueue(r) ==
  /\ r \in cancelled /\ stage[r] = "queued"
  /\ End(r, "cancelled")
  /\ UNCHANGED <<cancelled, outcome, batch, session, view, db, faults>>

------------------------------------------------------------------------------
(* The caller                                                               *)

\* Ctrl-C: gather cancels the tasks that have not ended.
CancelBatch ==
  /\ Interrupts /\ batch = "gathering" /\ cancelled = {}
  /\ cancelled' = {r \in Run : stage[r] \notin Ended}
  /\ cancelled' # {}
  /\ UNCHANGED <<stage, outcome, batch, session, view, db, faults>>

\* The first task to end with an exception ends gather; the others run on, and
\* of tasks cancelled together one may take longer, closing its connection.  The
\* tasks that need not queue have all taken their first step by then.
GatherRaises ==
  /\ batch = "gathering"
  /\ \A r \in Run : r <= MaxConcurrency => stage[r] # "queued"
  /\ \E r \in Run : stage[r] \in {"raised", "cancelled"}
  /\ batch' = "raised"
  /\ UNCHANGED <<stage, cancelled, outcome, session, view, db, faults>>

GatherReturns ==
  /\ batch = "gathering"
  /\ \A r \in Run : stage[r] = "done"
  /\ batch' = "returned"
  /\ UNCHANGED <<stage, cancelled, outcome, session, view, db, faults>>

\* The exception leaves the `with`: close() rolls back and makes the session
\* usable again.
CloseSession ==
  /\ batch = "raised"
  /\ batch' = "closed"
  /\ session' = "usable"
  /\ view' = db
  /\ UNCHANGED <<stage, cancelled, outcome, db, faults>>

\* asyncio.run cancels what is left.  A task that was ready ran before.
CancelRest ==
  /\ batch = "closed"
  /\ cancelled' = cancelled \cup {r \in Run : stage[r] \notin Ended}
  /\ cancelled' # cancelled
  /\ UNCHANGED <<stage, outcome, batch, session, view, db, faults>>

Crash ==
  /\ \E r \in Run : stage[r] \notin Ended
  /\ stage' = [r \in Run |-> IF stage[r] \in Ended THEN stage[r] ELSE "crashed"]
  /\ batch' = "crashed"
  /\ view' = db
  /\ UNCHANGED <<cancelled, outcome, session, db, faults>>

TaskStep(r) ==
  \/ Start(r) \/ StartFails(r) \/ ListenerRaises(r) \/ Finish(r) \/ FinishFails(r)
  \/ CancelInAgent(r) \/ CancelFails(r) \/ CancelInQueue(r)

CallerStep == GatherRaises \/ GatherReturns \/ CloseSession \/ CancelRest

Next == CancelBatch \/ Crash \/ CallerStep \/ \E r \in Run : TaskStep(r)

Spec == Init /\ [][Next]_vars

\* The event loop runs every task that can run, and an agent answers or times out.
FairSpec == Spec /\ WF_vars(CallerStep) /\ \A r \in Run : WF_vars(TaskStep(r))

------------------------------------------------------------------------------
(* Properties                                                               *)

\* A result that was handed to the caller is in the table for good, as the whole
\* of that run, whatever the siblings on the session do before and after it.
DoneIsPublished ==
  \A r \in Run : stage[r] = "done" =>
    /\ Whole(r, db[r])
    /\ db[r].status = RunStatus(outcome[r]) /\ db[r].category = outcome[r].category

\* A row in the table is whole, or a running one with nothing in it, or a
\* cancelled one with nothing in it: no commit publishes half of another task's run.
NoHalfRun ==
  \A r \in Run :
    \/ db[r] = NoRow
    \/ db[r] = CreateRun(db, r)[r]
    \/ db[r] = FinishRun(CreateRun(db, r), r, "cancelled", "cancellation", FALSE)[r]
    \/ Whole(r, db[r])

\* A run that another task's commit published as running and that no task works
\* on any more is left behind by a crash or by a task that raised because of a
\* fault or of the session being closed under it (and the process may then die of
\* a crash): never by a task that was cancelled in time, returned, or had a sibling
\* raise.
LeftRunningOnlyByFailure ==
  \A r \in Run : (db[r].status = "running" /\ stage[r] \in Ended) =>
    \/ stage[r] = "crashed"
    \/ stage[r] = "raised" /\ (faults > 0 \/ batch \in {"closed", "crashed"})

\* Every task ends, also when the session is poisoned or closed under it, and the
\* caller gets its results or an exception.
BatchSettles ==
  <>[](/\ \A r \in Run : stage[r] \in Ended
       /\ batch \in {"closed", "returned", "crashed"})

\* Readers never see a run change once it is final, nor one that was visible
\* disappear, although the tasks share one transaction.
Ledger ==
  INSTANCE RunLedger WITH
    ledger <- [r \in Run |->
                 IF db[r] = NoRow THEN <<"absent">>
                 ELSE IF db[r].status = "running" THEN <<"running">>
                 ELSE <<"final", db[r]>>]

LedgerSpec == Ledger!Spec

\* tests/unit/test_async_openrouter.py:101: the status is recorded safely when a
\* cancellation occurs.  A task cancelled in its agent has created a run.
CancellationRecorded ==
  \A r \in cancelled : (stage[r] = "raised" /\ faults = 0) => db[r].status = "cancelled"
=============================================================================
