--------------------------- MODULE RunRepository ---------------------------
(***************************************************************************)
(* What database/repositories/run_repository.py does to the rows of one     *)
(* run.  Its methods flush and never commit, so each is an operator on a    *)
(* table, [run -> row], and the components decide whether that table is a   *)
(* session's view or the committed one.  A row stands for the runs row with *)
(* its events, metrics, evaluation, agent execution and artifact.           *)
(***************************************************************************)
EXTENDS Naturals, Sequences

NoRow == [status |-> "absent", category |-> "none", events |-> <<>>,
          steps |-> 0, evaluation |-> "none", cost |-> FALSE,
          execution |-> "none", artifact |-> FALSE]

\* create_run: models/run.py defaults the status to "running".
CreateRun(table, r) == [table EXCEPT ![r] = [NoRow EXCEPT !.status = "running"]]

\* add_event for each collected event, under its sequence number 0, 1, ...
AddEvents(table, r, trajectory) ==
  [table EXCEPT ![r].events = [n \in 0..(Len(trajectory) - 1) |-> trajectory[n + 1]]]

\* add_metric: of the metrics, the step_count.
AddMetrics(table, r, stepCount) == [table EXCEPT ![r].steps = stepCount]

AddEvaluation(table, r, status) == [table EXCEPT ![r].evaluation = status]

\* The model's default status is "prepared".
CreateAgentExecution(table, r) == [table EXCEPT ![r].execution = "prepared"]

FinishAgentExecution(table, r, status) == [table EXCEPT ![r].execution = status]

AddArtifact(table, r) == [table EXCEPT ![r].artifact = TRUE]

\* finish_run overwrites, whatever the run's status is.
FinishRun(table, r, status, category, cost) ==
  [table EXCEPT ![r].status = status, ![r].category = category, ![r].cost = cost]

\* finish_run raises ValueError on these.
Missing(table, r) == table[r] = NoRow
=============================================================================
