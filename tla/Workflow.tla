------------------------------ MODULE Workflow ------------------------------
(***************************************************************************)
(* The data of one evaluation in packages/core/agent_eval/workflow.py: the  *)
(* events its nodes collect, what an agent can make of a benchmark          *)
(* (agent.py), and the rows _persist builds.  An event is its type with the *)
(* category of an error event, everything else in it is left out.           *)
(***************************************************************************)
EXTENDS RunRepository

CONSTANTS Run,          \* evaluations, each with the row it creates
          DryRuns,      \* those whose settings say engine.dry_run
          ClientError   \* categories of the errors the model client raises

ASSUME WorkflowAssumption ==
  /\ DryRuns \subseteq Run
  /\ ClientError \subseteq
       {"timeout", "rate_limit", "auth", "permission", "bad_request", "input_limit",
        "output_limit", "not_found", "server_error", "service_unavailable", "connection",
        "stream_disconnected", "empty_response", "safety_filter", "content_filter",
        "tool_call", "cost_limit", "retry_limit", "idempotency", "openrouter"}

Event(type) == <<type, "none">>
ErrorEvent(category) == <<"error", category>>

Opening == <<Event("benchmark_loaded"), Event("environment_ready"), Event("user_prompt")>>

\* What the run_agent node leaves behind: the events of the agent and of the
\* except clauses, the success and dry_run of final_state, failure_category.
Outcome(evs, success, dry, category) ==
  [events |-> evs, success |-> success, dry |-> dry, category |-> category]

Failed(evs, category) == Outcome(Append(evs, ErrorEvent(category)), FALSE, FALSE, category)

Answer == <<Event("llm_call"), Event("model_response")>>

\* The event listener raised on an event the agent recorded: `except Exception`
\* takes it for a model error.
ListenerFailure == {Failed(<<Event("llm_call")>>, "model"), Failed(Answer, "model")}

\* DryRunAgent and AsyncDryRunAgent
DryOutcome == {Outcome(Answer, TRUE, TRUE, "none")} \cup ListenerFailure

\* parse_json_response: the answer is no JSON object, or lacks what was asked for.
ParseError == {"invalid_format", "structured_output"}

\* OpenRouterAgent and AsyncOpenRouterAgent: the client fails; or the call is
\* recorded and then costs too much, is not JSON, or has not the fields asked
\* for; or the model says whether it succeeded.
LiveOutcome ==
  {Failed(<<>>, c) : c \in ClientError}
  \cup {Failed(<<Event("llm_call")>>, c) : c \in {"cost_limit"} \cup ParseError}
  \cup {Outcome(Answer, success, FALSE, "none") : success \in BOOLEAN}
  \cup ListenerFailure

AgentOutcome(r) == IF r \in DryRuns THEN DryOutcome ELSE LiveOutcome

\* _live_llm_cost_usd: a cost is recorded if a call was made that is no dry run.
HasLiveCost(r, trajectory) ==
  r \notin DryRuns /\ \E i \in DOMAIN trajectory : trajectory[i] = Event("llm_call")

\* Mutant of RunStatus: a run fails when it has a failure category.
RunStatusByCategory(o) == IF o.category = "none" THEN "completed" ELSE "failed"

RunStatus(o) == IF o.success THEN "completed" ELSE "failed"

EvaluationStatus(o) ==
  IF o.dry THEN "simulated" ELSE IF o.success THEN "passed" ELSE "failed"

\* The status of the EvaluationResult that is returned.
ResultStatus(o) ==
  IF o.dry THEN "simulated" ELSE IF o.success THEN "completed" ELSE "failed"

\* What _persist flushes, in its order, before it commits.
SaveRun(table, r, trajectory, stepCount, o) ==
  FinishRun(
    AddEvaluation(
      AddMetrics(AddEvents(table, r, trajectory), r, stepCount),
      r, EvaluationStatus(o)),
    r, RunStatus(o), o.category, HasLiveCost(r, trajectory))

------------------------------------------------------------------------------
\* The failure categories and the events of an evaluation.
Category == ClientError \cup {"cost_limit", "model"} \cup ParseError
Plain == {"benchmark_loaded", "environment_ready", "user_prompt", "llm_call",
          "model_response", "trajectory_collected", "evaluation_completed",
          "persistence_requested"}
Ev == {Event(type) : type \in Plain} \cup {ErrorEvent(c) : c \in Category}

\* A finished run as a reader must find it: numbered events without a gap from
\* loading the benchmark to asking for persistence, a step count of all of them
\* but the last two, one error event exactly if there is a failure category,
\* a cost exactly if a live call was made, and one verdict.
Whole(r, row) ==
  LET n == row.steps
      ev == row.events
      kinds == {ev[i] : i \in DOMAIN ev}
  IN /\ row.status \in {"completed", "failed"}
     /\ n > Len(Opening)
     /\ DOMAIN ev = 0..(n + 1)
     /\ \A i \in 1..Len(Opening) : ev[i - 1] = Opening[i]
     /\ <<ev[n - 1], ev[n], ev[n + 1]>> =
          <<Event("trajectory_collected"), Event("evaluation_completed"),
            Event("persistence_requested")>>
     /\ {e \in kinds : e[1] = "error"} =
          (IF row.category = "none" THEN {} ELSE {ErrorEvent(row.category)})
     /\ row.category # "none" => row.status = "failed"
     /\ row.cost <=> (r \notin DryRuns /\ Event("llm_call") \in kinds)
     /\ row.evaluation = IF row.status = "failed" THEN "failed"
                         ELSE IF r \in DryRuns THEN "simulated" ELSE "passed"
=============================================================================
