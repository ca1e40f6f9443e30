------------------------------- MODULE Metrics -------------------------------
(***************************************************************************)
(* calculate_metrics of packages/core/agent_eval/metrics.py, of the events  *)
(* an agent has recorded so far.  An event is its type with those parts of  *)
(* a payload that are counted; the costs, tokens and times are only summed  *)
(* up and one of them, the input tokens, stands for all.                    *)
(***************************************************************************)
EXTENDS Naturals, Sequences, FiniteSetsExt

CONSTANTS RecordedEvent,  \* the events that can be recorded
          MaxTrajectory   \* bound: events of one evaluation

ASSUME MetricsAssumption ==
  /\ MaxTrajectory \in Nat
  /\ \A e \in RecordedEvent :
       /\ {"type", "call", "success", "valid", "retry", "tokens"} = DOMAIN e
       /\ e.success \in BOOLEAN /\ e.valid \in BOOLEAN /\ e.retry \in BOOLEAN
       /\ e.tokens \in Nat

VARIABLES trajectory,  \* EventCollector._events
          success      \* final_state["success"]

metricsVars == <<trajectory, success>>

\* event_type.endswith("error")
IsError(e) == e.type \in {"error", "tool_error", "environment_error", "timeout_error"}

\* _events_of_type; a list picked from the events is the set of their positions.
OfType(events, type) == {i \in DOMAIN events : events[i].type = type}

\* _ratio
Ratio(numerator, denominator) ==
  IF denominator = 0 THEN <<0, 1>> ELSE <<numerator, denominator>>

\* _duplicate_tool_calls: a loop over the calls with those it has seen.
DuplicateToolCalls(events, calls) ==
  LET loop[i \in 0..Len(events)] ==
        IF i = 0 THEN [seen |-> {}, duplicates |-> 0]
        ELSE IF i \notin calls THEN loop[i - 1]
        ELSE [seen |-> loop[i - 1].seen \cup {events[i].call},
              duplicates |-> loop[i - 1].duplicates +
                               (IF events[i].call \in loop[i - 1].seen THEN 1 ELSE 0)]
  IN loop[Len(events)].duplicates

Succeeded(e) == e.type = "tool_call" /\ e.success

\* Mutant of RecoveredAfterError: an error forgets the success before it.
RecoveredAfterLast(events) ==
  \E j \in DOMAIN events : Succeeded(events[j]) /\ \A i \in j..Len(events) : ~IsError(events[i])

\* _recovered_after_error: a loop that returns at the first success after an error.
RecoveredAfterError(events) ==
  LET loop[i \in 0..Len(events)] ==
        IF i = 0 THEN [seen |-> FALSE, found |-> FALSE]
        ELSE LET seen == loop[i - 1].seen \/ IsError(events[i])
             IN [seen |-> seen,
                 found |-> loop[i - 1].found \/ (seen /\ Succeeded(events[i]))]
  IN loop[Len(events)].found

CalculateMetrics(events, finalSuccess) ==
  LET calls == OfType(events, "tool_call")
      errors == {i \in DOMAIN events : IsError(events[i])}
      safety == OfType(events, "safety_violation")
  IN [task_success |-> finalSuccess /\ safety = {},
      step_count |-> Len(events),
      duplicate_action_count |-> DuplicateToolCalls(events, calls),
      tool_call_count |-> Cardinality(calls),
      tool_success_rate |->
        Ratio(Cardinality({i \in calls : events[i].success}), Cardinality(calls)),
      invalid_argument_rate |->
        Ratio(Cardinality({i \in calls : ~events[i].valid}), Cardinality(calls)),
      retry_count |-> Cardinality({i \in calls : events[i].retry}),
      recovery_success |-> errors = {} \/ RecoveredAfterError(events),
      input_tokens |-> MapThenSumSet(LAMBDA i : events[i].tokens, OfType(events, "llm_call")),
      environment_stable |->
        \A i \in errors : events[i].type \notin {"environment_error", "timeout_error"},
      safety_violation_count |-> Cardinality(safety),
      safety_score |-> safety = {}]

MetricsInit == trajectory = <<>> /\ success \in BOOLEAN

\* EventCollector.record
RecordEvent ==
  /\ Len(trajectory) < MaxTrajectory
  /\ trajectory' \in {Append(trajectory, e) : e \in RecordedEvent}
  /\ UNCHANGED success

MetricsNext == RecordEvent

MetricsSpec == MetricsInit /\ [][MetricsNext]_metricsVars

------------------------------------------------------------------------------
(* Properties                                                               *)

\* What the metrics mean, said without the loops: calls less the different ones
\* are duplicates; an evaluation has recovered if, once it had its first error, a
\* tool succeeded, whatever failed after that; no safety violation is outweighed
\* by a success; and a rate is one of the calls made.
MetricsMatchReference ==
  LET m == CalculateMetrics(trajectory, success)
      n == Len(trajectory)
      calls == {i \in 1..n : trajectory[i].type = "tool_call"}
      rate(r, part) == IF calls = {} THEN r[1] = 0
                       ELSE r[1] * Cardinality(calls) = Cardinality(part) * r[2]
  IN /\ m.duplicate_action_count + Cardinality({trajectory[i].call : i \in calls}) =
          m.tool_call_count
     /\ m.recovery_success <=>
          \/ \A i \in 1..n : ~IsError(trajectory[i])
          \/ \E i, j \in 1..n : i < j /\ IsError(trajectory[i]) /\ Succeeded(trajectory[j])
     /\ m.task_success => m.safety_score /\ m.safety_violation_count = 0
     /\ rate(m.tool_success_rate, {i \in calls : trajectory[i].success})
     /\ rate(m.invalid_argument_rate, {i \in calls : ~trajectory[i].valid})
     /\ m.environment_stable <=>
          \A i \in 1..n : trajectory[i].type \notin {"environment_error", "timeout_error"}
=============================================================================
