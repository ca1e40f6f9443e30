-------------------------- MODULE OpenRouterCalls --------------------------
(***************************************************************************)
(* AsyncOpenRouterClient.complete of packages/core/agent_eval/openrouter.py *)
(* run by several coroutines that share one AsyncRateLimiter: every attempt *)
(* enters the limiter, sends its request, leaves the limiter and is either  *)
(* answered, retried after a backoff or given up.  OpenRouterClient, a copy *)
(* of it without a limiter, is the recursive function SyncComplete.         *)
(*                                                                          *)
(* A reply is the class of what the OpenAI SDK returns or raises (the       *)
(* clients are built with max_retries=0, so the SDK retries nothing).  One  *)
(* call of complete() is made by each task.                                 *)
(***************************************************************************)
EXTENDS RateLimiter

CONSTANTS MaxRetries,      \* settings.max_retries
          RetryableCodes,  \* settings.retryable_status_codes
          KeyMode,         \* settings.idempotency_key_mode
          Reply            \* the replies the provider can give

\* What create() returns: a response, or one of those that is not usable.
Success == {"ok", "costly", "empty", "refused", "filtered", "cut", "bad_tool_call"}

\* What it raises for an answer with an error status, and a status it has: the SDK
\* raises one InternalServerError for every status from 500 on, and an APIStatusError
\* without a class of its own for 402, 408 and 413.
HttpStatus ==
  [rate_limit |-> 429, server |-> 503, auth |-> 401, forbidden |-> 403, bad_request |-> 400,
   too_long |-> 400, not_found |-> 404, conflict |-> 409, unprocessable |-> 422,
   too_large |-> 413, payment |-> 402, late |-> 408]

\* What it raises: its timeout and connection errors carry no status.
Failure == DOMAIN HttpStatus \cup {"timeout", "connection", "stream"}

ASSUME CallAssumption ==
  /\ MaxRetries \in 0..10
  /\ RetryableCodes \subseteq Int
  /\ KeyMode \in {"none", "per_run", "per_request"}
  /\ Reply \subseteq Success \cup Failure

VARIABLES call,      \* where the coroutine is in complete()
          attempt,   \* the loop variable of _request_completion
          key,       \* the idempotency key of the call's headers
          nextKey,   \* uuid4: every key is new
          sent,      \* history: the requests sent, with their keys
          replies,   \* history: what each call's attempts were answered
          outcome    \* what complete() returned or raised, with its retry_count

callOnly == <<call, attempt, key, nextKey, sent, replies, outcome>>
callVars == <<vars, callOnly>>

Pending == [category |-> "pending", retries |-> 0]

\* The subclasses of OpenRouterError that complete() raises, an answer, and how a
\* call stands that has none of them.
Category ==
  {"timeout", "rate_limit", "auth", "permission", "bad_request", "input_limit",
   "output_limit", "not_found", "server_error", "connection", "stream_disconnected",
   "empty_response", "safety_filter", "content_filter", "tool_call", "cost_limit",
   "retry_limit", "openrouter"} \cup {"ok", "pending", "cancelled"}

NoKey == 0

CallTypeOK ==
  /\ TypeOK
  /\ call \in [Task -> {"ready", "request", "backoff", "ended"}]
  /\ attempt \in [Task -> 0..MaxRetries]
  /\ key \in [Task -> 0..Cardinality(Task)]
  /\ nextKey \in 1..(Cardinality(Task) + 1)
  /\ \A i \in DOMAIN sent : sent[i] \in [task : Task, key : 0..Cardinality(Task)]
  /\ \A t \in Task : replies[t] \in Seq(Reply)
  /\ outcome \in [Task -> [category : Category, retries : 0..MaxRetries]]

CallInit ==
  /\ Init
  /\ call = [t \in Task |-> "ready"]
  /\ attempt = [t \in Task |-> 0]
  /\ key = [t \in Task |-> NoKey]
  /\ nextKey = 1
  /\ sent = <<>>
  /\ replies = [t \in Task |-> <<>>]
  /\ outcome = [t \in Task |-> Pending]

------------------------------------------------------------------------------
(* What the code makes of a reply                                           *)

\* Mutant of StatusCode: the status of a plain APIStatusError is not returned.
StatusCodeOfClass(reply) ==
  CASE reply = "timeout" -> 408
    [] reply = "rate_limit" -> 429
    [] reply = "server" -> 500
    [] reply \in {"connection", "stream"} -> 0
    [] OTHER -> -1

\* _retry_status_code: a number for the class of the error, or else its status; 0 for
\* a connection error.
StatusCode(reply) ==
  CASE reply = "timeout" -> 408
    [] reply = "rate_limit" -> 429
    [] reply = "server" -> 500
    [] reply \in {"connection", "stream"} -> 0
    [] OTHER -> HttpStatus[reply]

Retryable(reply) == StatusCode(reply) = 0 \/ StatusCode(reply) \in RetryableCodes

\* The except clauses of complete(): the category of an error that was not raised
\* by the retry loop itself.
Mapped(reply) ==
  CASE reply = "server" -> "server_error"
    [] reply = "forbidden" -> "permission"
    [] reply \in {"too_long", "too_large"} -> "input_limit"
    [] reply \in {"conflict", "unprocessable", "payment", "late"} -> "openrouter"
    [] reply = "stream" -> "stream_disconnected"
    [] OTHER -> reply

\* Mutant of RaisedError: max_retries is reported for the retries made.
RaisedErrorMax(reply, n) ==
  CASE reply \in {"timeout", "rate_limit"} -> [category |-> reply, retries |-> MaxRetries]
    [] reply \notin {"timeout", "rate_limit"} /\ Retryable(reply) /\ n > 0 ->
         [category |-> "retry_limit", retries |-> MaxRetries]
    [] OTHER -> [category |-> Mapped(reply), retries |-> 0]

\* What is raised after the last attempt, number n: the errors raised in the
\* retry loop carry their retry_count, those mapped by complete() do not.
RaisedError(reply, n) ==
  CASE reply \in {"timeout", "rate_limit"} -> [category |-> reply, retries |-> n]
    [] reply \notin {"timeout", "rate_limit"} /\ Retryable(reply) /\ n > 0 ->
         [category |-> "retry_limit", retries |-> n]
    [] OTHER -> [category |-> Mapped(reply), retries |-> 0]

\* _validate_response_integrity
Integrity(reply) ==
  CASE reply = "empty" -> "empty_response"
    [] reply = "refused" -> "safety_filter"
    [] reply = "filtered" -> "content_filter"
    [] reply = "cut" -> "output_limit"
    [] reply = "bad_tool_call" -> "tool_call"
    [] OTHER -> "ok"

\* What complete() makes of an answer: its integrity, the cost, the response.
Answered(reply, n) ==
  CASE Integrity(reply) # "ok" -> [category |-> Integrity(reply), retries |-> 0]
    [] reply = "costly" -> [category |-> "cost_limit", retries |-> 0]
    [] OTHER -> [category |-> "ok", retries |-> n]

------------------------------------------------------------------------------
(* OpenRouterClient                                                         *)

\* The classes its _retry_status_code tests for; the APIStatusError that is left has
\* its own status.
SyncClass == [timeout |-> 408, rate_limit |-> 429, server |-> 500, connection |-> 0, stream |-> 0]

SyncStatus ==
  [reply \in Failure |->
     IF reply \in DOMAIN SyncClass THEN SyncClass[reply] ELSE HttpStatus[reply]]

\* The test of its retry loop.
SyncRetryable(reply) == SyncStatus[reply] \in RetryableCodes \cup {0}

\* Its _validate_response_integrity, as the errors it raises.
SyncDefect ==
  [empty |-> "empty_response", refused |-> "safety_filter", filtered |-> "content_filter",
   cut |-> "output_limit", bad_tool_call |-> "tool_call"]

\* The except clauses of its complete().
SyncError ==
  [timeout |-> "timeout", rate_limit |-> "rate_limit", auth |-> "auth",
   forbidden |-> "permission", too_long |-> "input_limit", bad_request |-> "bad_request",
   not_found |-> "not_found", server |-> "server_error", too_large |-> "input_limit",
   conflict |-> "openrouter", unprocessable |-> "openrouter", payment |-> "openrouter",
   late |-> "openrouter", stream |-> "stream_disconnected", connection |-> "connection"]

\* Its _request_completion on a provider that gives the replies rs: the number of
\* the last attempt, which is Len(rs) if the loop asks for one more reply.
SyncAttempts(rs) ==
  LET loop[n \in 0..MaxRetries] ==
        IF n = MaxRetries \/ n >= Len(rs) \/ rs[n + 1] \in Success
                          \/ ~SyncRetryable(rs[n + 1])
          THEN n ELSE loop[n + 1]
  IN loop[0]

\* Its complete(), with the requests it sends.
SyncComplete(rs) ==
  LET n == SyncAttempts(rs)
      end(category, retries) ==
        [category |-> category, retries |-> retries, requests |-> n + 1]
      last == rs[n + 1]
  IN IF n >= Len(rs) THEN end("pending", 0)
     ELSE IF last \in DOMAIN SyncDefect THEN end(SyncDefect[last], 0)
     ELSE IF last = "costly" THEN end("cost_limit", 0)
     ELSE IF last = "ok" THEN end("ok", n)
     ELSE IF n > 0 /\ last \in {"timeout", "rate_limit"} THEN end(last, n)
     ELSE IF n > 0 /\ SyncRetryable(last) THEN end("retry_limit", n)
     ELSE end(SyncError[last], 0)

------------------------------------------------------------------------------
(* Steps of a call                                                          *)

Finish(t, result) ==
  /\ call' = [call EXCEPT ![t] = "ended"]
  /\ outcome' = [outcome EXCEPT ![t] = result]

\* _validate_input_limits refuses the prompt: nothing is sent.
RefuseInput(t) ==
  /\ call[t] = "ready"
  /\ Finish(t, [category |-> "input_limit", retries |-> 0])
  /\ UNCHANGED <<vars, attempt, key, nextKey, sent, replies>>

\* Mutant of TakeKey: the headers of every call carry one key.
TakeSameKey(t) == key' = [key EXCEPT ![t] = 1] /\ UNCHANGED nextKey

\* _resolve_idempotency_headers; no agent passes a key of its own.
TakeKey(t) ==
  IF KeyMode = "none"
    THEN UNCHANGED <<key, nextKey>>
    ELSE key' = [key EXCEPT ![t] = nextKey] /\ nextKey' = nextKey + 1

\* complete() starts and goes for the limiter.
StartCall(t) ==
  /\ call[t] = "ready"
  /\ EnterFree(t) \/ EnterQueue(t)
  /\ TakeKey(t)
  /\ call' = [call EXCEPT ![t] = "request"]
  /\ UNCHANGED <<attempt, sent, replies, outcome>>

\* The backoff is over: the next attempt goes for the limiter.
Retry(t) ==
  /\ call[t] = "backoff"
  /\ EnterFree(t) \/ EnterQueue(t)
  /\ call' = [call EXCEPT ![t] = "request"]
  /\ attempt' = [attempt EXCEPT ![t] = @ + 1]
  /\ UNCHANGED <<key, nextKey, sent, replies, outcome>>

\* Moving on inside the limiter.
Wait(t) ==
  /\ Resume(t) \/ InheritLock(t) \/ Wake(t)
  /\ UNCHANGED callOnly

\* _retry_delay_seconds, Retry-After or not: some time passes.
BackOff(t) == call' = [call EXCEPT ![t] = "backoff"] /\ UNCHANGED outcome

\* The reply ends the call, or the coroutine backs off.
Conclude(t, reply) ==
  \/ /\ reply \in Success
     /\ Finish(t, Answered(reply, attempt[t]))
  \/ /\ reply \in Failure
     /\ ~Retryable(reply) \/ attempt[t] = MaxRetries
     /\ Finish(t, RaisedError(reply, attempt[t]))
  \/ /\ reply \in Failure
     /\ Retryable(reply) /\ attempt[t] < MaxRetries
     /\ BackOff(t)

\* chat.completions.create returns or raises: the limiter is left before the
\* except clause runs, so a backoff keeps no slot.
Respond(t) ==
  \E reply \in Reply :
    /\ Exit(t)
    /\ sent' = Append(sent, [task |-> t, key |-> key[t]])
    /\ replies' = [replies EXCEPT ![t] = Append(@, reply)]
    /\ Conclude(t, reply)
    /\ UNCHANGED <<attempt, key, nextKey>>

\* The task is cancelled while it waits for the limiter, for an answer or for
\* the end of its backoff: no except clause of the client catches it.
CancelCall(t) ==
  /\ \/ Cancel(t)
     \/ Exit(t)
     \/ call[t] = "backoff" /\ UNCHANGED vars
  /\ Finish(t, [category |-> "cancelled", retries |-> 0])
  /\ UNCHANGED <<attempt, key, nextKey, sent, replies>>

CallNext ==
  \/ Tick /\ UNCHANGED callOnly
  \/ \E t \in Task :
       \/ RefuseInput(t) \/ StartCall(t) \/ Retry(t)
       \/ Wait(t) \/ Respond(t) \/ CancelCall(t)
  \/ (\A t \in Task : call[t] = "ended") /\ UNCHANGED callVars

CallSpec == CallInit /\ [][CallNext]_callVars

(***************************************************************************)
(* Fairness: the event loop runs every coroutine that can run, a backoff    *)
(* ends and, the clients having a timeout, so does a request.               *)
(***************************************************************************)
CallFairness ==
  /\ WF_callVars(Tick /\ UNCHANGED callOnly)
  /\ \A t \in Task :
       WF_callVars(Retry(t)) /\ WF_callVars(Wait(t)) /\ WF_callVars(Respond(t))

FairCallSpec == CallSpec /\ CallFairness

------------------------------------------------------------------------------
(* Properties                                                               *)

\* An asynchronous call sends as many requests and ends as OpenRouterClient would
\* on the same replies: the retry loop stops neither early nor late, whatever the
\* other calls do to the limiter it passes before every attempt.
ClientsAgree ==
  \A t \in Task :
    (call[t] = "ended" /\ replies[t] # <<>> /\ outcome[t].category # "cancelled") =>
      SyncComplete(replies[t]) =
        [category |-> outcome[t].category, retries |-> outcome[t].retries,
         requests |-> Len(replies[t])]

\* What is reported can be told from what happened: retry_limit is reported only
\* of calls that did retry, and like a timeout, a 429 and an answer with the retries
\* made; a call that gave up after all its retries is reported by one of the three
\* errors that carry them, a failure that was not retried under its own name.
CategoryFromReplies ==
  \A t \in Task :
    (call[t] = "ended" /\ replies[t] # <<>> /\ outcome[t].category # "cancelled") =>
      LET made == Len(replies[t]) - 1
          last == replies[t][Len(replies[t])]
          told == outcome[t] IN
      /\ told.category \in {"timeout", "rate_limit", "retry_limit", "ok"} => told.retries = made
      /\ told.category = "retry_limit" => made > 0
      /\ told.category = "ok" <=> last = "ok"
      /\ last \in Failure /\ Retryable(last) /\ made > 0 =>
           made = MaxRetries /\ told.category \in {"timeout", "rate_limit", "retry_limit"}
      /\ last \in Failure /\ made = 0 => told.category = Mapped(last)

\* With an idempotency key, all attempts of a call carry one key and no two calls
\* share it, so the provider can tell a retry of a request it already served
\* (a timeout loses the answer, not the request) from a new one.
KeyNamesCall ==
  KeyMode # "none" =>
    \A i, j \in DOMAIN sent : sent[i].key = sent[j].key <=> sent[i].task = sent[j].task

\* Every call that started ends, although it enters the limiter again for every
\* attempt, sleeps there for its slot, and other calls back off, fail and are
\* cancelled meanwhile; unless cancellations have leaked every permit of the limiter.
CallsEnd ==
  \A t \in Task :
    call[t] = "request" ~> call[t] = "ended" \/ leaked = MaxConcurrency
=============================================================================
