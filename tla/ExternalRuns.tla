---------------------------- MODULE ExternalRuns ----------------------------
(***************************************************************************)
(* Runs that other programs report: the write endpoints of apps/api/main.py *)
(* (POST /runs, /runs/{id}/events, /runs/{id}/finish) and the import of a   *)
(* transcript (packages/core/agent_eval/real_agent_adapter.py), which the   *)
(* API, the MCP server and scripts call.  Each request is handled in a      *)
(* thread with a session of its own, and repeated by a client that did not  *)
(* learn what became of it.                                                 *)
(*                                                                          *)
(* PostgreSQL is external: READ COMMITTED transactions, a unique index on   *)
(* events(run_id, sequence) and one on agent_targets(name), both of which   *)
(* make an insert wait for an uncommitted insert of the same value, and a   *)
(* row lock that makes an UPDATE wait for an uncommitted one.               *)
(***************************************************************************)
EXTENDS RunRepository, FiniteSets

CONSTANTS EventRequest,   \* POST /runs/{id}/events
          FinishRequest,  \* POST /runs/{id}/finish
          ImportRequest,  \* transcript imports
          Sequence(_),    \* the sequence number in an event's body
          Finish(_),      \* the status and failure_category of a finish's body
          Target(_),      \* the agent_targets name of a transcript
          Transcript(_),  \* its events, task_success, status and failure_category
          ApiRun,         \* the run created by POST /runs
          MaxFaults,      \* bound: requests that fail on the way
          MaxRetries      \* bound: repetitions of one request

Request == EventRequest \cup FinishRequest \cup ImportRequest

\* FinishRunRequest and load_agent_transcript accept no other status.
Final == {"completed", "failed", "cancelled"}

\* The row an import creates; a repeated import creates another one.
Imported == ImportRequest \X (0..MaxRetries)
Row == {ApiRun} \cup Imported

ASSUME ExternalAssumption ==
  /\ IsFiniteSet(Request) /\ ApiRun \notin Imported
  /\ EventRequest \cap FinishRequest = {} /\ EventRequest \cap ImportRequest = {}
  /\ FinishRequest \cap ImportRequest = {}
  /\ \A f \in FinishRequest :
       /\ Finish(f) = [status |-> Finish(f).status, category |-> Finish(f).category]
       /\ Finish(f).status \in Final
  /\ \A i \in ImportRequest : Transcript(i).status \in Final
  /\ MaxFaults \in Nat /\ MaxRetries \in Nat

VARIABLES stage,      \* where the handler of a request is
          answer,     \* what its client was told
          seen,       \* the columns a finish handler read
          db,         \* the committed rows
          inserted,   \* imports with an uncommitted agent_targets row
          targets,    \* the names in agent_targets
          retries,    \* repetitions of each request
          faults,     \* history: failures so far
          lost,       \* history: events committed whose clients were told "error"
          races,      \* history: how often an import met another's target
          last,       \* history: the last finish that committed
          unwritten   \* history: the columns it did not write although another
                      \* finish had changed them since it read them

vars == <<stage, answer, seen, db, inserted, targets, retries, faults, lost, races,
          last, unwritten>>
history == <<faults, lost, races, last, unwritten>>

NoRequest == "none"
Columns(row) == [status |-> row.status, category |-> row.category]
Unread == Columns(NoRow)

\* Transactions that hold an uncommitted row or a row lock.
Open == {r \in Request : stage[r] = "flushed"}

Init ==
  /\ stage = [r \in Request |-> "ready"]
  /\ answer = [r \in Request |-> "none"]
  /\ seen = [f \in FinishRequest |-> Unread]
  /\ db = [r \in Row |-> NoRow]
  /\ inserted = {} /\ targets = {}
  /\ retries = [r \in Request |-> 0]
  /\ faults = 0 /\ lost = {} /\ races = [i \in ImportRequest |-> 0]
  /\ last = NoRequest /\ unwritten = {}

Goto(r, place) == stage' = [stage EXCEPT ![r] = place] /\ UNCHANGED answer

Answer(r, told) ==
  /\ stage' = [stage EXCEPT ![r] = "ended"]
  /\ answer' = [answer EXCEPT ![r] = told]

\* After its commit a handler answers, or its client does not hear of it.
AnswerOrLose(r) ==
  \/ Answer(r, "ok") /\ UNCHANGED <<faults, lost>>
  \/ /\ faults < MaxFaults /\ faults' = faults + 1
     /\ lost' = lost \cup ({r} \cap EventRequest)
     /\ Answer(r, "error")

------------------------------------------------------------------------------
(* POST /runs and POST /runs/{id}/events                                    *)

\* The id is known to nobody before the commit, so creating is one step.
CreateApiRun ==
  /\ Missing(db, ApiRun)
  /\ db' = CreateRun(db, ApiRun)
  /\ UNCHANGED <<stage, answer, seen, inserted, targets, retries, history>>

CheckRun(e) ==
  /\ stage[e] = "ready"
  /\ \/ Missing(db, ApiRun) /\ Answer(e, "not_found")
     \/ ~Missing(db, ApiRun) /\ Goto(e, "checked")
  /\ UNCHANGED <<seen, db, inserted, targets, retries, history>>

\* reject_secret_configuration refuses the body.
RefuseEvent(e) ==
  /\ stage[e] = "checked"
  /\ Answer(e, "invalid")
  /\ UNCHANGED <<seen, db, inserted, targets, retries, history>>

Stored == db[ApiRun].events
SameNumber(e) == {o \in EventRequest \cap Open : Sequence(o) = Sequence(e)}

\* Mutant of InsertEvent: a query for the number in place of the unique index.
InsertEventUnlocked(e) ==
  /\ stage[e] = "checked"
  /\ \/ Sequence(e) \in DOMAIN Stored /\ Answer(e, "conflict")
     \/ Sequence(e) \notin DOMAIN Stored /\ Goto(e, "flushed")
  /\ UNCHANGED <<seen, db, inserted, targets, retries, history>>

\* add_event flushes: IntegrityError becomes a 409.
InsertEvent(e) ==
  /\ stage[e] = "checked"
  /\ SameNumber(e) = {}
  /\ \/ Sequence(e) \in DOMAIN Stored /\ Answer(e, "conflict")
     \/ Sequence(e) \notin DOMAIN Stored /\ Goto(e, "flushed")
  /\ UNCHANGED <<seen, db, inserted, targets, retries, history>>

\* Mutant of CommitEvent: neither commit nor close.
CommitEventForgotten(e) ==
  /\ stage[e] = "flushed" /\ answer' = [answer EXCEPT ![e] = "ok"]
  /\ UNCHANGED <<stage, db, seen, inserted, targets, retries, history>>

CommitEvent(e) ==
  /\ stage[e] = "flushed"
  /\ db' = [db EXCEPT ![ApiRun].events =
              [n \in DOMAIN @ \cup {Sequence(e)} |-> IF n = Sequence(e) THEN e ELSE @[n]]]
  /\ AnswerOrLose(e)
  /\ UNCHANGED <<seen, inserted, targets, retries, races, last, unwritten>>

EventStep(e) == CheckRun(e) \/ RefuseEvent(e) \/ InsertEvent(e) \/ CommitEvent(e)

------------------------------------------------------------------------------
(* POST /runs/{id}/finish                                                   *)

\* Any ValueError, of a body with a secret too, is answered 404.
RefuseFinish(f) ==
  /\ stage[f] = "ready"
  /\ Answer(f, "not_found")
  /\ UNCHANGED <<seen, db, inserted, targets, retries, history>>

\* session.get(Run, run_id)
LoadRun(f) ==
  /\ stage[f] = "ready"
  /\ ~Missing(db, ApiRun)
  /\ seen' = [seen EXCEPT ![f] = Columns(db[ApiRun])]
  /\ Goto(f, "loaded")
  /\ UNCHANGED <<db, inserted, targets, retries, history>>

\* The UPDATE, which waits for the row lock.
UpdateRun(f) ==
  /\ stage[f] = "loaded"
  /\ FinishRequest \cap Open = {}
  /\ Goto(f, "flushed")
  /\ UNCHANGED <<seen, db, inserted, targets, retries, history>>

\* Mutant of Written: a failure_category of None is not written.
WrittenIfGiven(f, column) ==
  Finish(f)[column] # seen[f][column] /\ Finish(f)[column] # "none"

\* SQLAlchemy's UPDATE sets the columns whose value differs from the one read.
Written(f, column) == Finish(f)[column] # seen[f][column]

NewValue(f, column) ==
  IF Written(f, column) THEN Finish(f)[column] ELSE db[ApiRun][column]

\* For the history: what f found to be as it wanted it, until another changed it.
Overtaken(f) ==
  {c \in {"status", "category"} : Finish(f)[c] = seen[f][c] /\ seen[f][c] # db[ApiRun][c]}

CommitFinish(f) ==
  /\ stage[f] = "flushed"
  /\ db' = FinishRun(db, ApiRun, NewValue(f, "status"), NewValue(f, "category"), FALSE)
  /\ last' = f
  /\ unwritten' = Overtaken(f)
  /\ seen' = [seen EXCEPT ![f] = Unread]
  /\ AnswerOrLose(f)
  /\ UNCHANGED <<inserted, targets, retries, races>>

FinishStep(f) == RefuseFinish(f) \/ LoadRun(f) \/ UpdateRun(f) \/ CommitFinish(f)

------------------------------------------------------------------------------
(* import_agent_transcript                                                  *)

\* load_agent_transcript raises TranscriptError.
RefuseImport(i) ==
  /\ stage[i] = "ready"
  /\ Answer(i, "invalid")
  /\ UNCHANGED <<seen, db, inserted, targets, retries, history>>

\* Mutant of FindTarget: the target is looked up by a name it is not stored under.
FindTargetNever(i) ==
  /\ stage[i] = "ready"
  /\ Goto(i, "missing")
  /\ UNCHANGED <<seen, db, inserted, targets, retries, history>>

\* The query of get_or_create_agent_target.
FindTarget(i) ==
  /\ stage[i] = "ready"
  /\ Goto(i, IF Target(i) \in targets THEN "found" ELSE "missing")
  /\ UNCHANGED <<seen, db, inserted, targets, retries, history>>

\* Its insert: the IntegrityError of a target that has been stored in between is
\* caught nowhere.
InsertTarget(i) ==
  /\ stage[i] = "missing"
  /\ \A o \in inserted : Target(o) # Target(i)
  /\ \/ /\ Target(i) \in targets
        /\ Answer(i, "raced")
        /\ races' = [races EXCEPT ![i] = @ + 1]
        /\ UNCHANGED inserted
     \/ /\ Target(i) \notin targets
        /\ Goto(i, "found")
        /\ inserted' = inserted \cup {i}
        /\ UNCHANGED races
  /\ UNCHANGED <<seen, db, targets, retries, faults, lost, last, unwritten>>

\* The run with its events, metrics, evaluation and final values.
SaveTranscript(table, i, row) ==
  LET t == Transcript(i)
      begun == CreateAgentExecution(CreateRun(table, row), row)
      ended == FinishAgentExecution(AddEvents(begun, row, t.events), row, t.status)
  IN FinishRun(
       AddEvaluation(
         AddMetrics(AddArtifact(ended, row), row, Len(t.events)),
         row, IF t.success THEN "passed" ELSE "failed"),
       row, t.status, t.category, FALSE)

\* Mutant of SaveImport: create_run commits what it adds.
SaveImportCommits(i) ==
  /\ stage[i] = "found" /\ Goto(i, "flushed")
  /\ db' = CreateRun(db, <<i, retries[i]>>)
  /\ UNCHANGED <<seen, inserted, targets, retries, history>>

\* The flushes, none of which another transaction can see.
SaveImport(i) ==
  /\ stage[i] = "found"
  /\ Goto(i, "flushed")
  /\ UNCHANGED <<seen, db, inserted, targets, retries, history>>

CommitImport(i) ==
  /\ stage[i] = "flushed"
  /\ db' = SaveTranscript(db, i, <<i, retries[i]>>)
  /\ targets' = targets \cup {Target(o) : o \in inserted \cap {i}}
  /\ inserted' = inserted \ {i}
  /\ AnswerOrLose(i)
  /\ UNCHANGED <<seen, retries, races, last, unwritten>>

ImportStep(i) ==
  RefuseImport(i) \/ FindTarget(i) \/ InsertTarget(i) \/ SaveImport(i) \/ CommitImport(i)

------------------------------------------------------------------------------
(* Failures and clients                                                     *)

RollBack(r) == inserted' = inserted \ {r}

\* The connection to the database, the handler or its process dies before the
\* commit, or the transcript's file is gone when it is read again.
Fail(r) ==
  /\ stage[r] \notin {"ready", "ended"}
  /\ faults < MaxFaults /\ faults' = faults + 1
  /\ RollBack(r)
  /\ seen' = [f \in FinishRequest |-> IF f = r THEN Unread ELSE seen[f]]
  /\ Answer(r, "error")
  /\ UNCHANGED <<db, targets, retries, lost, races, last, unwritten>>

\* A client repeats a request that was answered 500 or not at all.
Retry(r) ==
  /\ stage[r] = "ended" /\ answer[r] \in {"error", "raced"}
  /\ retries[r] < MaxRetries
  /\ retries' = [retries EXCEPT ![r] = @ + 1]
  /\ stage' = [stage EXCEPT ![r] = "ready"]
  /\ answer' = [answer EXCEPT ![r] = "none"]
  /\ UNCHANGED <<seen, db, inserted, targets, history>>

Handler ==
  \/ \E e \in EventRequest : EventStep(e)
  \/ \E f \in FinishRequest : FinishStep(f)
  \/ \E i \in ImportRequest : ImportStep(i)

Next == CreateApiRun \/ Handler \/ \E r \in Request : Fail(r) \/ Retry(r)

Spec == Init /\ [][Next]_vars

\* A request that is being handled is: its thread is scheduled, PostgreSQL answers.
FairSpec ==
  /\ Spec
  /\ \A e \in EventRequest : WF_vars(stage[e] # "ready" /\ EventStep(e))
  /\ \A f \in FinishRequest : WF_vars(stage[f] # "ready" /\ FinishStep(f))
  /\ \A i \in ImportRequest : WF_vars(stage[i] # "ready" /\ ImportStep(i))

------------------------------------------------------------------------------
(* Properties                                                               *)

\* Values; and who owns an uncommitted target is past every insert that can wait.
ExternalTypeOK ==
  /\ \A e \in EventRequest : stage[e] \in {"ready", "checked", "flushed", "ended"}
  /\ \A f \in FinishRequest : stage[f] \in {"ready", "loaded", "flushed", "ended"}
  /\ \A i \in ImportRequest : stage[i] \in {"ready", "missing", "found", "flushed", "ended"}
  /\ \A r \in Request :
       /\ answer[r] \in {"none", "ok", "not_found", "invalid", "conflict", "raced", "error"}
       /\ answer[r] # "none" <=> stage[r] = "ended"
  /\ \A r \in Row :
       db[r].status \in {"absent", "running"} \cup Final
  /\ \A i \in inserted : stage[i] \in {"found", "flushed"}

\* The guards of what a handler that is at work does next.
CanGoOn(r) ==
  \/ r \in EventRequest /\ stage[r] = "checked" /\ SameNumber(r) = {}
  \/ r \in FinishRequest /\ stage[r] = "loaded" /\ FinishRequest \cap Open = {}
  \/ r \in ImportRequest /\ stage[r] = "missing" /\ \A o \in inserted : Target(o) # Target(r)
  \/ r \in ImportRequest /\ stage[r] = "found"
  \/ stage[r] = "flushed"

\* PostgreSQL makes an insert or an UPDATE wait for another transaction; no two ever
\* wait for each other: while a request is being handled, one can go on.
NeverStuck ==
  (\E r \in Request : stage[r] \notin {"ready", "ended"}) => \E r \in Request : CanGoOn(r)

\* What create_event answers is true for good: 201 means that this event is the
\* one stored under its number; 409 that one is stored, and that it is somebody
\* else's unless an earlier answer to this client was lost after its commit.
EventAnswerIsTrue ==
  \A e \in EventRequest :
    /\ answer[e] = "ok" => Sequence(e) \in DOMAIN Stored /\ Stored[Sequence(e)] = e
    /\ answer[e] = "conflict" =>
         Sequence(e) \in DOMAIN Stored /\ (Stored[Sequence(e)] = e => e \in lost)

\* However finishes, repetitions and failures interleave, the run has the status
\* and the failure category of the last finish that committed.  Of an overlapping
\* finish only a column can be left that the last one found to be as it wanted it
\* before the other changed it, and only until the next finish.
FinishIsLastRequests ==
  last # NoRequest =>
    \A c \in {"status", "category"} \ unwritten : db[ApiRun][c] = Finish(last)[c]

WholeImport(i, row) ==
  LET t == Transcript(i) IN
  /\ Columns(row) = [status |-> t.status, category |-> t.category]
  /\ DOMAIN row.events = 0..(row.steps - 1)
  /\ row.evaluation = IF t.success THEN "passed" ELSE "failed"
  /\ row.execution = row.status /\ row.artifact

\* tests/integration/MANUAL_REAL_AGENT_ADAPTER.md: an import saves a complete
\* history or nothing, in all its tables: a run is whole and has its target, a
\* target has a run, and a client told "ok" finds the run of its last attempt.
ImportsAllOrNothing ==
  /\ \A row \in Imported :
       db[row] # NoRow => WholeImport(row[1], db[row]) /\ Target(row[1]) \in targets
  /\ targets = {Target(row[1]) : row \in {x \in Imported : db[x] # NoRow}}
  /\ \A i \in ImportRequest : answer[i] = "ok" => db[<<i, retries[i]>>] # NoRow

\* An import that loses the race for a new target is refused, but only once: the
\* target is there when it is repeated.
RacesOnce ==
  \A i \in ImportRequest :
    races[i] > 0 => races[i] = 1 /\ Target(i) \in targets

\* No request waits for ever for an index entry or a row lock of another one:
\* after the last of the (finitely many) requests, none is still being handled.
RequestsAnswered == <>[](\A r \in Request : stage[r] \in {"ready", "ended"})
=============================================================================
